-------------------------- MODULE ThreadsListProofs --------------------------
(***************************************************************************)
(* What is proved of the lists of Threads: that a thread is on one list at *)
(* a time, that sleepers wake in time, that the highest priority goes      *)
(* first, and that no wakeup is lost.                                      *)
(***************************************************************************)
EXTENDS ThreadsProofs

-----------------------------------------------------------------------------
(* Lists.  ElemOnOneList alone is not inductive: wake_waiting_list readies *)
(* the thread it finds and pops the front, which are the same one only     *)
(* because waiting_list is sorted.                                         *)

Blocked(st) == {t \in Threads : st[t] = "BLOCKED"}

\* The threads on a ready list are the READY ones.
Queued(st, ready) ==
  IsInjective(ready) /\ Range(ready) = {t \in Threads : st[t] = "READY"}

\* The first part of ElemOnOneList: the ready list and the processor.
Sched ==
  /\ Queued(status, ready_list)
  /\ {t \in AllThreads : status[t] = "RUNNING"} = {current}

\* The second part: the lists of waiting threads.
Waits ==
  /\ IsInjective(waiting_list)
  /\ \A s \in AllSemas : IsInjective(waiters[s])
  /\ \A s \in AllSemas : Range(waiters[s]) \cap Range(waiting_list) = {}
  /\ \A r, s \in AllSemas : r # s => Range(waiters[r]) \cap Range(waiters[s]) = {}
  /\ \A t : t \in Blocked(status) <=>
              t \in Range(waiting_list) \/ \E s \in AllSemas : t \in Range(waiters[s])

Sorted(list, key) == \A i, j \in DOMAIN list : i < j => key[list[i]] <= key[list[j]]

ListsOK == Sched /\ Waits /\ Sorted(waiting_list, waking_time)

ListInv == TypeInv /\ ListsOK

\* The two parts together.
LEMMA ListParts == ElemOnOneList <=> Sched /\ Waits
<1>1. (Range(waiting_list) \cup UNION {Range(waiters[s]) : s \in AllSemas} = Blocked(status))
        <=> \A t : t \in Blocked(status) <=>
              t \in Range(waiting_list) \/ \E s \in AllSemas : t \in Range(waiters[s])
  <2>1. \A t : t \in UNION {Range(waiters[s]) : s \in AllSemas}
                 <=> \E s \in AllSemas : t \in Range(waiters[s])
    OBVIOUS
  <2> QED
    BY <2>1
<1> QED
  BY <1>1, Zenon DEF ElemOnOneList, Sched, Waits, Queued, Blocked

\* The elements of a list of threads are threads.
LEMMA RangeType ==
  ASSUME NEW S, NEW list \in Seq(S)
  PROVE  Range(list) \subseteq S
BY DEF Range

\* schedule takes the next thread off the ready list: afterwards it alone runs,
\* and nobody is blocked or unblocked.
LEMMA ScheduleLists ==
  ASSUME NEW st \in [AllThreads -> Status], NEW ready \in Seq(Threads),
         Queued(st, ready), \A t \in AllThreads : st[t] # "RUNNING",
         Schedule(st, ready)
  PROVE  Sched' /\ Blocked(status') = Blocked(st)
<1>1. CASE ready = <<>>
  <2>1. /\ current' = idle_thread /\ ready_list' = ready
        /\ status' = [st EXCEPT ![idle_thread] = "RUNNING"]
    BY <1>1 DEF Schedule
  <2>2. idle_thread \in AllThreads /\ idle_thread \notin Threads /\ Threads \subseteq AllThreads
    BY ThreadsAssumption DEF AllThreads
  <2>3. \A t \in Threads : status'[t] = st[t]
    BY <2>1, <2>2
  <2>4. Queued(status, ready_list)'
    BY <2>1, <2>3 DEF Queued
  <2>5. \A t \in AllThreads : status'[t] = "RUNNING" <=> t = current'
    BY <2>1, <2>2
  <2> QED
    BY <2>2, <2>1, <2>3, <2>4, <2>5 DEF Sched, Blocked
<1>2. CASE ready # <<>>
  <2>1. PICK n : n = Back(ready)
    OBVIOUS
  <2>2. /\ Range(PopBack(ready)) = Range(ready) \ {n}
        /\ IsInjective(PopBack(ready)) /\ n \in Range(ready)
    BY <1>2, <2>1, PopBackRange DEF Queued
  <2>3. /\ current' = n /\ ready_list' = PopBack(ready)
        /\ status' = [st EXCEPT ![n] = "RUNNING"]
    BY <1>2, <2>1 DEF Schedule
  <2>4. n \in Threads /\ n \in AllThreads /\ st[n] = "READY" /\ Threads \subseteq AllThreads
    BY <2>2 DEF AllThreads, Queued
  <2>5. \A t \in AllThreads : status'[t] = IF t = n THEN "RUNNING" ELSE st[t]
    BY <2>3, <2>4
  <2>6. Queued(status, ready_list)'
    BY <2>2, <2>3, <2>4, <2>5 DEF Queued
  <2>7. Blocked(status') = Blocked(st)
    BY <2>4, <2>5 DEF Blocked
  <2>8. {t \in AllThreads : status'[t] = "RUNNING"} = {current'}
    BY <2>3, <2>4, <2>5
  <2> QED
    BY <2>6, <2>7, <2>8 DEF Sched
<1> QED
  BY <1>1, <1>2

\* So does thread_yield, which puts the running thread on the list first.
LEMMA YieldLists ==
  ASSUME TypeOK, NEW st \in [AllThreads -> Status], NEW ready \in Seq(Threads), NEW pri,
         Queued(st, ready), {t \in AllThreads : st[t] = "RUNNING"} = {current},
         ThreadYield(st, ready, pri)
  PROVE  Sched' /\ Blocked(status') = Blocked(st)
<1>1. PICK next : next = [st EXCEPT ![current] = "READY"]
  BY Zenon
<1>2. PICK list : list = IF current = idle_thread THEN ready
                         ELSE InsertOrdered(ready, current, pri)
  OBVIOUS
<1>3. current \in AllThreads /\ st[current] = "RUNNING" /\ Threads \subseteq AllThreads
  BY DEF AllThreads
<1>4. /\ next \in [AllThreads -> Status]
      /\ \A t \in AllThreads : next[t] = IF t = current THEN "READY" ELSE st[t]
  BY <1>1, <1>3 DEF Status
<1>5. list \in Seq(Threads) /\ Queued(next, list)
  <2>1. CASE current = idle_thread
    <3>1. \A t \in Threads : next[t] = st[t]
      BY <1>3, <1>4, <2>1, ThreadsAssumption
    <3> QED
      BY <1>2, <2>1, <3>1 DEF Queued
  <2>2. CASE current # idle_thread
    <3>1. current \in Threads /\ list = InsertOrdered(ready, current, pri)
      BY <1>2, <1>3, <2>2 DEF AllThreads
    <3>2. current \notin Range(ready)
      BY <1>3 DEF Queued
    <3>3. list \in Seq(Threads) /\ IsInjective(list) /\ Range(list) = Range(ready) \cup {current}
      BY <3>1, <3>2, InsertOrderedType, InsertOrderedRange DEF Queued
    <3> QED
      BY <1>3, <1>4, <3>1, <3>3 DEF Queued
  <2> QED
    BY <2>1, <2>2
<1>6. \A t \in AllThreads : next[t] # "RUNNING"
  BY <1>4
<1>7. Schedule(next, list)
  BY <1>1, <1>2 DEF ThreadYield
<1>8. Sched' /\ Blocked(status') = Blocked(next)
  BY <1>4, <1>5, <1>6, <1>7, ScheduleLists
<1>9. Blocked(next) = Blocked(st)
  BY <1>3, <1>4 DEF Blocked
<1> QED
  BY <1>8, <1>9

\* thread_unblock puts the thread on the ready list, and yields or not.
LEMMA UnblockLists ==
  ASSUME TypeOK, Sched, NEW t \in Threads, NEW pri,
         status[t] = "BLOCKED" \/ status[t] = "UNBORN", ThreadUnblock(t, pri)
  PROVE  Sched' /\ Blocked(status') = Blocked(status) \ {t}
<1>1. PICK st : st = [status EXCEPT ![t] = "READY"]
  BY Zenon
<1>2. PICK ready : ready = InsertOrdered(ready_list, t, pri)
  OBVIOUS
<1>3. t \in AllThreads /\ Threads \subseteq AllThreads
  BY DEF AllThreads
<1>4. /\ st \in [AllThreads -> Status]
      /\ \A u \in AllThreads : st[u] = IF u = t THEN "READY" ELSE status[u]
  BY <1>1, <1>3 DEF TypeOK, SchedTypes, Status
<1>5. t \notin Range(ready_list) /\ ready_list \in Seq(Threads)
  BY DEF Sched, Queued, TypeOK, SchedTypes
<1>6. ready \in Seq(Threads) /\ IsInjective(ready) /\ Range(ready) = Range(ready_list) \cup {t}
  BY <1>2, <1>5, InsertOrderedType, InsertOrderedRange DEF Sched, Queued
<1>7. Queued(st, ready)
  BY <1>3, <1>4, <1>6 DEF Sched, Queued
<1>8. {u \in AllThreads : st[u] = "RUNNING"} = {current}
  BY <1>3, <1>4 DEF Sched
<1>9. Blocked(st) = Blocked(status) \ {t}
  BY <1>3, <1>4 DEF Blocked
<1>10. CASE Preempts(t, pri)
  <2>1. ThreadYield(st, ready, pri)
    BY <1>1, <1>2, <1>10 DEF ThreadUnblock
  <2> QED
    BY <1>4, <1>6, <1>7, <1>8, <1>9, <2>1, YieldLists
<1>11. CASE ~Preempts(t, pri)
  <2>1. status' = st /\ ready_list' = ready /\ UNCHANGED current
    BY <1>1, <1>2, <1>11 DEF ThreadUnblock
  <2> QED
    BY <1>7, <1>8, <1>9, <2>1 DEF Sched
<1> QED
  BY <1>10, <1>11

\* A thread that gives up the processor for good or until it is woken.
LEMMA LeaveLists ==
  ASSUME TypeOK, Sched, NEW x \in {"BLOCKED", "DYING"},
         Schedule([status EXCEPT ![current] = x], ready_list)
  PROVE  /\ Sched'
         /\ Blocked(status') = IF x = "BLOCKED" THEN Blocked(status) \cup ({current} \cap Threads)
                               ELSE Blocked(status)
<1>1. PICK st : st = [status EXCEPT ![current] = x]
  OBVIOUS
<1>2. /\ current \in AllThreads /\ Threads \subseteq AllThreads
      /\ status[current] = "RUNNING" /\ ready_list \in Seq(Threads)
  BY DEF AllThreads, TypeOK, SchedTypes, Sched
<1>3. /\ st \in [AllThreads -> Status]
      /\ \A u \in AllThreads : st[u] = IF u = current THEN x ELSE status[u]
  BY <1>1, <1>2 DEF TypeOK, SchedTypes, Status
<1>4. Queued(st, ready_list)
  BY <1>2, <1>3 DEF Sched, Queued
<1>5. \A u \in AllThreads : st[u] # "RUNNING"
  BY <1>3 DEF Sched
<1>6. Schedule(st, ready_list)
  BY <1>1
<1>7. Sched' /\ Blocked(status') = Blocked(st)
  BY <1>2, <1>3, <1>4, <1>5, <1>6, ScheduleLists
<1>8. Blocked(st) = IF x = "BLOCKED" THEN Blocked(status) \cup ({current} \cap Threads)
                    ELSE Blocked(status)
  BY <1>2, <1>3 DEF Blocked
<1> QED
  BY <1>7, <1>8

\* The wait lists depend on themselves and on who is blocked only.
LEMMA WaitsSame ==
  ASSUME Waits, UNCHANGED <<waiting_list, waiters>>, Blocked(status') = Blocked(status)
  PROVE  Waits'
BY DEF Waits

\* sema_up takes the back of the list of waiters.
LEMMA WaitsLeave ==
  ASSUME TypeOK, Waits, NEW s \in AllSemas, waiters[s] # <<>>,
         waiters' = [waiters EXCEPT ![s] = PopBack(@)], UNCHANGED waiting_list,
         Blocked(status') = Blocked(status) \ {Back(waiters[s])}
  PROVE  Waits'
<1>1. PICK b : b = Back(waiters[s])
  OBVIOUS
<1>2. waiters[s] \in Seq(Threads) /\ IsInjective(waiters[s])
  BY DEF TypeOK, SemaTypes, Waits
<1>3. /\ Range(PopBack(waiters[s])) = Range(waiters[s]) \ {b}
      /\ IsInjective(PopBack(waiters[s])) /\ b \in Range(waiters[s])
  BY <1>1, <1>2, PopBackRange
<1>4. \A r \in AllSemas : waiters'[r] = IF r = s THEN PopBack(waiters[s]) ELSE waiters[r]
  BY DEF TypeOK, SemaTypes
<1>5. \A r \in AllSemas : IsInjective(waiters'[r])
  BY <1>3, <1>4 DEF Waits
<1>6. \A r \in AllSemas : Range(waiters'[r]) = Range(waiters[r]) \ {b}
  <2> TAKE r \in AllSemas
  <2>1. r # s => b \notin Range(waiters[r])
    BY <1>3 DEF Waits
  <2> QED
    BY <1>3, <1>4, <2>1
<1>7. b \notin Range(waiting_list)
  BY <1>3 DEF Waits
<1>8. \A t : t \in Blocked(status') <=>
              t \in Range(waiting_list) \/ \E r \in AllSemas : t \in Range(waiters'[r])
  <2> TAKE t
  <2>1. CASE t = b
    BY <1>1, <1>6, <1>7, <2>1
  <2>2. CASE t # b
    BY <1>1, <1>6, <2>2 DEF Waits
  <2> QED
    BY <2>1, <2>2
<1>9. /\ \A r \in AllSemas : Range(waiters'[r]) \cap Range(waiting_list') = {}
      /\ \A q, r \in AllSemas : q # r => Range(waiters'[q]) \cap Range(waiters'[r]) = {}
  BY <1>6, Zenon DEF Waits
<1> QED
  BY <1>5, <1>8, <1>9, Zenon DEF Waits

\* sema_down's loop puts the running thread on the list.
LEMMA WaitsEnter ==
  ASSUME TypeOK, Waits, NEW s \in AllSemas, NEW t \in Threads, NEW pri,
         t \notin Blocked(status),
         waiters' = [waiters EXCEPT ![s] = InsertOrdered(@, t, pri)], UNCHANGED waiting_list,
         Blocked(status') = Blocked(status) \cup {t}
  PROVE  Waits'
<1>1. PICK new : new = InsertOrdered(waiters[s], t, pri)
  OBVIOUS
<1>2. waiters[s] \in Seq(Threads) /\ IsInjective(waiters[s])
  BY DEF TypeOK, SemaTypes, Waits
<1>3. t \notin Range(waiting_list) /\ \A r \in AllSemas : t \notin Range(waiters[r])
  BY DEF Waits
<1>4. Range(new) = Range(waiters[s]) \cup {t} /\ IsInjective(new)
  BY <1>1, <1>2, <1>3, InsertOrderedRange
<1>5. \A r \in AllSemas : waiters'[r] = IF r = s THEN new ELSE waiters[r]
  BY <1>1 DEF TypeOK, SemaTypes
<1>6. \A r \in AllSemas : IsInjective(waiters'[r])
  BY <1>4, <1>5 DEF Waits
<1>7. ASSUME NEW r \in AllSemas, NEW u
      PROVE  u \in Range(waiters'[r]) <=> u \in Range(waiters[r]) \/ (r = s /\ u = t)
  <2>1. CASE r = s
    BY <1>4, <1>5, <2>1
  <2>2. CASE r # s
    BY <1>5, <2>2
  <2> QED
    BY <2>1, <2>2
<1>8. \A u : u \in Blocked(status') <=>
              u \in Range(waiting_list) \/ \E r \in AllSemas : u \in Range(waiters'[r])
  BY <1>7 DEF Waits
<1>9. /\ \A r \in AllSemas : Range(waiters'[r]) \cap Range(waiting_list') = {}
      /\ \A q, r \in AllSemas : q # r => Range(waiters'[q]) \cap Range(waiters'[r]) = {}
  BY <1>3, <1>7 DEF Waits
<1> QED
  BY <1>6, <1>8, <1>9 DEF Waits

\* timer_sleep puts it on the sleeping list.
LEMMA SleepEnter ==
  ASSUME TypeOK, Waits, NEW t \in Threads, NEW key, t \notin Blocked(status),
         waiting_list' = InsertOrdered(waiting_list, t, key), UNCHANGED waiters,
         Blocked(status') = Blocked(status) \cup {t}
  PROVE  Waits'
<1>1. waiting_list \in Seq(Threads) /\ IsInjective(waiting_list)
  BY DEF TypeOK, TimeTypes, Waits
<1>2. t \notin Range(waiting_list) /\ \A r \in AllSemas : t \notin Range(waiters[r])
  BY DEF Waits
<1>3. Range(waiting_list') = Range(waiting_list) \cup {t} /\ IsInjective(waiting_list')
  BY <1>1, <1>2, InsertOrderedRange
<1> QED
  BY <1>2, <1>3 DEF Waits

\* The timer takes the front of the sleeping list.
LEMMA SleepLeave ==
  ASSUME TypeOK, Waits, waiting_list # <<>>, waiting_list' = Tail(waiting_list),
         UNCHANGED waiters, Blocked(status') = Blocked(status) \ {waiting_list[1]}
  PROVE  Waits'
<1>1. waiting_list \in Seq(Threads) /\ IsInjective(waiting_list)
  BY DEF TypeOK, TimeTypes, Waits
<1>2. PICK f : f = waiting_list[1]
  OBVIOUS
<1>3. /\ Range(waiting_list') = Range(waiting_list) \ {f} /\ IsInjective(waiting_list')
      /\ f \in Range(waiting_list)
  BY <1>1, <1>2, PopFrontRange
<1>4. \A r \in AllSemas : f \notin Range(waiters[r])
  BY <1>3 DEF Waits
<1>5. \A t : t \in Blocked(status') <=>
              t \in Range(waiting_list') \/ \E r \in AllSemas : t \in Range(waiters[r])
  BY <1>2, <1>3, <1>4 DEF Waits
<1> QED
  BY <1>3, <1>5, Zenon DEF Waits

\* An ordered insertion into a sorted list leaves a sorted list.
LEMMA InsertOrderedSorted ==
  ASSUME NEW list \in Seq(Threads), NEW e \in Threads, NEW key \in [Threads -> Nat],
         Sorted(list, key)
  PROVE  Sorted(InsertOrdered(list, e, key), key)
<1>1. PICK at \in 1..(Len(list) + 1) :
           /\ InsertOrdered(list, e, key) = Insert(list, at, e)
           /\ \A j \in 1..(at - 1) : ~(key[e] <= key[list[j]])
           /\ at <= Len(list) => key[e] <= key[list[at]]
  BY InsertOrderedPlace, Zenon
<1>2. PICK new : new = Insert(list, at, e)
  OBVIOUS
<1>3. /\ Len(list) \in Nat /\ at \in Nat /\ DOMAIN list = 1..Len(list)
      /\ DOMAIN new = 1..(Len(list) + 1)
      /\ \A j \in 1..(Len(list) + 1) :
           new[j] = IF j < at THEN list[j] ELSE IF j = at THEN e ELSE list[j - 1]
  <2>1. /\ Insert(list, at, e) \in Seq(Threads) /\ Len(Insert(list, at, e)) = Len(list) + 1
        /\ \A j \in 1..(Len(list) + 1) :
             Insert(list, at, e)[j] = IF j < at THEN list[j]
                                      ELSE IF j = at THEN e ELSE list[j - 1]
    BY InsertIs
  <2> QED
    BY <1>2, <2>1
<1>4. key[e] \in Nat /\ \A j \in DOMAIN list : key[list[j]] \in Nat
  OBVIOUS
<1>5. \A i, j \in DOMAIN list : i < j => key[list[i]] <= key[list[j]]
  BY DEF Sorted
<1>6. \A j \in DOMAIN list : IF j < at THEN key[list[j]] <= key[e] ELSE key[e] <= key[list[j]]
  <2> TAKE j \in DOMAIN list
  <2>1. CASE j < at
    BY <1>1, <1>3, <1>4, <2>1
  <2>2. CASE j = at
    BY <1>1, <1>3, <2>2
  <2>3. CASE j > at
    <3>1. at \in DOMAIN list /\ key[e] <= key[list[at]] /\ key[list[at]] <= key[list[j]]
      BY <1>1, <1>3, <1>5, <2>3
    <3> QED
      BY <1>3, <1>4, <2>3, <3>1
  <2> QED
    BY <1>3, <2>1, <2>2, <2>3
<1>7. ASSUME NEW i \in DOMAIN new, NEW j \in DOMAIN new, i < j
      PROVE  key[new[i]] <= key[new[j]]
  <2>1. CASE j < at
    BY <1>3, <1>5, <1>7, <2>1
  <2>2. CASE j = at
    BY <1>3, <1>6, <1>7, <2>2
  <2>3. CASE j > at /\ i = at
    <3>1. j - 1 \in DOMAIN list /\ new[j] = list[j - 1] /\ new[i] = e /\ ~(j - 1 < at)
      BY <1>3, <2>3
    <3> QED
      BY <1>6, <3>1
  <2>4. CASE j > at /\ i < at
    <3>1. /\ j - 1 \in DOMAIN list /\ new[j] = list[j - 1] /\ i \in DOMAIN list
          /\ new[i] = list[i] /\ i < j - 1
      BY <1>3, <2>4
    <3> QED
      BY <1>5, <3>1
  <2>5. CASE j > at /\ i > at
    <3>1. /\ j - 1 \in DOMAIN list /\ new[j] = list[j - 1] /\ i - 1 \in DOMAIN list
          /\ new[i] = list[i - 1] /\ i - 1 < j - 1
      BY <1>3, <1>7, <2>5
    <3> QED
      BY <1>5, <3>1
  <2> QED
    BY <1>3, <2>1, <2>2, <2>3, <2>4, <2>5
<1> QED
  BY <1>1, <1>2, <1>7 DEF Sorted

\* So does a pop at either end.
LEMMA PopSorted ==
  ASSUME NEW S, NEW list \in Seq(S), list # <<>>, NEW key, Sorted(list, key)
  PROVE  Sorted(PopBack(list), key) /\ Sorted(Tail(list), key)
<1>1. /\ Len(list) \in Nat \ {0} /\ DOMAIN list = 1..Len(list)
      /\ DOMAIN PopBack(list) = 1..(Len(list) - 1)
      /\ \A j \in 1..(Len(list) - 1) : PopBack(list)[j] = list[j]
  BY PopBackIs
<1>2. Sorted(PopBack(list), key)
  BY <1>1 DEF Sorted
<1>3. /\ DOMAIN Tail(list) = 1..(Len(list) - 1)
      /\ \A j \in 1..(Len(list) - 1) : Tail(list)[j] = list[j + 1]
  OBVIOUS
<1>4. \A i, j \in DOMAIN list : i < j => key[list[i]] <= key[list[j]]
  BY DEF Sorted
<1>5. ASSUME NEW i \in DOMAIN Tail(list), NEW j \in DOMAIN Tail(list), i < j
      PROVE  key[Tail(list)[i]] <= key[Tail(list)[j]]
  <2>1. i + 1 \in DOMAIN list /\ j + 1 \in DOMAIN list /\ i + 1 < j + 1
    BY <1>1, <1>3, <1>5
  <2> QED
    BY <1>3, <1>4, <2>1
<1> QED
  BY <1>2, <1>5 DEF Sorted

\* The keys of other threads do not matter.
LEMMA SortedSame ==
  ASSUME NEW list, NEW key, NEW new, Sorted(list, key),
         \A x \in Range(list) : new[x] = key[x]
  PROVE  Sorted(list, new)
BY DEF Sorted, Range

\* The running thread is on no list.
LEMMA RunningFree ==
  ASSUME TypeOK, ListsOK, NEW t \in Threads, current = t
  PROVE  /\ status[t] = "RUNNING" /\ t \notin Blocked(status)
         /\ t \notin Range(waiting_list) /\ t \notin Range(ready_list)
<1>1. status[t] = "RUNNING"
  BY DEF ListsOK, Sched, AllThreads
<1> QED
  BY <1>1 DEF ListsOK, Sched, Queued, Waits, Blocked

\* sema_up moves the back of the list of waiters to the ready list.
LEMMA UpLists ==
  ASSUME TypeOK, ListsOK, NEW s \in AllSemas, SemaUpBody(s), UNCHANGED time_vars
  PROVE  ListsOK'
<1>1. /\ UNCHANGED <<waiting_list, waking_time>>
      /\ Sched /\ Waits /\ Sorted(waiting_list, waking_time)
  BY Zenon DEF time_vars, ListsOK
<1>2. CASE waiters[s] = <<>>
  BY <1>1, <1>2, Zenon DEF SemaUpBody, sched_vars, ListsOK, Sched, Waits
<1>3. CASE waiters[s] # <<>>
  <2>1. /\ waiters' = [waiters EXCEPT ![s] = PopBack(@)]
        /\ ThreadUnblock(Back(waiters[s]), priority)
    BY <1>3 DEF SemaUpBody
  <2>2. PICK b : b = Back(waiters[s])
    OBVIOUS
  <2>3. waiters[s] \in Seq(Threads) /\ IsInjective(waiters[s])
    BY <1>1 DEF TypeOK, SemaTypes, Waits
  <2>4. b \in Range(waiters[s])
    BY <1>3, <2>2, <2>3, PopBackRange
  <2>5. b \in Blocked(status)
    BY <1>1, <2>4 DEF Waits
  <2>6. b \in Threads /\ status[b] = "BLOCKED"
    BY <2>5 DEF Blocked
  <2>7. Sched' /\ Blocked(status') = Blocked(status) \ {b}
    BY <1>1, <2>1, <2>2, <2>6, UnblockLists
  <2>8. Waits'
    BY <1>1, <1>3, <2>1, <2>2, <2>7, WaitsLeave, Zenon
  <2> QED
    BY <1>1, <2>7, <2>8 DEF ListsOK
<1> QED
  BY <1>2, <1>3

\* A step that changes no list and schedules nobody.
LEMMA SameLists ==
  ASSUME ListsOK, UNCHANGED <<status, current, ready_list, time_vars, waiters>>
  PROVE  ListsOK'
BY DEF ListsOK, Sched, Waits, time_vars

\* A step that only schedules.
LEMMA SwitchLists ==
  ASSUME ListsOK, UNCHANGED <<time_vars, waiters>>, Sched',
         Blocked(status') = Blocked(status)
  PROVE  ListsOK'
<1>1. UNCHANGED <<waiting_list, waiters, waking_time>> /\ Waits
      /\ Sorted(waiting_list, waking_time)
  BY DEF time_vars, ListsOK
<1>2. Waits'
  BY <1>1, WaitsSame
<1> QED
  BY <1>1, <1>2 DEF ListsOK

\* The running thread waits for a semaphore.
LEMMA DownLists ==
  ASSUME TypeInv, ListsOK, NEW t \in Threads, SemaDownLoop(t)
  PROVE  ListsOK'
<1>0. TypeOK /\ Sched /\ Waits /\ Sorted(waiting_list, waking_time)
  BY DEF TypeInv, ListsOK
<1>1. current = t /\ arg[t] \in AllSemas /\ UNCHANGED time_vars
  BY DEF SemaDownLoop, At, TypeInv, ArgFits
<1>2. CASE value[arg[t]] = 0
  <2>1. /\ waiters' = [waiters EXCEPT ![arg[t]] = InsertOrdered(@, t, priority)]
        /\ ThreadBlock
    BY <1>2 DEF SemaDownLoop
  <2>2. t \notin Blocked(status)
    BY <1>0, <1>1, RunningFree
  <2>3. Schedule([status EXCEPT ![current] = "BLOCKED"], ready_list)
    BY <2>1 DEF ThreadBlock
  <2>4. Sched' /\ Blocked(status') = Blocked(status) \cup ({current} \cap Threads)
    BY <1>0, <2>3, LeaveLists
  <2>5. Blocked(status') = Blocked(status) \cup {t}
    BY <1>1, <2>4
  <2>6. UNCHANGED <<waiting_list, waking_time>>
    BY <1>1 DEF time_vars
  <2>7. Waits'
    BY <1>0, <1>1, <2>1, <2>2, <2>5, <2>6, WaitsEnter, Zenon
  <2> QED
    BY <1>0, <2>4, <2>6, <2>7 DEF ListsOK
<1>3. CASE value[arg[t]] # 0
  <2>1. UNCHANGED <<waiters, sched_vars>>
    BY <1>3 DEF SemaDownLoop
  <2> QED
    BY <1>1, <2>1, SameLists DEF sched_vars
<1> QED
  BY <1>2, <1>3

\* The running thread goes to sleep.
LEMMA SleepLists ==
  ASSUME TypeInv, ListsOK, NEW t \in Threads, SleepBlock(t)
  PROVE  ListsOK'
<1>0. TypeOK /\ Sched /\ Waits /\ Sorted(waiting_list, waking_time)
  BY DEF TypeInv, ListsOK
<1>1. /\ current = t /\ UNCHANGED <<waiters, waking_time>>
      /\ waiting_list' = InsertOrdered(waiting_list, t, waking_time)
      /\ Schedule([status EXCEPT ![current] = "BLOCKED"], ready_list)
  BY DEF SleepBlock, At, ThreadBlock, sema_vars
<1>2. t \notin Blocked(status)
  BY <1>0, <1>1, RunningFree
<1>3. Sched' /\ Blocked(status') = Blocked(status) \cup ({current} \cap Threads)
  BY <1>0, <1>1, LeaveLists
<1>4. Blocked(status') = Blocked(status) \cup {t}
  BY <1>1, <1>3
<1>5. Waits'
  BY <1>0, <1>1, <1>2, <1>4, SleepEnter
<1>6. waiting_list \in Seq(Threads) /\ waking_time \in [Threads -> Nat]
  BY <1>0 DEF TypeOK, TimeTypes
<1>7. Sorted(waiting_list', waking_time)
  BY <1>0, <1>1, <1>6, InsertOrderedSorted
<1> QED
  BY <1>1, <1>3, <1>5, <1>7 DEF ListsOK

\* The thread that wake_waiting_list finds is the one it pops.
LEMMA FrontExpires ==
  ASSUME TypeOK, ListsOK, NEW i \in 1..Len(waiting_list), Expired(waiting_list[i]),
         \A j \in 1..(i - 1) : ~Expired(waiting_list[j])
  PROVE  i = 1
<1>1. /\ waiting_list \in Seq(Threads) /\ waking_time \in [Threads -> Nat] /\ ticks \in Nat
      /\ DOMAIN waiting_list = 1..Len(waiting_list) /\ Len(waiting_list) \in Nat
  BY DEF TypeOK, TimeTypes
<1> SUFFICES ASSUME i # 1 PROVE FALSE
  OBVIOUS
<1>2. 1 \in 1..(i - 1) /\ 1 \in DOMAIN waiting_list /\ i \in DOMAIN waiting_list /\ 1 < i
  BY <1>1
<1>3. waking_time[waiting_list[1]] <= waking_time[waiting_list[i]]
  BY <1>2 DEF ListsOK, Sorted
<1>4. waking_time[waiting_list[i]] <= ticks
  BY DEF Expired
<1>5. waiting_list[1] \in Range(waiting_list)
  BY <1>2 DEF Range
<1>6. status[waiting_list[1]] = "BLOCKED"
  BY <1>5 DEF ListsOK, Waits, Blocked
<1>7. waking_time[waiting_list[1]] \in Nat /\ waking_time[waiting_list[i]] \in Nat
  BY <1>1, <1>2
<1>8. Expired(waiting_list[1])
  BY <1>1, <1>3, <1>4, <1>6, <1>7 DEF Expired
<1> QED
  BY <1>2, <1>8

\* What a round of wake_waiting_list does: the front of the sleeping list, whose
\* time has come, is made ready.
LEMMA WakeIs ==
  ASSUME TypeOK, ListsOK, WakeExpired
  PROVE  /\ waiting_list # <<>> /\ Expired(waiting_list[1])
         /\ waiting_list' = Tail(waiting_list)
         /\ ready_list' = InsertOrdered(ready_list, waiting_list[1], priority)
         /\ status' = [status EXCEPT ![waiting_list[1]] = "READY"]
         /\ UNCHANGED <<current, waiters, waking_time, priority>>
<1>1. PICK i \in 1..Len(waiting_list) :
         /\ Expired(waiting_list[i])
         /\ \A j \in 1..(i - 1) : ~Expired(waiting_list[j])
         /\ ready_list' = InsertOrdered(ready_list, waiting_list[i], priority)
         /\ status' = [status EXCEPT ![waiting_list[i]] = "READY"]
  BY Zenon DEF WakeExpired
<1>2. i = 1
  BY <1>1, FrontExpires
<1>3. waiting_list # <<>>
  <2>1. waiting_list \in Seq(Threads)
    BY DEF TypeOK, TimeTypes
  <2> QED
    BY <2>1
<1> QED
  BY <1>1, <1>2, <1>3, Zenon DEF WakeExpired, sema_vars, donation_vars

\* So the timer moves a thread from the sleeping to the ready list.
LEMMA WakeLists ==
  ASSUME TypeOK, ListsOK, WakeExpired
  PROVE  ListsOK'
<1>0. Sched /\ Waits /\ Sorted(waiting_list, waking_time)
  BY DEF ListsOK
<1>1. PICK f : f = waiting_list[1]
  OBVIOUS
<1>2. /\ waiting_list # <<>> /\ waiting_list' = Tail(waiting_list)
      /\ ready_list' = InsertOrdered(ready_list, f, priority)
      /\ status' = [status EXCEPT ![f] = "READY"]
      /\ UNCHANGED <<current, waiters, waking_time>>
  BY <1>1, WakeIs
<1>3. waiting_list \in Seq(Threads) /\ ready_list \in Seq(Threads) /\ status \in [AllThreads -> Status]
  BY DEF TypeOK, TimeTypes, SchedTypes
<1>4. f \in Range(waiting_list)
  BY <1>0, <1>1, <1>2, <1>3, PopFrontRange DEF Waits
<1>5. f \in Threads /\ status[f] = "BLOCKED" /\ Threads \subseteq AllThreads
  BY <1>0, <1>4 DEF Waits, Blocked, AllThreads
<1>6. \A t \in AllThreads : status'[t] = IF t = f THEN "READY" ELSE status[t]
  BY <1>2, <1>3, <1>5
<1>7. f \notin Range(ready_list)
  BY <1>0, <1>5 DEF Sched, Queued
<1>8. IsInjective(ready_list') /\ Range(ready_list') = Range(ready_list) \cup {f}
  BY <1>0, <1>2, <1>3, <1>5, <1>7, InsertOrderedRange DEF Sched, Queued
<1>9. Queued(status, ready_list)'
  BY <1>0, <1>5, <1>6, <1>8 DEF Sched, Queued
<1>10. {t \in AllThreads : status'[t] = "RUNNING"} = {current'}
  BY <1>0, <1>2, <1>5, <1>6 DEF Sched
<1>11. Blocked(status') = Blocked(status) \ {f}
  BY <1>5, <1>6 DEF Blocked
<1>12. Waits'
  BY <1>0, <1>1, <1>2, <1>11, SleepLeave, Zenon
<1>13. Sorted(waiting_list', waking_time)
  BY <1>0, <1>2, <1>3, PopSorted
<1> QED
  BY <1>2, <1>9, <1>10, <1>12, <1>13 DEF ListsOK, Sched

\* The running thread yields, with the priorities it leaves behind.
LEMMA OwnYieldLists ==
  ASSUME TypeOK, ListsOK, NEW pri, ThreadYield(status, ready_list, pri),
         UNCHANGED <<time_vars, waiters>>
  PROVE  ListsOK'
<1>1. /\ status \in [AllThreads -> Status] /\ ready_list \in Seq(Threads)
      /\ Queued(status, ready_list) /\ {t \in AllThreads : status[t] = "RUNNING"} = {current}
  BY DEF TypeOK, SchedTypes, ListsOK, Sched
<1>2. Sched' /\ Blocked(status') = Blocked(status)
  BY <1>1, YieldLists
<1> QED
  BY <1>2, SwitchLists

\* Every step of a thread keeps the lists.
LEMMA ThreadStepLists ==
  ASSUME TypeInv, ListsOK, NEW t \in Threads, ThreadStep(t)
  PROVE  ListsOK'
<1>0. TypeOK /\ ArgFits /\ Sched /\ t \in AllSemas /\ Semas \subseteq AllSemas /\ Locks \subseteq AllSemas
  BY DEF TypeInv, ListsOK, AllSemas
<1>1. ASSUME NEW s \in Semas, SemaUp(t, s) PROVE ListsOK'
  BY <1>0, <1>1, UpLists DEF SemaUp
<1>2. ASSUME NEW s \in Semas, SemaTryDown(t, s) PROVE ListsOK'
  BY <1>2, SameLists DEF SemaTryDown, sched_vars
<1>3. ASSUME NEW s \in Semas \cup Devices \cup Threads, SemaDown(t, s) PROVE ListsOK'
  BY <1>3, SameLists DEF SemaDown, sched_vars, sema_vars
<1>4. ASSUME SemaDownLoop(t) PROVE ListsOK'
  BY <1>4, DownLists
<1>5. ASSUME NEW l \in Locks, LockAcquire(t, l) \/ LockTryAcquire(t, l) \/ LockRelease(t, l)
      PROVE  ListsOK'
  BY <1>5, SameLists, Zenon DEF LockAcquire, LockTryAcquire, LockRelease, sched_vars, sema_vars
<1>6. ASSUME PriorityDonation(t) \/ SetHolder(t) \/ PriorityRollback(t) PROVE ListsOK'
  BY <1>6, SameLists, Zenon DEF PriorityDonation, SetHolder, PriorityRollback, sched_vars, sema_vars
<1>7. ASSUME LockUp(t) PROVE ListsOK'
  <2>1. arg[t] \in AllSemas /\ SemaUpBody(arg[t]) /\ UNCHANGED time_vars
    BY <1>0, <1>7, Zenon DEF LockUp, At, ArgFits
  <2> QED
    BY <1>0, <2>1, UpLists, Zenon
<1>8. ASSUME NEW u \in Threads, NEW p \in Priorities, ThreadCreate(t, u, p) PROVE ListsOK'
  <2>1. /\ status[u] = "UNBORN" /\ ThreadUnblock(u, [priority EXCEPT ![u] = p])
        /\ UNCHANGED <<time_vars, waiters>>
    BY <1>8 DEF ThreadCreate, sema_vars
  <2>2. Sched' /\ Blocked(status') = Blocked(status) \ {u}
    BY <1>0, <2>1, UnblockLists
  <2>3. Blocked(status') = Blocked(status)
    BY <2>1, <2>2 DEF Blocked
  <2> QED
    BY <2>1, <2>2, <2>3, SwitchLists
<1>9. ASSUME Yield(t) PROVE ListsOK'
  BY <1>0, <1>9, OwnYieldLists DEF Yield, sema_vars
<1>10. ASSUME NEW p \in NewPriorities, ThreadSetPriority(t, p) PROVE ListsOK'
  <2>1. UNCHANGED <<time_vars, waiters>>
    BY <1>10, Zenon DEF ThreadSetPriority, sema_vars
  <2>2. (\E pri : ThreadYield(status, ready_list, pri)) \/ UNCHANGED sched_vars
    BY <1>10, Zenon DEF ThreadSetPriority
  <2> QED
    BY <1>0, <2>1, <2>2, OwnYieldLists, SameLists, Zenon DEF sched_vars
<1>11. ASSUME ThreadExit(t) PROVE ListsOK'
  BY <1>0, <1>11, UpLists DEF ThreadExit
<1>12. ASSUME ThreadDie(t) PROVE ListsOK'
  <2>1. /\ Schedule([status EXCEPT ![current] = "DYING"], ready_list)
        /\ UNCHANGED <<time_vars, waiters>>
    BY <1>12 DEF ThreadDie, At, sema_vars
  <2>2. Sched' /\ Blocked(status') = Blocked(status)
    BY <1>0, <2>1, LeaveLists
  <2> QED
    BY <2>1, <2>2, SwitchLists
<1>13. ASSUME NEW n \in SleepTicks, TimerSleep(t, n) PROVE ListsOK'
  <2>1. /\ UNCHANGED <<status, current, ready_list, waiting_list, waiters>> /\ current = t
        /\ waking_time' = [waking_time EXCEPT ![t] = ticks + n]
    BY <1>13 DEF TimerSleep, At, sched_vars, sema_vars
  <2>2. t \notin Range(waiting_list)
    BY <1>0, <2>1, RunningFree
  <2>3. Range(waiting_list) \subseteq Threads
    BY <1>0, RangeType DEF TypeOK, TimeTypes
  <2>4. \A x \in Range(waiting_list) : waking_time'[x] = waking_time[x]
    BY <1>0, <2>1, <2>2, <2>3 DEF TypeOK, TimeTypes
  <2>5. Sorted(waiting_list, waking_time')
    BY <2>4, SortedSame DEF ListsOK
  <2> QED
    BY <2>1, <2>5 DEF ListsOK, Sched, Waits
<1>14. ASSUME SleepBlock(t) PROVE ListsOK'
  BY <1>14, SleepLists
<1> QED
  BY <1>1, <1>2, <1>3, <1>4, <1>5, <1>6, <1>7, <1>8, <1>9, <1>10, <1>11, <1>12,
     <1>13, <1>14 DEF ThreadStep

\* So do interrupts, their handlers and the idle thread.
LEMMA OtherStepLists ==
  ASSUME TypeInv, ListsOK,
         \/ \E s \in Devices : DeviceInterrupt(s)
         \/ Idle \/ TimerInterrupt \/ HandlerStep \/ Halted
  PROVE  ListsOK'
<1>0. TypeOK /\ Sched /\ Devices \subseteq AllSemas
  BY DEF TypeInv, ListsOK, AllSemas
<1>1. ASSUME NEW s \in Devices, DeviceInterrupt(s) PROVE ListsOK'
  <2>1. UNCHANGED time_vars /\ (SemaUpBody(s) \/ UNCHANGED <<sema_vars, sched_vars>>)
    BY <1>1 DEF DeviceInterrupt
  <2> QED
    BY <1>0, <2>1, UpLists, SameLists DEF sched_vars, sema_vars
<1>2. ASSUME Idle PROVE ListsOK'
  <2>1. /\ Schedule([status EXCEPT ![current] = "BLOCKED"], ready_list)
        /\ current = idle_thread /\ UNCHANGED <<time_vars, waiters>>
    BY <1>2 DEF Idle, At, ThreadBlock, sema_vars
  <2>2. Sched' /\ Blocked(status') = Blocked(status) \cup ({current} \cap Threads)
    BY <1>0, <2>1, LeaveLists
  <2>3. Blocked(status') = Blocked(status)
    BY <2>1, <2>2, ThreadsAssumption, Zenon
  <2> QED
    BY <2>1, <2>2, <2>3, SwitchLists
<1>3. ASSUME TimerInterrupt PROVE ListsOK'
  BY <1>3, Zenon DEF TimerInterrupt, ListsOK, Sched, Waits, sema_vars
<1>4. ASSUME WakeExpired PROVE ListsOK'
  BY <1>0, <1>4, WakeLists
<1>5. ASSUME InterruptReturn PROVE ListsOK'
  <2>1. /\ UNCHANGED <<time_vars, waiters>>
        /\ ThreadYield(status, ready_list, priority) \/ UNCHANGED sched_vars
    BY <1>5 DEF InterruptReturn, sema_vars
  <2> QED
    BY <1>0, <2>1, OwnYieldLists, SameLists DEF sched_vars
<1>6. ASSUME Halted PROVE ListsOK'
  BY <1>6, SameLists DEF Halted, vars, sched_vars, sema_vars
<1> QED
  BY <1>1, <1>2, <1>3, <1>4, <1>5, <1>6 DEF HandlerStep

\* Every step keeps the lists.
LEMMA ListStep == ListInv /\ [Next]_vars => ListInv'
<1> SUFFICES ASSUME ListInv, [Next]_vars PROVE ListInv'
  OBVIOUS
<1>1. TypeInv /\ ListsOK /\ TypeInv'
  BY TypeStep DEF ListInv
<1>2. CASE UNCHANGED vars
  BY <1>1, <1>2, SameLists DEF vars, sched_vars, sema_vars, ListInv
<1>3. CASE \E t \in Threads : ThreadStep(t)
  BY <1>1, <1>3, ThreadStepLists DEF ListInv
<1>4. CASE ~UNCHANGED vars /\ ~\E t \in Threads : ThreadStep(t)
  BY <1>1, <1>4, OtherStepLists DEF Next, ListInv
<1> QED
  BY <1>2, <1>3, <1>4

\* At first the initial thread runs and every list is empty.
LEMMA ListInit == Init => ListInv
<1> SUFFICES ASSUME Init PROVE ListInv
  OBVIOUS
<1>1. /\ ready_list = <<>> /\ waiting_list = <<>> /\ current = initial_thread
      /\ \A s \in AllSemas : waiters[s] = <<>>
  BY DEF Init
<1>2. /\ initial_thread \in Threads /\ idle_thread \notin Threads
      /\ \A t \in AllThreads : status[t] = IF t = initial_thread THEN "RUNNING"
                                           ELSE IF t = idle_thread THEN "BLOCKED" ELSE "UNBORN"
  BY ThreadsAssumption DEF Init
<1>3. Range(<<>>) = {} /\ IsInjective(<<>>)
  BY DEF Range, IsInjective
<1>4. \A t \in Threads : status[t] # "READY" /\ status[t] # "BLOCKED"
  BY <1>2 DEF AllThreads
<1>5. Sched
  <2>1. {t \in AllThreads : status[t] = "RUNNING"} = {current}
    BY <1>1, <1>2 DEF AllThreads
  <2>2. Queued(status, ready_list)
    BY <1>1, <1>3, <1>4 DEF Queued
  <2> QED
    BY <2>1, <2>2 DEF Sched
<1>6. Waits
  BY <1>1, <1>3, <1>4 DEF Waits, Blocked
<1>7. Sorted(waiting_list, waking_time)
  BY <1>1 DEF Sorted
<1> QED
  BY <1>5, <1>6, <1>7, TypeInit DEF ListInv, ListsOK

\* thread.h's `elem' is on one list at a time: the ready list holds the READY
\* threads, the sleeping list and the semaphores' lists the BLOCKED ones, each
\* once, for any number of threads, locks and semaphores.
THEOREM ListsStayApart == Spec => []ElemOnOneList
<1>1. Spec => []ListInv
  BY ListInit, ListStep, PTL DEF Spec
<1>2. ListInv => ElemOnOneList
  BY ListParts DEF ListInv, ListsOK
<1> QED
  BY <1>1, <1>2, PTL

\* Only timer_sleep and the timer touch the sleeping list.
LEMMA SleepingListChanges ==
  ASSUME [Next]_vars
  PROVE  \/ UNCHANGED waiting_list
         \/ \E t \in Threads : SleepBlock(t)
         \/ WakeExpired
<1>1. CASE UNCHANGED vars
  BY <1>1, Zenon DEF vars, time_vars
<1>2. ASSUME NEW t \in Threads, ThreadStep(t), ~SleepBlock(t) PROVE UNCHANGED waiting_list
  BY <1>2, Zenon DEF ThreadStep, SemaUp, SemaTryDown, SemaDown, SemaDownLoop, LockAcquire,
     LockTryAcquire, LockRelease, PriorityDonation, SetHolder, PriorityRollback, LockUp,
     ThreadCreate, Yield, ThreadSetPriority, ThreadExit, ThreadDie, TimerSleep, time_vars
<1>3. ASSUME \/ \E s \in Devices : DeviceInterrupt(s)
             \/ Idle \/ TimerInterrupt \/ InterruptReturn \/ Halted
      PROVE  UNCHANGED waiting_list
  BY <1>3 DEF DeviceInterrupt, Idle, TimerInterrupt, InterruptReturn, Halted, vars, time_vars
<1> QED
  BY <1>1, <1>2, <1>3 DEF Next, HandlerStep

\* timer_sleep, for every number of sleepers and ticks: a thread leaves the
\* sleeping list only once its time has come, and is then ready.
THEOREM SleepersSleep == Spec => SleepsLongEnough
<1> DEFINE OnTime == \A t \in Threads :
                       t \in Range(waiting_list) /\ t \notin Range(waiting_list')
                         => waking_time[t] <= ticks /\ status'[t] = "READY"
<1>1. ASSUME ListInv, [Next]_vars PROVE OnTime
  <2>0. TypeOK /\ ListsOK /\ waiting_list \in Seq(Threads) /\ IsInjective(waiting_list)
        /\ status \in [AllThreads -> Status] /\ Threads \subseteq AllThreads
    BY <1>1, Zenon DEF ListInv, TypeInv, TypeOK, TimeTypes, SchedTypes, ListsOK, Waits, AllThreads
  <2>1. CASE UNCHANGED waiting_list
    BY <2>1
  <2>2. ASSUME NEW t \in Threads, SleepBlock(t) PROVE OnTime
    <3>1. waiting_list' = InsertOrdered(waiting_list, t, waking_time)
      BY <2>2 DEF SleepBlock
    <3>2. Range(waiting_list') = Range(waiting_list) \cup {t}
      BY <2>0, <3>1, InsertOrderedRange
    <3> QED
      BY <3>2
  <2>3. CASE WakeExpired
    <3>1. PICK f : f = waiting_list[1]
      OBVIOUS
    <3>2. /\ waiting_list # <<>> /\ Expired(f) /\ waiting_list' = Tail(waiting_list)
          /\ status' = [status EXCEPT ![f] = "READY"]
      BY <2>0, <2>3, <3>1, WakeIs
    <3>3. Range(waiting_list') = Range(waiting_list) \ {f}
      BY <2>0, <3>1, <3>2, PopFrontRange
    <3>4. f \in Threads => status'[f] = "READY" /\ waking_time[f] <= ticks
      BY <2>0, <3>2 DEF Expired
    <3> QED
      BY <3>3, <3>4, Zenon
  <2> QED
    BY <1>1, <2>1, <2>2, <2>3, SleepingListChanges, Zenon
<1>2. ListInv /\ [Next]_vars => [OnTime]_vars
  BY <1>1
<1>3. Spec => []ListInv
  BY ListInit, ListStep, PTL DEF Spec
<1> QED
  BY <1>2, <1>3, PTL DEF Spec, SleepsLongEnough

-----------------------------------------------------------------------------
(* Order.  As long as no lock is wanted by a thread of higher priority     *)
(* than its holder, nothing changes the priority of a thread on a list,    *)
(* and the lists are in order.  (priority_donation raises the priority of  *)
(* a thread wherever it is, and leaves the list as it was.)                *)

\* No lock_acquire finds a holder of lower priority.
NoDonation == \A t \in Threads : pc[t] # "donate"

OrderOK ==
  /\ Sorted(ready_list, priority)
  /\ \A s \in AllSemas : Sorted(waiters[s], priority)
  /\ \A t \in Threads : possessing_locks[t] = {}

\* The steps of HighestFirst, with the priorities pri.
Picked(pri) ==
  current' # current /\ current' # idle_thread =>
    \A i \in 1..Len(ready_list') : pri[ready_list'[i]] <= pri[current']

\* The steps of WakesHighest.
Woke ==
  \A s \in AllSemas, t \in Threads :
    t \in Range(waiters[s]) /\ t \notin Range(waiters'[s]) =>
      \A i \in 1..Len(waiters[s]) : priority[waiters[s][i]] <= priority[t]

\* What the order of the lists is about, typed.
LEMMA OrderTypes ==
  ASSUME TypeOK
  PROVE  /\ current \in AllThreads /\ ready_list \in Seq(Threads)
         /\ waiters \in [AllSemas -> Seq(Threads)] /\ priority \in [Threads -> Nat]
<1>1. SchedTypes /\ SemaTypes /\ DonationTypes
  BY DEF TypeOK
<1>2. current \in AllThreads /\ ready_list \in Seq(Threads)
  BY <1>1 DEF SchedTypes
<1>3. waiters \in [AllSemas -> Seq(Threads)]
  BY <1>1 DEF SemaTypes
<1>4. priority \in [Threads -> Priorities]
  BY <1>1 DEF DonationTypes
<1>5. Priorities \subseteq Nat
  BY BoundsAssumption DEF Priorities
<1>6. priority \in [Threads -> Nat]
  BY <1>4, <1>5, Zenon
<1> QED
  BY <1>2, <1>3, <1>6

\* The back of a sorted list is the greatest.
LEMMA BackIsGreatest ==
  ASSUME NEW list \in Seq(Threads), list # <<>>, NEW key \in [Threads -> Nat], Sorted(list, key)
  PROVE  \A i \in 1..Len(list) : key[list[i]] <= key[Back(list)]
<1>1. Len(list) \in Nat \ {0} /\ DOMAIN list = 1..Len(list)
  OBVIOUS
<1>2. SUFFICES ASSUME NEW i \in 1..Len(list) PROVE key[list[i]] <= key[Back(list)]
  OBVIOUS
<1>3. CASE i = Len(list)
  <2>1. list[i] \in Threads
    BY <1>1
  <2>2. key[list[i]] \in Nat
    BY <2>1
  <2> QED
    BY <1>3, <2>2 DEF Back
<1>4. CASE i # Len(list)
  <2>0. PICK n \in Nat \ {0} : n = Len(list)
    BY <1>1, Zenon
  <2>1. i \in 1..n /\ i # n /\ DOMAIN list = 1..n
    BY <1>1, <1>4, <2>0, Zenon
  <2>2. i < n /\ n \in 1..n
    BY <2>1
  <2>3. i < Len(list) /\ i \in DOMAIN list /\ Len(list) \in DOMAIN list
    BY <2>0, <2>1, <2>2, Zenon
  <2> QED
    BY <2>3 DEF Back, Sorted
<1> QED
  BY <1>3, <1>4

\* schedule takes the greatest of a sorted ready list.
LEMMA SchedulePicks ==
  ASSUME NEW st, NEW ready \in Seq(Threads), NEW pri \in [Threads -> Nat], Sorted(ready, pri),
         Schedule(st, ready)
  PROVE  Sorted(ready_list', pri) /\ Picked(pri)
<1>1. CASE ready = <<>>
  <2>1. current' = idle_thread /\ ready_list' = ready
    BY <1>1 DEF Schedule
  <2> QED
    BY <2>1 DEF Picked
<1>2. CASE ready # <<>>
  <2>1. current' = Back(ready) /\ ready_list' = PopBack(ready)
    BY <1>2 DEF Schedule
  <2>2. Sorted(PopBack(ready), pri)
    BY <1>2, PopSorted
  <2>3. /\ Len(ready) \in Nat \ {0} /\ DOMAIN PopBack(ready) = 1..(Len(ready) - 1)
        /\ \A j \in 1..(Len(ready) - 1) : PopBack(ready)[j] = ready[j]
    BY <1>2, PopBackIs
  <2>4. PopBack(ready) \in Seq(Threads)
    BY <1>2, PopBackType
  <2>5. \A i \in 1..Len(PopBack(ready)) : i \in 1..(Len(ready) - 1) /\ i \in 1..Len(ready)
    BY <2>3, <2>4
  <2>6. \A i \in 1..Len(ready) : pri[ready[i]] <= pri[Back(ready)]
    BY <1>2, BackIsGreatest
  <2>7. \A i \in 1..Len(PopBack(ready)) : pri[PopBack(ready)[i]] <= pri[Back(ready)]
    BY <2>3, <2>5, <2>6
  <2> QED
    BY <2>1, <2>2, <2>7 DEF Picked
<1> QED
  BY <1>1, <1>2

\* So does thread_yield.
LEMMA YieldPicks ==
  ASSUME current \in AllThreads, NEW st, NEW ready \in Seq(Threads),
         NEW pri \in [Threads -> Nat], Sorted(ready, pri), ThreadYield(st, ready, pri)
  PROVE  Sorted(ready_list', pri) /\ Picked(pri)
<1>1. CASE current = idle_thread
  <2>1. Schedule([st EXCEPT ![current] = "READY"], ready)
    BY <1>1 DEF ThreadYield
  <2> QED
    BY <2>1, SchedulePicks
<1>2. CASE current # idle_thread
  <2>1. PICK list : list = InsertOrdered(ready, current, pri)
    OBVIOUS
  <2>2. current \in Threads
    BY <1>2 DEF AllThreads
  <2>3. list \in Seq(Threads) /\ Sorted(list, pri)
    BY <2>1, <2>2, InsertOrderedType, InsertOrderedSorted
  <2>4. Schedule([st EXCEPT ![current] = "READY"], list)
    BY <1>2, <2>1 DEF ThreadYield
  <2> QED
    BY <2>3, <2>4, SchedulePicks
<1> QED
  BY <1>1, <1>2

\* And thread_unblock, which inserts the thread in order.
LEMMA UnblockPicks ==
  ASSUME current \in AllThreads, ready_list \in Seq(Threads), NEW t \in Threads,
         NEW pri \in [Threads -> Nat], Sorted(ready_list, pri), ThreadUnblock(t, pri)
  PROVE  Sorted(ready_list', pri) /\ Picked(pri)
<1>1. PICK ready : ready = InsertOrdered(ready_list, t, pri)
  OBVIOUS
<1>2. ready \in Seq(Threads) /\ Sorted(ready, pri)
  BY <1>1, InsertOrderedType, InsertOrderedSorted
<1>3. CASE Preempts(t, pri)
  <2>1. ThreadYield([status EXCEPT ![t] = "READY"], ready, pri)
    BY <1>1, <1>3 DEF ThreadUnblock
  <2> QED
    BY <1>2, <2>1, YieldPicks
<1>4. CASE ~Preempts(t, pri)
  <2>1. ready_list' = ready /\ UNCHANGED current
    BY <1>1, <1>4 DEF ThreadUnblock
  <2> QED
    BY <1>2, <2>1 DEF Picked
<1> QED
  BY <1>3, <1>4

\* sema_up wakes the greatest of the waiters.
LEMMA UpPicks ==
  ASSUME TypeOK, ListsOK, OrderOK, NEW s \in AllSemas, SemaUpBody(s), UNCHANGED priority,
         \A t \in Threads : possessing_locks'[t] = {}
  PROVE  OrderOK' /\ Picked(priority') /\ Woke
<1>0. /\ current \in AllThreads /\ ready_list \in Seq(Threads)
      /\ waiters \in [AllSemas -> Seq(Threads)] /\ priority \in [Threads -> Nat]
  BY OrderTypes
<1>1. CASE waiters[s] = <<>>
  <2>1. UNCHANGED <<waiters, ready_list, current>>
    BY <1>1 DEF SemaUpBody, sched_vars
  <2> QED
    BY <2>1 DEF OrderOK, Picked, Woke
<1>2. CASE waiters[s] # <<>>
  <2>1. PICK b : b = Back(waiters[s])
    BY Zenon
  <2>2. waiters[s] \in Seq(Threads) /\ IsInjective(waiters[s]) /\ Sorted(waiters[s], priority)
    BY <1>0 DEF ListsOK, Waits, OrderOK
  <2>3. /\ waiters' = [waiters EXCEPT ![s] = PopBack(@)] /\ ThreadUnblock(b, priority)
    BY <1>2, <2>1 DEF SemaUpBody
  <2>4. \A r \in AllSemas : waiters'[r] = IF r = s THEN PopBack(waiters[s]) ELSE waiters[r]
    BY <1>0, <2>3
  <2>5. b \in Threads /\ Range(PopBack(waiters[s])) = Range(waiters[s]) \ {b}
    BY <1>2, <2>1, <2>2, PopBackType, PopBackRange, Zenon
  <2>6. Sorted(ready_list', priority) /\ Picked(priority)
    BY <1>0, <2>3, <2>5, UnblockPicks DEF OrderOK
  <2>7. Sorted(PopBack(waiters[s]), priority)
    BY <1>2, <2>2, PopSorted
  <2>8. \A r \in AllSemas : Sorted(waiters'[r], priority)
    BY <2>4, <2>7 DEF OrderOK
  <2>9. \A i \in 1..Len(waiters[s]) : priority[waiters[s][i]] <= priority[b]
    BY <1>0, <1>2, <2>1, <2>2, BackIsGreatest
  <2>10. Woke
    <3> SUFFICES ASSUME NEW r \in AllSemas, NEW t \in Threads,
                        t \in Range(waiters[r]), t \notin Range(waiters'[r])
                 PROVE  r = s /\ t = b
      BY <2>9 DEF Woke
    <3> QED
      BY <2>4, <2>5
  <2> QED
    BY <2>6, <2>8, <2>10 DEF OrderOK, Picked
<1> QED
  BY <1>1, <1>2

\* A step that only yields, blocks or readies.
LEMMA SwitchPicks ==
  ASSUME OrderOK, NEW pri, priority' = pri, UNCHANGED <<waiters, possessing_locks>>,
         Sorted(ready_list', pri), Picked(pri),
         \A s \in AllSemas : Sorted(waiters[s], pri)
  PROVE  OrderOK' /\ Picked(priority') /\ Woke
BY DEF OrderOK, Woke

\* A step that touches no list, no priority and no donation.
LEMMA SamePicks ==
  ASSUME OrderOK, UNCHANGED <<waiters, possessing_locks, priority, ready_list, current>>
  PROVE  OrderOK' /\ Picked(priority') /\ Woke
BY DEF OrderOK, Woke, Picked

\* A thread on no list may change its priority.
LEMMA OrderSame ==
  ASSUME TypeOK, ListsOK, OrderOK, NEW t \in Threads,
         t \notin Range(ready_list), t \notin Blocked(status),
         NEW p \in Priorities, NEW pri, pri = [priority EXCEPT ![t] = p] \/ pri = priority
  PROVE  /\ pri \in [Threads -> Nat] /\ Sorted(ready_list, pri)
         /\ \A s \in AllSemas : Sorted(waiters[s], pri)
<1>0. p \in Nat
  BY BoundsAssumption DEF Priorities
<1>1. /\ priority \in [Threads -> Nat] /\ p \in Nat /\ ready_list \in Seq(Threads)
      /\ waiters \in [AllSemas -> Seq(Threads)]
  BY <1>0, OrderTypes
<1>2. pri \in [Threads -> Nat] /\ \A u \in Threads : u # t => pri[u] = priority[u]
  BY <1>1
<1>3. Range(ready_list) \subseteq Threads /\ \A s \in AllSemas : Range(waiters[s]) \subseteq Threads
  BY <1>1, RangeType
<1>4. \A u \in Range(ready_list) : pri[u] = priority[u]
  BY <1>2, <1>3
<1>5. \A s \in AllSemas : \A u \in Range(waiters[s]) : pri[u] = priority[u]
  <2>1. \A s \in AllSemas : t \notin Range(waiters[s])
    BY DEF ListsOK, Waits
  <2> QED
    BY <1>2, <1>3, <2>1
<1>6. Sorted(ready_list, pri)
  BY <1>4, SortedSame, Zenon DEF OrderOK
<1>7. \A s \in AllSemas : Sorted(waiters[s], pri)
  BY <1>5, SortedSame DEF OrderOK
<1> QED
  BY <1>2, <1>6, <1>7

\* Every step of a thread that donates nothing.
LEMMA ThreadStepPicks ==
  ASSUME TypeInv, ListsOK, OrderOK, NoDonation, NEW t \in Threads, ThreadStep(t)
  PROVE  OrderOK' /\ Picked(priority') /\ Woke
<1> DEFINE Good == OrderOK' /\ Picked(priority') /\ Woke
<1>0. /\ TypeOK /\ ArgFits /\ t \in AllSemas /\ Semas \subseteq AllSemas /\ Locks \subseteq AllSemas
      /\ current \in AllThreads /\ ready_list \in Seq(Threads)
      /\ waiters \in [AllSemas -> Seq(Threads)] /\ priority \in [Threads -> Nat]
      /\ Sorted(ready_list, priority) /\ \A s \in AllSemas : Sorted(waiters[s], priority)
      /\ \A u \in Threads : possessing_locks[u] = {}
  <2>1. TypeOK /\ ArgFits
    BY DEF TypeInv
  <2>2. t \in AllSemas /\ Semas \subseteq AllSemas /\ Locks \subseteq AllSemas
    BY DEF AllSemas
  <2>3. /\ Sorted(ready_list, priority) /\ \A s \in AllSemas : Sorted(waiters[s], priority)
        /\ \A u \in Threads : possessing_locks[u] = {}
    BY DEF OrderOK
  <2> QED
    BY <2>1, <2>2, <2>3, OrderTypes, Zenon
<1>1. ASSUME NEW s \in AllSemas, SemaUpBody(s), UNCHANGED <<priority, possessing_locks>>
      PROVE  Good
  BY <1>0, <1>1, UpPicks, Zenon
<1>2. ASSUME NEW s \in Semas, SemaUp(t, s) PROVE Good
  BY <1>0, <1>1, <1>2 DEF SemaUp, donation_vars
<1>3. ASSUME SemaDownLoop(t) PROVE Good
  <2>1. PICK s \in AllSemas : s = arg[t]
    BY <1>0, <1>3 DEF SemaDownLoop, At, ArgFits
  <2>2. UNCHANGED <<priority, possessing_locks>>
    BY <1>3 DEF SemaDownLoop, donation_vars
  <2>3. CASE value[s] = 0
    <3>1. /\ waiters' = [waiters EXCEPT ![s] = InsertOrdered(@, t, priority)]
          /\ Schedule([status EXCEPT ![current] = "BLOCKED"], ready_list)
      BY <1>3, <2>1, <2>3 DEF SemaDownLoop, ThreadBlock
    <3>2. Sorted(ready_list', priority) /\ Picked(priority)
      BY <1>0, <3>1, SchedulePicks
    <3>3. PICK new : new = InsertOrdered(waiters[s], t, priority)
      BY Zenon
    <3>4. \A r \in AllSemas : waiters'[r] = IF r = s THEN new ELSE waiters[r]
      BY <1>0, <3>1, <3>3, Zenon
    <3>5. waiters[s] \in Seq(Threads) /\ Sorted(waiters[s], priority)
      BY <1>0
    <3>6. Sorted(new, priority) /\ Range(new) = Range(waiters[s]) \cup {t}
      BY <1>0, <3>3, <3>5, InsertOrderedSorted, InsertOrderedRange
    <3>7. \A r \in AllSemas : Sorted(waiters'[r], priority) /\ Range(waiters[r]) \subseteq Range(waiters'[r])
      BY <1>0, <3>4, <3>6, Zenon
    <3>8. OrderOK'
      BY <1>0, <2>2, <3>2, <3>7 DEF OrderOK
    <3>9. Woke
      BY <3>7 DEF Woke
    <3> QED
      BY <2>2, <3>2, <3>8, <3>9
  <2>4. CASE value[s] # 0
    <3>1. UNCHANGED <<waiters, ready_list, current>>
      BY <1>3, <2>1, <2>4 DEF SemaDownLoop, sched_vars
    <3> QED
      BY <2>2, <3>1, SamePicks
  <2> QED
    BY <2>3, <2>4
<1>4. ASSUME \/ \E s \in Semas : SemaTryDown(t, s)
             \/ \E s \in Semas \cup Devices \cup Threads : SemaDown(t, s)
             \/ \E l \in Locks : LockAcquire(t, l) \/ LockTryAcquire(t, l) \/ LockRelease(t, l)
             \/ SetHolder(t) \/ \E n \in SleepTicks : TimerSleep(t, n)
      PROVE  Good
  <2>1. UNCHANGED <<waiters, possessing_locks, priority, ready_list, current>>
    BY <1>4, Zenon DEF SemaTryDown, SemaDown, LockAcquire, LockTryAcquire, LockRelease, SetHolder,
       TimerSleep, donation_vars, sched_vars, sema_vars
  <2> QED
    BY <2>1, SamePicks, Zenon
<1>5. ~PriorityDonation(t)
  BY Zenon DEF PriorityDonation, At, NoDonation
<1>6. ASSUME PriorityRollback(t) PROVE Good
  <2>1. UNCHANGED <<waiters, possessing_locks, priority, ready_list, current>>
    BY <1>0, <1>6 DEF PriorityRollback, donation_vars, sched_vars, sema_vars
  <2> QED
    BY <2>1, SamePicks
<1>7. ASSUME LockUp(t) PROVE Good
  <2>1. arg[t] \in AllSemas /\ SemaUpBody(arg[t]) /\ UNCHANGED <<priority, possessing_locks>>
    BY <1>0, <1>7, Zenon DEF LockUp, At, ArgFits, donation_vars
  <2> QED
    BY <1>1, <2>1, Zenon
<1>8. ASSUME NEW u \in Threads, NEW p \in Priorities, ThreadCreate(t, u, p) PROVE Good
  <2>1. PICK pri : pri = [priority EXCEPT ![u] = p]
    BY Zenon
  <2>2. /\ status[u] = "UNBORN" /\ priority' = pri /\ ThreadUnblock(u, pri)
        /\ UNCHANGED <<waiters, possessing_locks>>
    BY <1>8, <2>1 DEF ThreadCreate, sema_vars
  <2>3. u \notin Range(ready_list) /\ u \notin Blocked(status)
    BY <2>2 DEF ListsOK, Sched, Queued, Blocked
  <2>4. /\ pri \in [Threads -> Nat] /\ Sorted(ready_list, pri)
        /\ \A s \in AllSemas : Sorted(waiters[s], pri)
    BY <1>0, <2>1, <2>3, OrderSame, Zenon
  <2>5. Sorted(ready_list', pri) /\ Picked(pri)
    BY <1>0, <2>2, <2>4, UnblockPicks, Zenon
  <2> QED
    BY <2>2, <2>4, <2>5, SwitchPicks
<1>9. ASSUME Yield(t) PROVE Good
  <2>1. /\ ThreadYield(status, ready_list, priority)
        /\ UNCHANGED <<waiters, possessing_locks, priority>>
    BY <1>9 DEF Yield, donation_vars, sema_vars
  <2>2. Sorted(ready_list', priority) /\ Picked(priority)
    BY <1>0, <2>1, YieldPicks
  <2> QED
    BY <1>0, <2>1, <2>2, SwitchPicks
<1>10. ASSUME NEW p \in NewPriorities, ThreadSetPriority(t, p) PROVE Good
  <2>1. PICK pri : pri = IF possessing_locks[t] # {} THEN priority
                         ELSE [priority EXCEPT ![t] = p]
    BY Zenon
  <2>2. /\ current = t /\ priority' = pri /\ UNCHANGED <<waiters, possessing_locks>>
        /\ ThreadYield(status, ready_list, pri) \/ UNCHANGED <<ready_list, current>>
    BY <1>10, <2>1 DEF ThreadSetPriority, At, sema_vars, sched_vars
  <2>3. t \notin Range(ready_list) /\ t \notin Blocked(status)
    BY <1>0, <2>2, RunningFree
  <2>4. p \in Priorities /\ (pri = [priority EXCEPT ![t] = p] \/ pri = priority)
    BY <2>1, BoundsAssumption DEF Priorities
  <2>5. /\ pri \in [Threads -> Nat] /\ Sorted(ready_list, pri)
        /\ \A s \in AllSemas : Sorted(waiters[s], pri)
    BY <1>0, <2>3, <2>4, OrderSame, Zenon
  <2>6. Sorted(ready_list', pri) /\ Picked(pri)
    BY <1>0, <2>2, <2>5, YieldPicks, Zenon DEF Picked
  <2> QED
    BY <2>2, <2>5, <2>6, SwitchPicks
<1>11. ASSUME ThreadExit(t) PROVE Good
  <2>1. /\ SemaUpBody(t) /\ UNCHANGED priority
        /\ possessing_locks' = [possessing_locks EXCEPT ![t] = {}]
    BY <1>11 DEF ThreadExit
  <2>2. \A u \in Threads : possessing_locks'[u] = {}
    BY <1>0, <2>1 DEF TypeOK, DonationTypes
  <2> QED
    BY <1>0, <2>1, <2>2, UpPicks, Zenon
<1>12. ASSUME ThreadDie(t) \/ SleepBlock(t) PROVE Good
  <2>1. /\ UNCHANGED <<waiters, possessing_locks, priority>>
        /\ \E st : Schedule(st, ready_list)
    BY <1>12, Zenon DEF ThreadDie, SleepBlock, ThreadBlock, donation_vars, sema_vars
  <2>2. Sorted(ready_list', priority) /\ Picked(priority)
    BY <1>0, <2>1, SchedulePicks, Zenon
  <2> QED
    BY <1>0, <2>1, <2>2, SwitchPicks
<1> QED
  BY <1>2, <1>3, <1>4, <1>5, <1>6, <1>7, <1>8, <1>9, <1>10, <1>11, <1>12, Zenon DEF ThreadStep

\* Every other step.
LEMMA OtherStepPicks ==
  ASSUME TypeInv, ListsOK, OrderOK,
         \/ \E s \in Devices : DeviceInterrupt(s)
         \/ Idle \/ TimerInterrupt \/ HandlerStep \/ UNCHANGED vars
  PROVE  OrderOK' /\ Picked(priority') /\ Woke
<1> DEFINE Good == OrderOK' /\ Picked(priority') /\ Woke
<1>0. /\ TypeOK /\ Devices \subseteq AllSemas
      /\ current \in AllThreads /\ ready_list \in Seq(Threads) /\ priority \in [Threads -> Nat]
      /\ Sorted(ready_list, priority) /\ \A s \in AllSemas : Sorted(waiters[s], priority)
      /\ \A u \in Threads : possessing_locks[u] = {}
  <2>1. TypeOK
    BY DEF TypeInv
  <2>2. Devices \subseteq AllSemas
    BY DEF AllSemas
  <2>3. /\ Sorted(ready_list, priority) /\ \A s \in AllSemas : Sorted(waiters[s], priority)
        /\ \A u \in Threads : possessing_locks[u] = {}
    BY DEF OrderOK
  <2> QED
    BY <2>1, <2>2, <2>3, OrderTypes
<1>1. ASSUME NEW s \in Devices, DeviceInterrupt(s) PROVE Good
  <2>1. /\ UNCHANGED <<priority, possessing_locks>>
        /\ SemaUpBody(s) \/ UNCHANGED <<waiters, ready_list, current>>
    BY <1>1 DEF DeviceInterrupt, donation_vars, sema_vars, sched_vars
  <2> QED
    BY <1>0, <2>1, UpPicks, SamePicks
<1>2. ASSUME Idle PROVE Good
  <2>1. /\ UNCHANGED <<waiters, possessing_locks, priority>>
        /\ Schedule([status EXCEPT ![current] = "BLOCKED"], ready_list)
    BY <1>2, Zenon DEF Idle, ThreadBlock, donation_vars, sema_vars
  <2>2. Sorted(ready_list', priority) /\ Picked(priority)
    BY <1>0, <2>1, SchedulePicks
  <2> QED
    BY <1>0, <2>1, <2>2, SwitchPicks, Zenon
<1>3. CASE TimerInterrupt \/ UNCHANGED vars
  <2>1. UNCHANGED <<waiters, possessing_locks, priority, ready_list, current>>
    BY <1>3, Zenon DEF TimerInterrupt, vars, donation_vars, sema_vars, sched_vars
  <2> QED
    BY <2>1, SamePicks
<1>4. ASSUME WakeExpired PROVE Good
  <2>1. PICK f : f = waiting_list[1]
    BY Zenon
  <2>2. /\ waiting_list # <<>> /\ UNCHANGED <<current, waiters, priority>>
        /\ ready_list' = InsertOrdered(ready_list, f, priority)
    BY <1>0, <1>4, <2>1, WakeIs, Zenon
  <2>3. UNCHANGED possessing_locks
    BY <1>4 DEF WakeExpired, donation_vars
  <2>4. waiting_list \in Seq(Threads)
    BY <1>0 DEF TypeOK, TimeTypes
  <2>5. f \in Threads
    BY <2>1, <2>2, <2>4
  <2>6. Sorted(ready_list', priority)
    BY <1>0, <2>2, <2>5, InsertOrderedSorted, Zenon
  <2>7. Picked(priority)
    BY <2>2, Zenon DEF Picked
  <2> QED
    BY <1>0, <2>2, <2>3, <2>6, <2>7, SwitchPicks, Zenon
<1>5. ASSUME InterruptReturn PROVE Good
  <2>1. /\ UNCHANGED <<waiters, possessing_locks, priority>>
        /\ ThreadYield(status, ready_list, priority) \/ UNCHANGED <<ready_list, current>>
    BY <1>5, Zenon DEF InterruptReturn, donation_vars, sema_vars, sched_vars
  <2>2. Sorted(ready_list', priority) /\ Picked(priority)
    BY <1>0, <2>1, YieldPicks, Zenon DEF Picked
  <2> QED
    BY <1>0, <2>1, <2>2, SwitchPicks, Zenon
<1> QED
  BY <1>1, <1>2, <1>3, <1>4, <1>5 DEF HandlerStep

\* While nothing is donated, every step keeps the order and picks by it.
LEMMA OrderStep ==
  ListInv /\ OrderOK /\ NoDonation /\ [Next]_vars
    => (ListInv /\ OrderOK)' /\ Picked(priority') /\ Woke
<1> SUFFICES ASSUME ListInv, OrderOK, NoDonation, [Next]_vars
             PROVE  ListInv' /\ OrderOK' /\ Picked(priority') /\ Woke
  OBVIOUS
<1>1. TypeInv /\ ListsOK /\ ListInv'
  BY ListStep DEF ListInv
<1>2. CASE \E t \in Threads : ThreadStep(t)
  BY <1>1, <1>2, ThreadStepPicks
<1>3. CASE ~\E t \in Threads : ThreadStep(t)
  BY <1>1, <1>3, OtherStepPicks DEF Next, Halted
<1> QED
  BY <1>1, <1>2, <1>3

\* At first the lists are empty.
LEMMA OrderInit == Init => ListInv /\ OrderOK
<1> SUFFICES ASSUME Init PROVE OrderOK
  BY ListInit
<1>1. /\ ready_list = <<>> /\ \A s \in AllSemas : waiters[s] = <<>>
      /\ \A t \in Threads : possessing_locks[t] = {}
  BY DEF Init
<1> QED
  BY <1>1 DEF OrderOK, Sorted

\* The scheduler never gives the processor to a thread while one of higher
\* priority is ready, as long as nothing is donated: thread_unblock, thread_yield,
\* thread_set_priority and wake_waiting_list keep the ready list in order, for
\* any number of threads and priorities.
THEOREM SchedulesHighest == Spec /\ []NoDonation => HighestFirst
<1>1. ListInv /\ OrderOK /\ NoDonation /\ [Next]_vars => (ListInv /\ OrderOK)'
  BY OrderStep
<1>2. ListInv /\ OrderOK /\ NoDonation /\ [Next]_vars
        => [current' # current /\ current' # idle_thread =>
              \A i \in 1..Len(ready_list') :
                priority'[ready_list'[i]] <= priority'[current']]_vars
  BY OrderStep DEF Picked
<1> QED
  BY <1>1, <1>2, OrderInit, PTL DEF Spec, HighestFirst

\* Under the same condition sema_up wakes a waiter of the highest priority.
THEOREM SemaWakesHighest == Spec /\ []NoDonation => WakesHighest
<1>1. ListInv /\ OrderOK /\ NoDonation /\ [Next]_vars => (ListInv /\ OrderOK)'
  BY OrderStep
<1>2. ListInv /\ OrderOK /\ NoDonation /\ [Next]_vars
        => [\A s \in AllSemas, t \in Threads :
              t \in Range(waiters[s]) /\ t \notin Range(waiters'[s]) =>
                \A i \in 1..Len(waiters[s]) : priority[waiters[s][i]] <= priority[t]]_vars
  BY OrderStep, Zenon DEF Woke
<1> QED
  BY <1>1, <1>2, OrderInit, PTL DEF Spec, WakesHighest

\* Without locks nothing is ever donated, so both hold outright.
LEMMA NoLocksNoDonation ==
  ASSUME Locks = {}
  PROVE  TypeInv => NoDonation
BY DEF TypeInv, ArgFits, NoDonation

-----------------------------------------------------------------------------
(* Wakeups.  A thread on a semaphore's list is inside sema_down's loop, so *)
(* one that sema_up took off the list is counted from then on.             *)

WaitersWoken == \A s \in AllSemas : \A t \in Range(waiters[s]) : pc[t] = "woken" /\ arg[t] = s

\* The threads on their way to down s again.
Woken(s) == {t \in Threads : pc[t] = "woken" /\ arg[t] = s /\ status[t] # "BLOCKED"}

Wakeups == WaitersWoken /\ \A s \in AllSemas : waiters[s] # <<>> => value[s] <= Cardinality(Woken(s))

\* The step brings nobody into sema_down's loop or out of it.
PlacesKept ==
  \A t \in Threads : /\ pc'[t] = "woken" <=> pc[t] = "woken"
                     /\ pc[t] = "woken" => arg'[t] = arg[t]

INSTANCE FiniteSetTheorems

\* A semaphore's value that stays is still at most a count that grows.
LEMMA StaysBelow ==
  ASSUME NEW v, NEW a \in Nat, NEW b \in Nat, NEW c \in Nat, v = a, a <= b, b <= c
  PROVE  v <= c
OBVIOUS

\* sema_up adds one to the value, and one to the count.
LEMMA GoesAbove ==
  ASSUME NEW v, NEW a \in Nat, NEW b \in Nat, NEW w, NEW c \in Nat,
         v = a + 1, a <= b, w = b + 1, w <= c
  PROVE  v <= c
OBVIOUS

\* sema_down takes one from the value, and at most one from the count.
LEMMA GoesBelow ==
  ASSUME NEW v, NEW a \in Nat, NEW b \in Nat, NEW w \in Nat, NEW c \in Nat,
         v = a - 1, a <= b, w = b - 1 \/ w = b, w <= c
  PROVE  v <= c
OBVIOUS

\* There are finitely many of them.
LEMMA WokenCounted ==
  ASSUME NEW W, W \subseteq Threads
  PROVE  IsFiniteSet(W) /\ Cardinality(W) \in Nat
BY ThreadsAssumption, FS_Subset, FS_CardinalityType, Zenon

\* A step that wakes nobody from a semaphore, and puts nobody who is in
\* sema_down's loop to sleep; it may down a semaphore.
LEMMA WakesKept ==
  ASSUME TypeInv, ListsOK, Wakeups, TypeInv', ListsOK', UNCHANGED waiters, PlacesKept,
         \A s \in AllSemas : value'[s] <= value[s],
         \A t \in Threads : t \in Range(waiting_list') => t \in Range(waiting_list) \/ pc[t] # "woken"
  PROVE  Wakeups'
<1>0. /\ value \in [AllSemas -> Nat] /\ value' \in [AllSemas -> Nat]
      /\ \A s \in AllSemas : Range(waiters[s]) \subseteq Threads
  BY RangeType, Zenon DEF TypeInv, TypeOK, SemaTypes
<1>1. WaitersWoken'
  BY <1>0, Zenon DEF Wakeups, WaitersWoken, PlacesKept
<1>2. ASSUME NEW t \in Threads, pc[t] = "woken", status[t] # "BLOCKED"
      PROVE  status'[t] # "BLOCKED"
  <2>1. t \notin Blocked(status)
    BY <1>2, Zenon DEF Blocked
  <2>2. t \notin Range(waiting_list) /\ \A s \in AllSemas : t \notin Range(waiters[s])
    BY <2>1, Zenon DEF ListsOK, Waits
  <2>3. t \notin Range(waiting_list') /\ \A s \in AllSemas : t \notin Range(waiters'[s])
    BY <1>2, <2>2, Zenon
  <2>4. t \notin Blocked(status')
    BY <2>3, Zenon DEF ListsOK, Waits
  <2> QED
    BY <2>4 DEF Blocked
<1>3. ASSUME NEW s \in AllSemas, waiters'[s] # <<>>
      PROVE  value'[s] <= Cardinality(Woken(s)')
  <2>1. Woken(s) \subseteq Woken(s)' /\ Woken(s)' \subseteq Threads
    BY <1>2 DEF Woken, PlacesKept
  <2>2. /\ IsFiniteSet(Woken(s)') /\ Cardinality(Woken(s)') \in Nat
        /\ Cardinality(Woken(s)) \in Nat
    BY <2>1, WokenCounted, Zenon
  <2>3. Cardinality(Woken(s)) <= Cardinality(Woken(s)')
    BY <2>1, <2>2, FS_Subset, Zenon
  <2>4. value[s] <= Cardinality(Woken(s)) /\ value'[s] <= value[s]
    BY <1>3 DEF Wakeups
  <2> QED
    BY <1>0, <2>2, <2>3, <2>4
<1> QED
  BY <1>1, <1>3, Zenon DEF Wakeups

\* sema_up: the thread taken off the list is one more on its way.
LEMMA WakesUp ==
  ASSUME TypeInv, ListsOK, Wakeups, TypeInv', ListsOK', NEW s \in AllSemas, SemaUpBody(s),
         UNCHANGED waiting_list, PlacesKept
  PROVE  Wakeups'
<1>0. /\ value \in [AllSemas -> Nat] /\ waiters \in [AllSemas -> Seq(Threads)]
      /\ \A r \in AllSemas : Range(waiters[r]) \subseteq Threads
  BY RangeType DEF TypeInv, TypeOK, SemaTypes
<1>1. \A r \in AllSemas : value'[r] = IF r = s THEN value[s] + 1 ELSE value[r]
  BY <1>0, Zenon DEF SemaUpBody
<1>2. CASE waiters[s] = <<>>
  <2>1. UNCHANGED <<waiters, sched_vars>>
    BY <1>2 DEF SemaUpBody
  <2>2. WaitersWoken'
    BY <1>0, <2>1 DEF Wakeups, WaitersWoken, PlacesKept
  <2>3. ASSUME NEW r \in AllSemas, waiters'[r] # <<>>
        PROVE  value'[r] <= Cardinality(Woken(r)')
    <3>1. r # s /\ value'[r] = value[r]
      BY <1>1, <1>2, <2>1, <2>3, Zenon
    <3>2. Woken(r)' = Woken(r)
      BY <2>1, Zenon DEF Woken, PlacesKept, sched_vars
    <3> QED
      BY <2>1, <2>3, <3>1, <3>2, Zenon DEF Wakeups
  <2> QED
    BY <2>2, <2>3 DEF Wakeups
<1>3. CASE waiters[s] # <<>>
  <2>1. PICK b : b = Back(waiters[s])
    OBVIOUS
  <2>2. waiters[s] \in Seq(Threads) /\ IsInjective(waiters[s])
    BY <1>0 DEF ListsOK, Waits
  <2>3. Range(PopBack(waiters[s])) = Range(waiters[s]) \ {b} /\ b \in Range(waiters[s])
    BY <1>3, <2>1, <2>2, PopBackRange
  <2>4. \A r \in AllSemas : waiters'[r] = IF r = s THEN PopBack(waiters[s]) ELSE waiters[r]
    BY <1>0, <1>3, Zenon DEF SemaUpBody
  <2>5. ASSUME NEW r \in AllSemas, NEW u \in Range(waiters'[r])
        PROVE  u \in Range(waiters[r]) /\ u # b
    <3>1. CASE r = s
      BY <2>3, <2>4, <2>5, <3>1
    <3>2. CASE r # s
      <4>1. u \in Range(waiters[r])
        BY <2>4, <2>5, <3>2, Zenon
      <4>2. b \notin Range(waiters[r])
        BY <2>3, <3>2, Zenon DEF ListsOK, Waits
      <4> QED
        BY <4>1, <4>2
    <3> QED
      BY <3>1, <3>2
  <2>6. WaitersWoken'
    BY <1>0, <2>5, Zenon DEF Wakeups, WaitersWoken, PlacesKept
  <2>7. b \in Threads /\ pc[b] = "woken" /\ arg[b] = s
    BY <1>0, <2>3 DEF Wakeups, WaitersWoken
  <2>8. status[b] = "BLOCKED"
    BY <2>3, Zenon DEF ListsOK, Waits, Blocked
  <2>9. status'[b] # "BLOCKED"
    <3>1. b \notin Range(waiting_list')
      BY <2>3, Zenon DEF ListsOK, Waits
    <3>2. b \notin Blocked(status')
      BY <2>5, <3>1, Zenon DEF ListsOK, Waits
    <3> QED
      BY <2>7, <3>2, Zenon DEF Blocked
  <2>10. ASSUME NEW u \in Threads, status[u] # "BLOCKED" PROVE status'[u] # "BLOCKED"
    <3>1. u \notin Blocked(status)
      BY <2>10, Zenon DEF Blocked
    <3>2. u \notin Range(waiting_list) /\ \A r \in AllSemas : u \notin Range(waiters[r])
      BY <3>1, Zenon DEF ListsOK, Waits
    <3>3. u \notin Range(waiting_list') /\ \A r \in AllSemas : u \notin Range(waiters'[r])
      BY <2>5, <3>2, Zenon
    <3>4. u \notin Blocked(status')
      BY <3>3, Zenon DEF ListsOK, Waits
    <3> QED
      BY <3>4 DEF Blocked
  <2>11. ASSUME NEW r \in AllSemas, waiters'[r] # <<>>
         PROVE  value'[r] <= Cardinality(Woken(r)')
    <3>1. /\ Woken(r) \subseteq Woken(r)' /\ Woken(r)' \subseteq Threads
          /\ b \notin Woken(r)
      BY <2>8, <2>10 DEF Woken, PlacesKept
    <3>2. /\ IsFiniteSet(Woken(r)') /\ Cardinality(Woken(r)') \in Nat
          /\ IsFiniteSet(Woken(r)) /\ Cardinality(Woken(r)) \in Nat
      BY <3>1, WokenCounted
    <3>3. CASE r = s
      <4>1. value[s] <= Cardinality(Woken(s)) /\ value'[s] = value[s] + 1 /\ value[s] \in Nat
        BY <1>0, <1>1, <1>3 DEF Wakeups
      <4>2. PICK W : W = Woken(s) \cup {b}
        BY Zenon
      <4>3. Cardinality(W) = Cardinality(Woken(s)) + 1
        BY <3>1, <3>2, <3>3, <4>2, FS_AddElement, Zenon
      <4>4. b \in Woken(s)'
        BY <2>7, <2>9 DEF Woken, PlacesKept
      <4>5. W \subseteq Woken(s)'
        BY <3>1, <3>3, <4>2, <4>4
      <4>6. Cardinality(W) <= Cardinality(Woken(s)')
        BY <3>2, <3>3, <4>5, FS_Subset
      <4> QED
        BY <3>2, <3>3, <4>1, <4>3, <4>6, GoesAbove, Zenon
    <3>4. CASE r # s
      <4>1. value'[r] = value[r] /\ value[r] <= Cardinality(Woken(r)) /\ value[r] \in Nat
        BY <1>0, <1>1, <2>4, <2>11, <3>4, Zenon DEF Wakeups
      <4>2. Cardinality(Woken(r)) <= Cardinality(Woken(r)')
        BY <3>1, <3>2, FS_Subset
      <4> QED
        BY <3>2, <4>1, <4>2, StaysBelow, Zenon
    <3> QED
      BY <3>3, <3>4
  <2> QED
    BY <2>6, <2>11 DEF Wakeups
<1> QED
  BY <1>2, <1>3

\* A round of sema_down's loop: a thread that downs the semaphore was one of
\* those on their way, or came past them; one that blocks found the value 0.
LEMMA WakesDown ==
  ASSUME TypeInv, ListsOK, Wakeups, TypeInv', ListsOK', NEW t \in Threads, SemaDownLoop(t)
  PROVE  Wakeups'
<1>0. /\ value \in [AllSemas -> Nat] /\ value' \in [AllSemas -> Nat]
      /\ waiters \in [AllSemas -> Seq(Threads)]
      /\ \A r \in AllSemas : Range(waiters[r]) \subseteq Threads
      /\ pc \in [AllThreads -> Places] /\ arg \in [Threads -> AllSemas \cup {NULL}]
      /\ Threads \subseteq AllThreads
  BY RangeType, Zenon DEF TypeInv, TypeOK, SemaTypes, PlaceTypes, AllThreads
<1>1. PICK s \in AllSemas : s = arg[t]
  BY Zenon DEF SemaDownLoop, At, TypeInv, ArgFits
<1>2. /\ current = t /\ UNCHANGED waiting_list
      /\ \A u \in Threads : u # t => pc'[u] = pc[u] /\ arg'[u] = arg[u]
  BY <1>0, Zenon DEF SemaDownLoop, At, Call, Goto, Return, time_vars
<1>3. t \notin Range(waiting_list) /\ \A r \in AllSemas : t \notin Range(waiters[r])
  <2>1. t \notin Blocked(status)
    BY <1>2, RunningFree, Zenon DEF TypeInv
  <2> QED
    BY <2>1, Zenon DEF ListsOK, Waits
<1>4. CASE value[s] = 0
  <2>1. /\ waiters' = [waiters EXCEPT ![s] = InsertOrdered(@, t, priority)]
        /\ Call(t, "woken", s) /\ UNCHANGED value
    BY <1>1, <1>4 DEF SemaDownLoop
  <2>2. pc'[t] = "woken" /\ arg'[t] = s
    BY <1>0, <2>1 DEF Call, Goto
  <2>3. /\ waiters'[s] = InsertOrdered(waiters[s], t, priority)
        /\ \A r \in AllSemas : r # s => waiters'[r] = waiters[r]
    BY <1>0, <2>1, Zenon
  <2>4. Range(waiters'[s]) = Range(waiters[s]) \cup {t}
    BY <1>0, <2>3, InsertOrderedRange
  <2>5. WaitersWoken'
    <3> SUFFICES ASSUME NEW r \in AllSemas, NEW u \in Range(waiters'[r])
                 PROVE  pc'[u] = "woken" /\ arg'[u] = r
      BY Zenon DEF WaitersWoken
    <3>1. CASE u = t
      BY <1>3, <2>2, <2>3, <3>1, Zenon
    <3>2. CASE u # t
      <4>1. u \in Range(waiters[r])
        BY <2>3, <2>4, <3>2, Zenon
      <4> QED
        BY <1>0, <1>2, <3>2, <4>1, Zenon DEF Wakeups, WaitersWoken
    <3> QED
      BY <3>1, <3>2, Zenon
  <2>6. ASSUME NEW r \in AllSemas, waiters'[r] # <<>>
        PROVE  value'[r] <= Cardinality(Woken(r)')
    <3>1. Woken(r)' \subseteq Threads
      BY DEF Woken
    <3>2. IsFiniteSet(Woken(r)') /\ Cardinality(Woken(r)') \in Nat
      BY <3>1, WokenCounted
    <3>3. CASE r = s
      BY <1>4, <2>1, <3>2, <3>3
    <3>4. CASE r # s
      <4>1. ASSUME NEW u \in Woken(r) PROVE u \in Woken(r)'
        <5>1. u \in Threads /\ u # t /\ pc[u] = "woken" /\ arg[u] = r /\ status[u] # "BLOCKED"
          BY <1>1, <3>4, <4>1, Zenon DEF Woken
        <5>2. u \notin Range(waiting_list) /\ \A q \in AllSemas : u \notin Range(waiters[q])
          BY <5>1, Zenon DEF ListsOK, Waits, Blocked
        <5>3. u \notin Range(waiting_list') /\ \A q \in AllSemas : u \notin Range(waiters'[q])
          BY <1>2, <2>3, <2>4, <5>1, <5>2, Zenon
        <5>4. u \notin Blocked(status')
          BY <5>3, Zenon DEF ListsOK, Waits
        <5> QED
          BY <1>2, <5>1, <5>4, Zenon DEF Woken, Blocked
      <4>2. Woken(r) \subseteq Woken(r)'
        BY <4>1
      <4>3. Cardinality(Woken(r)) <= Cardinality(Woken(r)') /\ Cardinality(Woken(r)) \in Nat
        BY <3>1, <3>2, <4>2, FS_Subset, WokenCounted
      <4>4. value'[r] = value[r] /\ value[r] <= Cardinality(Woken(r)) /\ value[r] \in Nat
        BY <1>0, <2>1, <2>3, <2>6, <3>4 DEF Wakeups
      <4> QED
        BY <3>2, <4>3, <4>4, StaysBelow, Zenon
    <3> QED
      BY <3>3, <3>4, Zenon
  <2> QED
    BY <2>5, <2>6, Zenon DEF Wakeups
<1>5. CASE value[s] # 0
  <2>1. /\ value' = [value EXCEPT ![s] = @ - 1] /\ UNCHANGED <<waiters, sched_vars>>
    BY <1>1, <1>5, Zenon DEF SemaDownLoop
  <2>2. WaitersWoken'
    <3> SUFFICES ASSUME NEW r \in AllSemas, NEW u \in Range(waiters[r])
                 PROVE  pc'[u] = "woken" /\ arg'[u] = r
      BY <2>1, Zenon DEF WaitersWoken
    <3>1. u # t /\ u \in Threads
      BY <1>0, <1>3
    <3> QED
      BY <1>2, <3>1, Zenon DEF Wakeups, WaitersWoken
  <2>3. ASSUME NEW r \in AllSemas, waiters'[r] # <<>>
        PROVE  value'[r] <= Cardinality(Woken(r)')
    <3>1. PICK W : W = Woken(r) \ {t}
      BY Zenon
    <3>2. W \subseteq Woken(r)' /\ Woken(r)' \subseteq Threads /\ Woken(r) \subseteq Threads
      BY <1>2, <2>1, <3>1 DEF Woken, sched_vars
    <3>3. /\ IsFiniteSet(Woken(r)') /\ Cardinality(Woken(r)') \in Nat
          /\ IsFiniteSet(Woken(r)) /\ Cardinality(Woken(r)) \in Nat
          /\ Cardinality(W) \in Nat
      BY <3>1, <3>2, WokenCounted, Zenon
    <3>4. Cardinality(W) <= Cardinality(Woken(r)')
      BY <3>2, <3>3, FS_Subset, Zenon
    <3>5. Cardinality(W) = IF t \in Woken(r) THEN Cardinality(Woken(r)) - 1
                           ELSE Cardinality(Woken(r))
      BY <3>1, <3>3, FS_RemoveElement, Zenon
    <3>6. t \in Woken(r) => r = s
      BY <1>1 DEF Woken
    <3>7. /\ value[r] <= Cardinality(Woken(r)) /\ value[r] \in Nat
          /\ value'[r] = IF r = s THEN value[r] - 1 ELSE value[r]
      BY <1>0, <2>1, <2>3 DEF Wakeups
    <3>8. CASE r = s
      BY <3>3, <3>4, <3>5, <3>7, <3>8, GoesBelow, Zenon
    <3>9. CASE r # s
      BY <3>3, <3>4, <3>5, <3>6, <3>7, <3>9, StaysBelow, Zenon
    <3> QED
      BY <3>8, <3>9
  <2> QED
    BY <2>2, <2>3 DEF Wakeups
<1> QED
  BY <1>4, <1>5

\* A thread that moves between places outside sema_down's loop.
LEMMA PlacesOutside ==
  ASSUME TypeOK, NEW t \in Threads, pc[t] # "woken",
         NEW p, p # "woken", Goto(t, p), \A u \in Threads : u # t => arg'[u] = arg[u]
  PROVE  PlacesKept
<1>1. pc \in [AllThreads -> Places] /\ Threads \subseteq AllThreads
  BY DEF TypeOK, PlaceTypes, AllThreads
<1>2. \A u \in Threads : pc'[u] = IF u = t THEN p ELSE pc[u]
  BY <1>1, Zenon DEF Goto
<1> QED
  BY <1>2, Zenon DEF PlacesKept

\* The same with arg.
LEMMA CallsOutside ==
  ASSUME TypeOK, NEW t \in Threads, pc[t] # "woken", NEW p, p # "woken", NEW a, Call(t, p, a)
  PROVE  PlacesKept
<1>1. arg \in [Threads -> AllSemas \cup {NULL}]
  BY DEF TypeOK, PlaceTypes
<1>2. Goto(t, p) /\ \A u \in Threads : u # t => arg'[u] = arg[u]
  BY <1>1, Zenon DEF Call
<1> QED
  BY <1>2, PlacesOutside, Zenon

\* Every step of a thread keeps the wakeups.
LEMMA ThreadStepWakes ==
  ASSUME TypeInv, ListsOK, Wakeups, TypeInv', ListsOK', NEW t \in Threads, ThreadStep(t)
  PROVE  Wakeups'
<1>0. /\ TypeOK /\ ArgFits /\ t \in AllSemas /\ Semas \subseteq AllSemas
      /\ Locks \subseteq AllSemas /\ value \in [AllSemas -> Nat]
      /\ arg \in [Threads -> AllSemas \cup {NULL}] /\ waiting_list \in Seq(Threads)
  BY Zenon DEF TypeInv, AllSemas, TypeOK, SemaTypes, PlaceTypes, TimeTypes
<1>1. ASSUME NEW s \in Semas, SemaUp(t, s) PROVE Wakeups'
  <2>1. s \in AllSemas /\ SemaUpBody(s) /\ UNCHANGED <<waiting_list, pc, arg>>
    BY <1>0, <1>1, Zenon DEF SemaUp, time_vars, place_vars
  <2> QED
    BY <2>1, WakesUp, Zenon DEF PlacesKept
<1>2. ASSUME NEW s \in Semas, SemaTryDown(t, s) PROVE Wakeups'
  <2>1. UNCHANGED <<waiters, waiting_list, pc, arg>> /\ value' = [value EXCEPT ![s] = @ - 1]
    BY <1>2 DEF SemaTryDown, time_vars, place_vars
  <2>2. \A r \in AllSemas : value'[r] <= value[r]
    BY <1>0, <2>1
  <2> QED
    BY <2>1, <2>2, WakesKept, Zenon DEF PlacesKept
<1>3. ASSUME SemaDownLoop(t) PROVE Wakeups'
  BY <1>3, WakesDown
<1>4. ASSUME NEW l \in Locks, LockTryAcquire(t, l) PROVE Wakeups'
  <2>1. /\ UNCHANGED <<waiters, waiting_list>> /\ value' = [value EXCEPT ![l] = @ - 1]
        /\ pc[t] # "woken" /\ Call(t, "own", l)
    BY <1>4, Zenon DEF LockTryAcquire, time_vars, At
  <2>2. \A r \in AllSemas : value'[r] <= value[r]
    BY <1>0, <2>1
  <2>3. PlacesKept
    BY <1>0, <2>1, CallsOutside
  <2> QED
    BY <2>1, <2>2, <2>3, WakesKept, Zenon
<1>5. ASSUME UNCHANGED <<sema_vars, waiting_list>>, PlacesKept PROVE Wakeups'
  <2>1. UNCHANGED <<waiters, value, waiting_list>>
    BY <1>5 DEF sema_vars
  <2>2. \A r \in AllSemas : value'[r] <= value[r]
    BY <1>0, <2>1
  <2> QED
    BY <1>5, <2>1, <2>2, WakesKept
<1>6. ASSUME NEW s \in Semas \cup Devices \cup Threads, SemaDown(t, s) PROVE Wakeups'
  <2>1. UNCHANGED <<sema_vars, waiting_list>> /\ pc[t] # "woken" /\ Call(t, "down", s)
    BY <1>6 DEF SemaDown, time_vars, At
  <2> QED
    BY <1>0, <1>5, <2>1, CallsOutside, Zenon
<1>7. ASSUME NEW l \in Locks, LockAcquire(t, l) \/ LockRelease(t, l) PROVE Wakeups'
  <2>1. /\ UNCHANGED <<sema_vars, waiting_list>> /\ pc[t] # "woken"
        /\ \E p \in {"donate", "down", "rollback"} : Call(t, p, l)
    BY <1>7 DEF LockAcquire, LockRelease, time_vars, At
  <2> QED
    BY <1>0, <1>5, <2>1, CallsOutside, Zenon
<1>8. ASSUME SetHolder(t) PROVE Wakeups'
  <2>1. UNCHANGED <<sema_vars, waiting_list>> /\ pc[t] # "woken" /\ Call(t, "run", NULL)
    BY <1>8, Zenon DEF SetHolder, Return, time_vars, At
  <2> QED
    BY <1>0, <1>5, <2>1, CallsOutside, Zenon
<1>9. ASSUME PriorityDonation(t) \/ PriorityRollback(t) PROVE Wakeups'
  <2>1. /\ UNCHANGED <<sema_vars, waiting_list, arg>> /\ pc[t] # "woken"
        /\ UNCHANGED pc \/ Goto(t, "down") \/ Goto(t, "up")
    BY <1>9, Zenon DEF PriorityDonation, PriorityRollback, time_vars, At
  <2>2. PlacesKept
    BY <1>0, <2>1, PlacesOutside, Zenon DEF PlacesKept
  <2> QED
    BY <1>5, <2>1, <2>2, Zenon
<1>10. ASSUME LockUp(t) PROVE Wakeups'
  <2>1. /\ arg[t] \in AllSemas /\ SemaUpBody(arg[t]) /\ UNCHANGED waiting_list
        /\ pc[t] # "woken" /\ Call(t, "run", NULL)
    BY <1>0, <1>10 DEF LockUp, At, ArgFits, Return, time_vars
  <2>2. PlacesKept
    BY <1>0, <2>1, CallsOutside, Zenon
  <2> QED
    BY <2>1, <2>2, WakesUp, Zenon
<1>11. ASSUME \/ \E u \in Threads, p \in Priorities : ThreadCreate(t, u, p)
              \/ Yield(t) \/ \E p \in NewPriorities : ThreadSetPriority(t, p)
              \/ ThreadDie(t)
       PROVE  Wakeups'
  <2>1. UNCHANGED <<sema_vars, waiting_list, pc, arg>>
    BY <1>11, Zenon DEF ThreadCreate, Yield, ThreadSetPriority, ThreadDie, time_vars, place_vars
  <2> QED
    BY <1>5, <2>1, Zenon DEF PlacesKept
<1>12. ASSUME ThreadExit(t) PROVE Wakeups'
  <2>1. /\ SemaUpBody(t) /\ UNCHANGED <<waiting_list, arg>>
        /\ pc[t] # "woken" /\ Goto(t, "exiting")
    BY <1>12, Zenon DEF ThreadExit, At, time_vars
  <2>2. PlacesKept
    BY <1>0, <2>1, PlacesOutside, Zenon
  <2> QED
    BY <1>0, <2>1, <2>2, WakesUp, Zenon
<1>13. ASSUME NEW n \in SleepTicks, TimerSleep(t, n) PROVE Wakeups'
  <2>1. /\ UNCHANGED <<sema_vars, waiting_list, arg>>
        /\ pc[t] # "woken" /\ Goto(t, "sleep")
    BY <1>13 DEF TimerSleep, At
  <2> QED
    BY <1>0, <1>5, <2>1, PlacesOutside, Zenon
<1>14. ASSUME SleepBlock(t) PROVE Wakeups'
  <2>1. /\ UNCHANGED <<waiters, value, arg>> /\ pc[t] # "woken" /\ Goto(t, "run")
        /\ waiting_list' = InsertOrdered(waiting_list, t, waking_time)
    BY <1>14 DEF SleepBlock, At, sema_vars
  <2>2. PlacesKept
    BY <1>0, <2>1, PlacesOutside, Zenon
  <2>3. Range(waiting_list') = Range(waiting_list) \cup {t}
    BY <1>0, <2>1, InsertOrderedRange
  <2>4. \A r \in AllSemas : value'[r] <= value[r]
    BY <1>0, <2>1
  <2> QED
    BY <2>1, <2>2, <2>3, <2>4, WakesKept, Zenon
<1> QED
  BY <1>1, <1>2, <1>3, <1>4, <1>6, <1>7, <1>8, <1>9, <1>10, <1>11, <1>12, <1>13, <1>14
     DEF ThreadStep

\* So do interrupts, their handlers and the idle thread.
LEMMA OtherStepWakes ==
  ASSUME TypeInv, ListsOK, Wakeups, TypeInv', ListsOK',
         \/ \E s \in Devices : DeviceInterrupt(s)
         \/ Idle \/ TimerInterrupt \/ HandlerStep \/ UNCHANGED vars
  PROVE  Wakeups'
<1>0. /\ TypeOK /\ Devices \subseteq AllSemas /\ value \in [AllSemas -> Nat]
      /\ waiting_list \in Seq(Threads) /\ IsInjective(waiting_list)
  BY Zenon DEF TypeInv, AllSemas, TypeOK, SemaTypes, TimeTypes, ListsOK, Waits
<1>1. PlacesKept
  <2>1. UNCHANGED <<pc, arg>>
    BY Zenon DEF DeviceInterrupt, Idle, TimerInterrupt, HandlerStep, WakeExpired, InterruptReturn,
       vars, place_vars
  <2> QED
    BY <2>1, Zenon DEF PlacesKept
<1>2. ASSUME UNCHANGED sema_vars,
             \A t \in Threads : t \in Range(waiting_list') => t \in Range(waiting_list)
      PROVE  Wakeups'
  <2>1. UNCHANGED <<waiters, value>>
    BY <1>2 DEF sema_vars
  <2>2. \A r \in AllSemas : value'[r] <= value[r]
    BY <1>0, <2>1
  <2> QED
    BY <1>1, <1>2, <2>1, <2>2, WakesKept
<1>3. ASSUME NEW s \in Devices, DeviceInterrupt(s) PROVE Wakeups'
  <2>1. UNCHANGED waiting_list /\ (SemaUpBody(s) \/ UNCHANGED sema_vars)
    BY <1>3 DEF DeviceInterrupt, time_vars
  <2> QED
    BY <1>0, <1>1, <1>2, <2>1, WakesUp
<1>4. CASE Idle \/ TimerInterrupt \/ InterruptReturn \/ UNCHANGED vars
  <2>1. UNCHANGED <<sema_vars, waiting_list>>
    BY <1>4 DEF Idle, TimerInterrupt, InterruptReturn, vars, time_vars, sema_vars
  <2> QED
    BY <1>2, <2>1, Zenon
<1>5. CASE WakeExpired
  <2>1. /\ UNCHANGED sema_vars /\ waiting_list' = Tail(waiting_list)
    BY <1>5 DEF WakeExpired
  <2>2. waiting_list # <<>>
    BY <1>0, <1>5, WakeIs
  <2>3. Range(waiting_list') = Range(waiting_list) \ {waiting_list[1]}
    BY <1>0, <2>1, <2>2, PopFrontRange
  <2> QED
    BY <1>2, <2>1, <2>3, Zenon
<1> QED
  BY <1>3, <1>4, <1>5, Zenon DEF HandlerStep

\* No sema_up is lost, for any number of threads and semaphores and however
\* sema_up, sema_down, sema_try_down and the timer interleave: while threads
\* wait for a semaphore of positive value, as many are on their way to it.
THEOREM WakeupsKept == Spec => []NoLostWakeup
<1>1. Init => ListInv /\ Wakeups
  <2> SUFFICES ASSUME Init PROVE Wakeups
    BY ListInit
  <2>1. \A s \in AllSemas : waiters[s] = <<>> /\ Range(waiters[s]) = {}
    BY DEF Init, Range
  <2> QED
    BY <2>1 DEF Wakeups, WaitersWoken
<1>2. ListInv /\ Wakeups /\ [Next]_vars => (ListInv /\ Wakeups)'
  <2> SUFFICES ASSUME ListInv, Wakeups, [Next]_vars PROVE ListInv' /\ Wakeups'
    OBVIOUS
  <2>1. TypeInv /\ ListsOK /\ ListInv' /\ TypeInv' /\ ListsOK'
    BY ListStep DEF ListInv
  <2>2. CASE \E t \in Threads : ThreadStep(t)
    BY <2>1, <2>2, ThreadStepWakes
  <2>3. CASE ~\E t \in Threads : ThreadStep(t)
    BY <2>1, <2>3, OtherStepWakes, Zenon DEF Next, Halted
  <2> QED
    BY <2>1, <2>2, <2>3
<1>3. Wakeups => NoLostWakeup
  BY DEF Wakeups, NoLostWakeup, Woken
<1> QED
  BY <1>1, <1>2, <1>3, PTL DEF Spec

-----------------------------------------------------------------------------
(* Donation.                                                               *)

\* lock_release gives back what lock_acquire gave, also along chains of holders
\* and whatever priorities are set meanwhile: without timer interrupts, a thread
\* that has released its locks runs at its own priority, for any number of
\* threads and locks.
THEOREM DonationsReturn == Spec /\ []Tickless => []DonationRelinquished
<1>1. Cardinality(Threads) \in Nat
  BY ThreadsAssumption, FS_CardinalityType
<1>2. DonationInv /\ Tickless /\ [Next]_vars => DonationInv'
  BY <1>1, DonationStep
<1> QED
  BY <1>2, DonationInit, DonationTaken, PTL DEF Spec

=============================================================================
