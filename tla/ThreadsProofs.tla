---------------------------- MODULE ThreadsProofs ----------------------------
(***************************************************************************)
(* What is proved of Threads, for every set of threads, locks and          *)
(* semaphores and every range of priorities.                               *)
(***************************************************************************)
EXTENDS Threads, WellFoundedInduction, TLAPS

-----------------------------------------------------------------------------
(* Minima, maxima and lists.                                               *)

\* A set of numbers that is not empty has a least element, and Min is it: the
\* place where list_insert_ordered's loop stops exists.
LEMMA MinInSet ==
  ASSUME NEW S, S \subseteq Nat, S # {}
  PROVE  Min(S) \in S /\ \A y \in S : Min(S) <= y
<1>1. PICK x \in S : \A y \in S : ~(<<y, x>> \in OpToRel(<, Nat))
  BY NatLessThanWellFounded, WFMin
<1>2. \A y \in S : x <= y
  <2> SUFFICES ASSUME NEW y \in S, y < x
               PROVE  FALSE
    OBVIOUS
  <2>1. <<y, x>> \in Nat \X Nat /\ <<y, x>>[1] < <<y, x>>[2]
    OBVIOUS
  <2> QED
    BY <1>1, <2>1 DEF OpToRel
<1> QED
  BY <1>2, Zenon DEF Min

\* A set of priorities that is not empty has a greatest element, and Max is
\* it: the back of possessing_locks.
LEMMA MaxInPriorities ==
  ASSUME NEW S, S \subseteq Priorities, S # {}
  PROVE  Max(S) \in S
<1> DEFINE T == {PRI_MAX - x : x \in S}
<1>1. S \subseteq Nat /\ \A x \in S : x <= PRI_MAX
  BY BoundsAssumption DEF Priorities
<1>2. T \subseteq Nat /\ T # {}
  <2>1. \A x \in S : PRI_MAX - x \in Nat
    BY <1>1, BoundsAssumption
  <2> QED
    BY <2>1
<1>3. Min(T) \in T /\ \A y \in T : Min(T) <= y
  BY <1>2, MinInSet, Zenon
<1>4. PICK x \in S : Min(T) = PRI_MAX - x
  BY <1>3, Zenon
<1>5. \A y \in S : x >= y
  <2> TAKE y \in S
  <2>1. PRI_MAX - x <= PRI_MAX - y
    BY <1>3, <1>4
  <2> QED
    BY <2>1, <1>1, BoundsAssumption
<1> QED
  BY <1>5 DEF Max

\* list_insert_ordered stops at the first element whose key is not smaller, or
\* at the end.
LEMMA InsertOrderedPlace ==
  ASSUME NEW S, NEW list \in Seq(S), NEW e, NEW key
  PROVE  \E at \in 1..(Len(list) + 1) :
           /\ InsertOrdered(list, e, key) = Insert(list, at, e)
           /\ \A j \in 1..(at - 1) : ~(key[e] <= key[list[j]])
           /\ at <= Len(list) => key[e] <= key[list[at]]
<1> DEFINE notSmaller == {i \in 1..Len(list) : key[e] <= key[list[i]]}
           at == IF notSmaller = {} THEN Len(list) + 1 ELSE Min(notSmaller)
<1>1. Len(list) \in Nat
  OBVIOUS
<1>2. /\ at \in 1..(Len(list) + 1)
      /\ \A j \in 1..(at - 1) : ~(key[e] <= key[list[j]])
      /\ at <= Len(list) => key[e] <= key[list[at]]
  <2>1. CASE notSmaller = {}
    BY <2>1, <1>1
  <2>2. CASE notSmaller # {}
    <3>1. Min(notSmaller) \in notSmaller /\ \A y \in notSmaller : Min(notSmaller) <= y
      BY <2>2, MinInSet, notSmaller \subseteq Nat, Zenon
    <3>2. PICK m : m = Min(notSmaller)
      BY Zenon
    <3>3. m \in 1..Len(list) /\ key[e] <= key[list[m]] /\ at = m
      BY <2>2, <3>1, <3>2
    <3>4. ASSUME NEW j \in 1..(m - 1) PROVE ~(key[e] <= key[list[j]])
      BY <1>1, <3>1, <3>2, <3>3
    <3> HIDE DEF at, notSmaller
    <3> QED
      BY <1>1, <3>3, <3>4
  <2> QED
    BY <2>1, <2>2, Zenon
<1>3. InsertOrdered(list, e, key) = Insert(list, at, e)
  BY DEF InsertOrdered
<1> QED
  BY <1>2, <1>3, Zenon

\* What list_insert leaves: the elements from place i on move up by one.
LEMMA InsertIs ==
  ASSUME NEW S, NEW list \in Seq(S), NEW e \in S, NEW i \in 1..(Len(list) + 1)
  PROVE  /\ Insert(list, i, e) \in Seq(S)
         /\ Len(Insert(list, i, e)) = Len(list) + 1
         /\ \A j \in 1..(Len(list) + 1) :
              Insert(list, i, e)[j] = IF j < i THEN list[j]
                                      ELSE IF j = i THEN e ELSE list[j - 1]
<1> DEFINE low == SubSeq(list, 1, i - 1)
           high == SubSeq(list, i, Len(list))
<1>1. Len(list) \in Nat /\ i \in Nat
  OBVIOUS
<1>2. low \in Seq(S) /\ Len(low) = i - 1 /\ \A j \in 1..(i - 1) : low[j] = list[j]
  BY <1>1
<1>3. /\ high \in Seq(S) /\ Len(high) = Len(list) + 1 - i
      /\ \A j \in 1..(Len(list) + 1 - i) : high[j] = list[j + i - 1]
  BY <1>1
<1>4. Insert(list, i, e) = low \o <<e>> \o high
  BY DEF Insert
<1> HIDE DEF low, high
<1>5. /\ low \o <<e>> \in Seq(S) /\ Len(low \o <<e>>) = i
      /\ \A j \in 1..i : (low \o <<e>>)[j] = IF j < i THEN list[j] ELSE e
  BY <1>1, <1>2
<1> DEFINE up == low \o <<e>>
<1>6. Insert(list, i, e) = up \o high
  BY <1>4
<1> HIDE DEF up
<1>7. up \in Seq(S) /\ Len(up) = i /\ \A j \in 1..i : up[j] = IF j < i THEN list[j] ELSE e
  BY <1>5 DEF up
<1>8. /\ up \o high \in Seq(S) /\ Len(up \o high) = Len(list) + 1
      /\ \A j \in 1..(Len(list) + 1) :
           (up \o high)[j] = IF j <= i THEN up[j] ELSE high[j - i]
  BY <1>1, <1>3, <1>7
<1>9. \A j \in 1..(Len(list) + 1) :
        (up \o high)[j] = IF j < i THEN list[j] ELSE IF j = i THEN e ELSE list[j - 1]
  <2> TAKE j \in 1..(Len(list) + 1)
  <2>1. CASE j <= i
    BY <1>1, <1>7, <1>8, <2>1
  <2>2. CASE j > i
    <3>1. j - i \in 1..(Len(list) + 1 - i) /\ j - i + i - 1 = j - 1
      BY <1>1, <2>2
    <3>2. (up \o high)[j] = high[j - i]
      BY <1>1, <1>8, <2>2
    <3>3. high[j - i] = list[j - i + i - 1]
      BY <1>3, <3>1, Zenon
    <3> QED
      BY <1>1, <2>2, <3>1, <3>2, <3>3
  <2>3. j <= i \/ j > i
    BY <1>1
  <2> QED
    BY <2>1, <2>2, <2>3, Zenon
<1> QED
  BY <1>6, <1>8, <1>9

\* Inserting an element of S into a list over S gives a list over S.
LEMMA InsertOrderedType ==
  ASSUME NEW S, NEW list \in Seq(S), NEW e \in S, NEW key
  PROVE  InsertOrdered(list, e, key) \in Seq(S)
BY InsertOrderedPlace, InsertIs

\* An insertion adds its element; nothing is twice in a list that it was not in.
LEMMA InsertOrderedRange ==
  ASSUME NEW S, NEW list \in Seq(S), NEW e \in S, NEW key
  PROVE  /\ Range(InsertOrdered(list, e, key)) = Range(list) \cup {e}
         /\ IsInjective(list) /\ e \notin Range(list)
              => IsInjective(InsertOrdered(list, e, key))
<1>1. PICK at \in 1..(Len(list) + 1) : InsertOrdered(list, e, key) = Insert(list, at, e)
  BY InsertOrderedPlace, Zenon
<1>2. PICK new : new = Insert(list, at, e)
  OBVIOUS
<1>3. /\ Len(list) \in Nat /\ at \in Nat /\ DOMAIN list = 1..Len(list)
      /\ DOMAIN new = 1..(Len(list) + 1)
      /\ \A j \in 1..(Len(list) + 1) :
           new[j] = IF j < at THEN list[j] ELSE IF j = at THEN e ELSE list[j - 1]
  <2>1. /\ new \in Seq(S) /\ Len(new) = Len(list) + 1
        /\ \A j \in 1..(Len(list) + 1) :
             new[j] = IF j < at THEN list[j] ELSE IF j = at THEN e ELSE list[j - 1]
    <3>1. /\ Insert(list, at, e) \in Seq(S) /\ Len(Insert(list, at, e)) = Len(list) + 1
          /\ \A j \in 1..(Len(list) + 1) :
               Insert(list, at, e)[j] = IF j < at THEN list[j]
                                        ELSE IF j = at THEN e ELSE list[j - 1]
      BY InsertIs
    <3> QED
      BY <1>2, <3>1
  <2>2. Len(list) \in Nat /\ at \in Nat /\ DOMAIN list = 1..Len(list)
    OBVIOUS
  <2>3. DOMAIN new = 1..(Len(list) + 1)
    BY <2>1
  <2> QED
    BY <2>1, <2>2, <2>3, Zenon
<1>4. ASSUME NEW j \in DOMAIN new PROVE new[j] \in Range(list) \cup {e}
  <2>1. CASE j = at
    BY <1>3, <2>1
  <2>2. CASE j < at
    BY <1>3, <2>2 DEF Range
  <2>3. CASE j > at
    <3>1. j - 1 \in DOMAIN list /\ new[j] = list[j - 1]
      BY <1>3, <2>3
    <3> QED
      BY <3>1 DEF Range
  <2> QED
    BY <1>3, <2>1, <2>2, <2>3
<1>5. e \in Range(new)
  BY <1>3 DEF Range
<1>6. ASSUME NEW i \in DOMAIN list PROVE list[i] \in Range(new)
  <2>1. CASE i < at
    BY <1>3, <2>1 DEF Range
  <2>2. CASE i >= at
    <3>1. i + 1 \in DOMAIN new /\ new[i + 1] = list[i]
      BY <1>3, <2>2
    <3> QED
      BY <3>1 DEF Range
  <2> QED
    BY <1>3, <2>1, <2>2
<1>7. Range(new) = Range(list) \cup {e}
  BY <1>4, <1>5, <1>6 DEF Range
<1>8. ASSUME IsInjective(list), e \notin Range(list) PROVE IsInjective(new)
  <2> SUFFICES ASSUME NEW i \in DOMAIN new, NEW j \in DOMAIN new, new[i] = new[j]
               PROVE  i = j
    BY DEF IsInjective
  <2>1. \A k \in DOMAIN list : list[k] # e
    BY <1>8 DEF Range
  <2>2. \A k, m \in DOMAIN list : list[k] = list[m] => k = m
    BY <1>8 DEF IsInjective
  <2> QED
    BY <1>3, <2>1, <2>2
<1> QED
  BY <1>1, <1>2, <1>7, <1>8

\* Popping the back of a list that is not empty.
LEMMA PopBackType ==
  ASSUME NEW S, NEW list \in Seq(S), list # <<>>
  PROVE  Back(list) \in S /\ PopBack(list) \in Seq(S)
<1>1. Len(list) \in Nat \ {0} /\ list \in [1..Len(list) -> S]
  OBVIOUS
<1> QED
  BY <1>1 DEF Back, PopBack

\* What list_pop_back leaves.
LEMMA PopBackIs ==
  ASSUME NEW S, NEW list \in Seq(S), list # <<>>
  PROVE  /\ Len(list) \in Nat \ {0} /\ DOMAIN list = 1..Len(list)
         /\ DOMAIN PopBack(list) = 1..(Len(list) - 1)
         /\ \A j \in 1..(Len(list) - 1) : PopBack(list)[j] = list[j]
<1>1. Len(list) \in Nat \ {0} /\ list \in [1..Len(list) -> S]
  OBVIOUS
<1> QED
  BY <1>1 DEF PopBack

\* Popping the back takes that element away, and only it.
LEMMA PopBackRange ==
  ASSUME NEW S, NEW list \in Seq(S), list # <<>>, IsInjective(list)
  PROVE  /\ Range(PopBack(list)) = Range(list) \ {Back(list)}
         /\ IsInjective(PopBack(list)) /\ Back(list) \in Range(list)
<1>1. PICK new : new = PopBack(list)
  OBVIOUS
<1>2. /\ Len(list) \in Nat \ {0} /\ DOMAIN list = 1..Len(list)
      /\ DOMAIN new = 1..(Len(list) - 1) /\ \A j \in DOMAIN new : new[j] = list[j]
  BY <1>1, PopBackIs
<1>3. \A k, m \in DOMAIN list : list[k] = list[m] => k = m
  BY DEF IsInjective
<1>4. Range(new) = Range(list) \ {Back(list)}
  BY <1>2, <1>3 DEF Range, Back
<1>5. IsInjective(new) /\ Back(list) \in Range(list)
  BY <1>2, <1>3 DEF Range, Back, IsInjective
<1> QED
  BY <1>1, <1>4, <1>5

\* So does popping the front.
LEMMA PopFrontRange ==
  ASSUME NEW S, NEW list \in Seq(S), list # <<>>, IsInjective(list)
  PROVE  /\ Range(Tail(list)) = Range(list) \ {list[1]}
         /\ IsInjective(Tail(list)) /\ list[1] \in Range(list)
<1>1. PICK new : new = Tail(list)
  BY Zenon
<1>2. /\ Len(list) \in Nat \ {0} /\ DOMAIN list = 1..Len(list)
      /\ DOMAIN new = 1..(Len(list) - 1) /\ \A j \in DOMAIN new : new[j] = list[j + 1]
  BY <1>1
<1>3. \A k, m \in DOMAIN list : list[k] = list[m] => k = m
  BY DEF IsInjective
<1>4. ASSUME NEW x \in Range(list) \ {list[1]} PROVE x \in Range(new)
  <2>1. PICK k \in DOMAIN list : list[k] = x
    BY DEF Range
  <2>2. k # 1 /\ k - 1 \in DOMAIN new /\ new[k - 1] = x
    BY <1>2, <2>1
  <2> QED
    BY <2>2 DEF Range
<1>5. Range(new) \subseteq Range(list) \ {list[1]}
  BY <1>2, <1>3 DEF Range
<1>6. IsInjective(new) /\ list[1] \in Range(list)
  BY <1>2, <1>3 DEF Range, IsInjective
<1> QED
  BY <1>1, <1>4, <1>5, <1>6

-----------------------------------------------------------------------------
(* Types.                                                                  *)

\* schedule leaves a well-typed scheduler.
LEMMA ScheduleType ==
  ASSUME NEW st \in [AllThreads -> Status], NEW ready \in Seq(Threads),
         Schedule(st, ready)
  PROVE  SchedTypes'
<1>1. CASE ready = <<>>
  <2>1. idle_thread \in AllThreads /\ "RUNNING" \in Status
    BY DEF AllThreads, Status
  <2> QED
    BY <1>1, <2>1 DEF Schedule, SchedTypes
<1>2. CASE ready # <<>>
  <2>1. Back(ready) \in AllThreads /\ PopBack(ready) \in Seq(Threads)
    BY <1>2, PopBackType DEF AllThreads
  <2>2. "RUNNING" \in Status
    BY DEF Status
  <2> QED
    BY <1>2, <2>1, <2>2 DEF Schedule, SchedTypes
<1> QED
  BY <1>1, <1>2

\* So does thread_block.
LEMMA BlockType ==
  ASSUME TypeOK, ThreadBlock
  PROVE  SchedTypes'
<1>1. [status EXCEPT ![current] = "BLOCKED"] \in [AllThreads -> Status]
  BY DEF TypeOK, SchedTypes, Status
<1> QED
  BY <1>1, ScheduleType, Zenon DEF ThreadBlock, TypeOK, SchedTypes

\* So does thread_yield.
LEMMA YieldType ==
  ASSUME TypeOK, NEW st \in [AllThreads -> Status], NEW ready \in Seq(Threads),
         NEW pri, ThreadYield(st, ready, pri)
  PROVE  SchedTypes'
<1>1. [st EXCEPT ![current] = "READY"] \in [AllThreads -> Status]
  BY DEF TypeOK, SchedTypes, Status
<1>2. current # idle_thread => InsertOrdered(ready, current, pri) \in Seq(Threads)
  BY InsertOrderedType DEF TypeOK, SchedTypes, AllThreads
<1>3. (IF current = idle_thread THEN ready ELSE InsertOrdered(ready, current, pri))
        \in Seq(Threads)
  BY <1>2
<1> QED
  BY <1>1, <1>3, ScheduleType, Zenon DEF ThreadYield

\* So does thread_unblock.
LEMMA UnblockType ==
  ASSUME TypeOK, NEW t \in Threads, NEW pri, ThreadUnblock(t, pri)
  PROVE  SchedTypes'
<1>1. [status EXCEPT ![t] = "READY"] \in [AllThreads -> Status]
  BY Zenon DEF TypeOK, SchedTypes, Status
<1>2. InsertOrdered(ready_list, t, pri) \in Seq(Threads)
  BY InsertOrderedType DEF TypeOK, SchedTypes
<1>3. CASE Preempts(t, pri)
  BY <1>1, <1>2, <1>3, YieldType, Zenon DEF ThreadUnblock
<1>4. CASE ~Preempts(t, pri)
  BY <1>1, <1>2, <1>4 DEF ThreadUnblock, TypeOK, SchedTypes
<1> QED
  BY <1>3, <1>4

\* sema_up leaves a well-typed scheduler and semaphore.
LEMMA SemaUpType ==
  ASSUME TypeOK, NEW s \in AllSemas, SemaUpBody(s)
  PROVE  SchedTypes' /\ SemaTypes'
<1>1. value' \in [AllSemas -> Nat]
  BY DEF SemaUpBody, TypeOK, SemaTypes
<1>2. CASE waiters[s] = <<>>
  BY <1>1, <1>2 DEF SemaUpBody, sched_vars, TypeOK, SchedTypes, SemaTypes
<1>3. CASE waiters[s] # <<>>
  <2>1. waiters[s] \in Seq(Threads)
    BY DEF TypeOK, SemaTypes
  <2>2. Back(waiters[s]) \in Threads /\ PopBack(waiters[s]) \in Seq(Threads)
    BY <1>3, <2>1, PopBackType
  <2>3. waiters' \in [AllSemas -> Seq(Threads)]
    BY <1>3, <2>2, Zenon DEF SemaUpBody, TypeOK, SemaTypes
  <2>4. SchedTypes'
    BY <1>3, <2>2, UnblockType DEF SemaUpBody
  <2> QED
    BY <1>1, <2>3, <2>4 DEF SemaTypes
<1> QED
  BY <1>2, <1>3

TypeInv == TypeOK /\ ArgFits

\* The initial state is well typed.
LEMMA TypeInit == Init => TypeInv
<1> SUFFICES ASSUME Init PROVE TypeInv
  OBVIOUS
<1>1. DonationTypes
  BY BoundsAssumption DEF Init, DonationTypes, Priorities
<1>2. SchedTypes
  BY ThreadsAssumption DEF Init, SchedTypes, AllThreads, Status
<1>3. TimeTypes
  BY DEF Init, TimeTypes
<1>4. SemaTypes
  BY DEF Init, SemaTypes
<1>5. PlaceTypes
  BY DEF Init, PlaceTypes, Places
<1>6. ArgFits
  BY DEF Init, ArgFits, AllThreads
<1> QED
  BY <1>1, <1>2, <1>3, <1>4, <1>5, <1>6, Zenon DEF TypeInv, TypeOK, Init, Faults

\* A thread's move to another place, with an argument that fits it.
LEMMA CallType ==
  ASSUME TypeInv, NEW t \in Threads, NEW p \in Places,
         NEW a \in AllSemas \cup {NULL}, Call(t, p, a),
         p \in {"donate", "own", "rollback", "up"} => a \in Locks,
         p \in {"down", "woken"} => a \in AllSemas
  PROVE  PlaceTypes' /\ ArgFits'
<1>1. pc' = [pc EXCEPT ![t] = p] /\ arg' = [arg EXCEPT ![t] = a]
  BY DEF Call, Goto
<1>2. PlaceTypes'
  BY <1>1, Zenon DEF TypeInv, TypeOK, PlaceTypes
<1>3. ArgFits'
  BY <1>1 DEF TypeInv, TypeOK, PlaceTypes, ArgFits, AllThreads
<1> QED
  BY <1>2, <1>3

\* A thread's move to another place whose argument it already has.
LEMMA GotoType ==
  ASSUME TypeInv, NEW t \in Threads, NEW p \in Places, Goto(t, p), UNCHANGED arg,
         p \in {"donate", "own", "rollback", "up"} => arg[t] \in Locks,
         p \in {"down", "woken"} => arg[t] \in AllSemas
  PROVE  PlaceTypes' /\ ArgFits'
<1>1. pc' = [pc EXCEPT ![t] = p] /\ arg' = arg
  BY DEF Goto
<1>2. PlaceTypes'
  BY <1>1, Zenon DEF TypeInv, TypeOK, PlaceTypes
<1>3. ArgFits'
  BY <1>1 DEF TypeInv, TypeOK, PlaceTypes, ArgFits, AllThreads
<1> QED
  BY <1>2, <1>3

\* Parts of the state a step leaves alone keep their types.
LEMMA UnchangedTypes ==
  ASSUME TypeInv
  PROVE  /\ UNCHANGED donation_vars => DonationTypes'
         /\ UNCHANGED sched_vars => SchedTypes'
         /\ UNCHANGED time_vars => TimeTypes'
         /\ UNCHANGED sema_vars => SemaTypes'
         /\ UNCHANGED place_vars => PlaceTypes' /\ ArgFits'
<1>1. UNCHANGED donation_vars => DonationTypes'
  BY DEF TypeInv, TypeOK, DonationTypes, donation_vars
<1>2. UNCHANGED sched_vars => SchedTypes'
  BY DEF TypeInv, TypeOK, SchedTypes, sched_vars
<1>3. UNCHANGED time_vars => TimeTypes'
  BY DEF TypeInv, TypeOK, TimeTypes, time_vars
<1>4. UNCHANGED sema_vars => SemaTypes'
  BY DEF TypeInv, TypeOK, SemaTypes, sema_vars
<1>5. UNCHANGED place_vars => PlaceTypes' /\ ArgFits'
  BY DEF TypeInv, TypeOK, PlaceTypes, ArgFits, place_vars
<1> QED
  BY <1>1, <1>2, <1>3, <1>4, <1>5

\* Every step of a thread in the kernel keeps the types.
LEMMA ThreadStepType ==
  ASSUME TypeInv, NEW t \in Threads, ThreadStep(t)
  PROVE  TypeInv'
<1>0. TypeOK /\ ArgFits
  BY DEF TypeInv
<1>a. /\ t \in AllSemas
      /\ Locks \cup Semas \cup Devices \subseteq AllSemas
  BY DEF AllSemas
<1>b. priority[t] \in Priorities
  BY <1>0 DEF TypeOK, DonationTypes
<1>1. ASSUME NEW s \in Semas, SemaUp(t, s) PROVE TypeInv'
  BY UnchangedTypes, <1>0, <1>1, <1>a, SemaUpType DEF SemaUp, TypeInv, TypeOK
<1>2. ASSUME NEW s \in Semas, SemaTryDown(t, s) PROVE TypeInv'
  <2>1. SemaTypes'
    BY <1>0, <1>2, <1>a DEF SemaTryDown, TypeOK, SemaTypes
  <2> QED
    BY UnchangedTypes, <1>0, <1>2, <2>1 DEF SemaTryDown, TypeInv, TypeOK
<1>3. ASSUME NEW s \in Semas \cup Devices \cup Threads, SemaDown(t, s) PROVE TypeInv'
  <2>1. s \in AllSemas /\ "down" \in Places
    BY DEF AllSemas, Places
  <2>2. PlaceTypes' /\ ArgFits'
    BY <1>3, <2>1, CallType DEF SemaDown
  <2> QED
    BY UnchangedTypes, <1>0, <1>3, <2>2 DEF SemaDown, TypeInv, TypeOK
<1>4. ASSUME SemaDownLoop(t) PROVE TypeInv'
  <2> DEFINE s == arg[t]
  <2>1. s \in AllSemas
    BY <1>0, <1>4, Zenon DEF SemaDownLoop, At, ArgFits
  <2>2. "woken" \in Places /\ "own" \in Places /\ "run" \in Places
    BY Zenon DEF Places
  <2>3. ASSUME value[s] = 0,
               waiters' = [waiters EXCEPT ![s] = InsertOrdered(@, t, priority)],
               ThreadBlock, Call(t, "woken", s), UNCHANGED value
        PROVE  SchedTypes' /\ SemaTypes' /\ PlaceTypes' /\ ArgFits'
    <3>1. InsertOrdered(waiters[s], t, priority) \in Seq(Threads)
      BY <1>0, <2>1, InsertOrderedType DEF TypeOK, SemaTypes
    <3>2. SemaTypes'
      BY <1>0, <2>3, <3>1, Zenon DEF TypeOK, SemaTypes
    <3> QED
      BY <1>0, <2>1, <2>2, <2>3, <3>2, BlockType, CallType, Zenon
  <2>4. ASSUME value[s] > 0, value' = [value EXCEPT ![s] = @ - 1],
               IF s \in Locks THEN Call(t, "own", s) ELSE Return(t),
               UNCHANGED <<waiters, sched_vars>>
        PROVE  SchedTypes' /\ SemaTypes' /\ PlaceTypes' /\ ArgFits'
    <3>1. SemaTypes'
      BY <1>0, <2>1, <2>4 DEF TypeOK, SemaTypes
    <3>2. PlaceTypes' /\ ArgFits'
      BY <2>1, <2>2, <2>4, CallType DEF Return
    <3> QED
      BY UnchangedTypes, <2>4, <3>1, <3>2
  <2>5. SchedTypes' /\ SemaTypes' /\ PlaceTypes' /\ ArgFits'
    BY <1>4, <2>3, <2>4 DEF SemaDownLoop
  <2> QED
    BY UnchangedTypes, <1>0, <1>4, <2>5, Zenon DEF SemaDownLoop, TypeInv, TypeOK
<1>5. ASSUME NEW l \in Locks, LockAcquire(t, l) PROVE TypeInv'
  <2>1. "donate" \in Places /\ "down" \in Places
    BY Zenon DEF Places
  <2>2. PlaceTypes' /\ ArgFits'
    BY <1>5, <1>a, <2>1, CallType DEF LockAcquire
  <2> QED
    BY UnchangedTypes, <1>0, <1>5, <2>2 DEF LockAcquire, TypeInv, TypeOK
<1>6. ASSUME NEW l \in Locks, LockTryAcquire(t, l) PROVE TypeInv'
  <2>1. "own" \in Places
    BY Zenon DEF Places
  <2>2. PlaceTypes' /\ ArgFits'
    BY <1>6, <1>a, <2>1, CallType DEF LockTryAcquire
  <2>3. SemaTypes'
    BY <1>0, <1>6, <1>a DEF LockTryAcquire, TypeOK, SemaTypes
  <2> QED
    BY UnchangedTypes, <1>0, <1>6, <2>2, <2>3 DEF LockTryAcquire, TypeInv, TypeOK
<1>7. ASSUME NEW l \in Locks, LockRelease(t, l) PROVE TypeInv'
  <2>1. "rollback" \in Places
    BY DEF Places
  <2>2. PlaceTypes' /\ ArgFits'
    BY <1>7, <1>a, <2>1, CallType DEF LockRelease
  <2>3. holder' \in [Locks -> Threads \cup {NULL}]
    BY <1>0, <1>7, Zenon DEF LockRelease, TypeOK
  <2> QED
    BY UnchangedTypes, <1>0, <1>7, <2>2, <2>3 DEF LockRelease, TypeInv, TypeOK
<1>8. ASSUME PriorityDonation(t) PROVE TypeInv'
  <2> DEFINE l == arg[t]
             low == holder[l]
             waitsFor == [holded_by EXCEPT ![t] = l]
             elem == [lock |-> l, priority |-> priority[t], locked_thread |-> t]
  <2>1. l \in Locks
    BY <1>0, <1>8, Zenon DEF PriorityDonation, At, ArgFits
  <2>2. low \in Threads \cup {NULL}
    BY <1>0, <2>1, Zenon DEF TypeOK
  <2>3. elem \in LockElem
    BY <2>1, <1>b, Zenon DEF LockElem
  <2>4. waitsFor \in [Threads -> Locks \cup {NULL}]
    BY <1>0, <2>1, Zenon DEF TypeOK, DonationTypes
  <2>5. ASSUME panic' \in Faults, UNCHANGED <<donation_vars, pc>> PROVE TypeInv'
    BY UnchangedTypes, <1>0, <1>8, <2>5, Zenon
       DEF PriorityDonation, TypeInv, TypeOK, place_vars
  <2>6. ASSUME NEW donees, low # NULL,
               possessing_locks' = [possessing_locks EXCEPT ![low] = @ \cup {elem}],
               holded_by' = waitsFor,
               priority' = [u \in Threads |-> IF u \in donees THEN priority[t]
                                                               ELSE priority[u]],
               Goto(t, "down"), UNCHANGED <<original_priority, panic>>
        PROVE  TypeInv'
    <3>1. priority' \in [Threads -> Priorities]
      BY <1>0, <1>b, <2>6 DEF TypeOK, DonationTypes
    <3>2. possessing_locks' \in [Threads -> SUBSET LockElem]
      BY <1>0, <2>2, <2>3, <2>6, Zenon DEF TypeOK, DonationTypes
    <3>3. DonationTypes'
      BY <1>0, <2>4, <2>6, <3>1, <3>2, Zenon DEF TypeOK, DonationTypes
    <3>4. "down" \in Places /\ UNCHANGED arg
      BY <1>8, Zenon DEF PriorityDonation, Places
    <3>5. PlaceTypes' /\ ArgFits'
      BY <1>a, <2>1, <2>6, <3>4, GotoType, Zenon
    <3> QED
      BY UnchangedTypes, <1>0, <1>8, <2>6, <3>3, <3>5, Zenon
         DEF PriorityDonation, TypeInv, TypeOK
  <2> QED
    BY <1>8, <2>5, <2>6, Zenon DEF PriorityDonation, Faults
<1>9. ASSUME SetHolder(t) PROVE TypeInv'
  <2>1. arg[t] \in Locks /\ "run" \in Places
    BY <1>0, <1>9 DEF SetHolder, At, ArgFits, Places
  <2>2. holder' \in [Locks -> Threads \cup {NULL}]
    BY <1>0, <1>9, Zenon DEF SetHolder, TypeOK
  <2>3. PlaceTypes' /\ ArgFits'
    BY <1>9, <2>1, CallType DEF SetHolder, Return
  <2> QED
    BY UnchangedTypes, <1>0, <1>9, <2>2, <2>3 DEF SetHolder, TypeInv, TypeOK
<1>10. ASSUME PriorityRollback(t) PROVE TypeInv'
  <2> DEFINE kept == {e \in possessing_locks[t] : e.lock # arg[t]}
             restored == IF kept = {} THEN original_priority[t]
                                      ELSE Max({e.priority : e \in kept})
  <2>1. possessing_locks[t] \subseteq LockElem /\ original_priority[t] \in Priorities
    BY <1>0 DEF TypeOK, DonationTypes
  <2>2. kept # {} => Max({e.priority : e \in kept}) \in Priorities
    <3> SUFFICES ASSUME kept # {}
                 PROVE  Max({e.priority : e \in kept}) \in Priorities
      OBVIOUS
    <3>1. {e.priority : e \in kept} \subseteq Priorities
      BY <2>1 DEF LockElem
    <3>2. {e.priority : e \in kept} # {}
      BY Zenon
    <3> QED
      BY <3>1, <3>2, MaxInPriorities
  <2>3. restored \in Priorities
    BY <2>1, <2>2
  <2>4. ASSUME possessing_locks[t] = {} \/ waiters[arg[t]] = <<>> PROVE DonationTypes'
    BY UnchangedTypes, <1>10, <2>4, Zenon DEF PriorityRollback
  <2>5. ASSUME ~(possessing_locks[t] = {} \/ waiters[arg[t]] = <<>>)
        PROVE  DonationTypes'
    <3>1. /\ possessing_locks' = [possessing_locks EXCEPT ![t] = kept]
          /\ priority' = [priority EXCEPT ![t] = restored]
          /\ UNCHANGED original_priority
      BY <1>10, <2>5 DEF PriorityRollback
    <3>2. holded_by' = [u \in Threads |->
                          IF \E e \in possessing_locks[t] \ kept : e.locked_thread = u
                          THEN NULL ELSE holded_by[u]]
      BY <1>10, <2>5, Zenon DEF PriorityRollback
    <3>3. holded_by' \in [Threads -> Locks \cup {NULL}]
      BY <1>0, <3>2, Zenon DEF TypeOK, DonationTypes
    <3>4. kept \in SUBSET LockElem
      BY <2>1, Zenon
    <3> HIDE DEF kept, restored
    <3> QED
      BY <1>0, <2>3, <3>1, <3>3, <3>4, Zenon DEF TypeOK, DonationTypes
  <2>6. arg[t] \in Locks /\ "up" \in Places
    BY <1>0, <1>10, Zenon DEF PriorityRollback, At, ArgFits, Places
  <2>7. PlaceTypes' /\ ArgFits'
    BY <1>10, <2>6, GotoType DEF PriorityRollback
  <2> QED
    BY UnchangedTypes, <1>0, <1>10, <2>4, <2>5, <2>7, Zenon
       DEF PriorityRollback, TypeInv, TypeOK
<1>11. ASSUME LockUp(t) PROVE TypeInv'
  <2>1. arg[t] \in AllSemas /\ "run" \in Places
    BY <1>0, <1>11, <1>a DEF LockUp, At, ArgFits, Places
  <2>2. PlaceTypes' /\ ArgFits'
    BY <1>11, <2>1, CallType DEF LockUp, Return
  <2>3. SchedTypes' /\ SemaTypes'
    BY <1>0, <1>11, <2>1, SemaUpType DEF LockUp
  <2> QED
    BY UnchangedTypes, <1>0, <1>11, <2>2, <2>3 DEF LockUp, TypeInv, TypeOK
<1>12. ASSUME NEW u \in Threads, NEW p \in Priorities, ThreadCreate(t, u, p)
       PROVE  TypeInv'
  <2>1. DonationTypes'
    BY <1>0, <1>12 DEF ThreadCreate, TypeOK, DonationTypes
  <2>2. SchedTypes'
    BY <1>0, <1>12, UnblockType DEF ThreadCreate
  <2> QED
    BY UnchangedTypes, <1>0, <1>12, <2>1, <2>2 DEF ThreadCreate, TypeInv, TypeOK
<1>13. ASSUME Yield(t) PROVE TypeInv'
  <2>1. SchedTypes'
    BY <1>0, <1>13, YieldType, Zenon DEF Yield, TypeOK, SchedTypes
  <2> QED
    BY UnchangedTypes, <1>0, <1>13, <2>1 DEF Yield, TypeInv, TypeOK
<1>14. ASSUME NEW p \in NewPriorities, ThreadSetPriority(t, p) PROVE TypeInv'
  <2> DEFINE pri == IF possessing_locks[t] # {} THEN priority
                    ELSE [priority EXCEPT ![t] = p]
  <2>1. p \in Priorities
    BY BoundsAssumption DEF Priorities
  <2>2. DonationTypes'
    BY <1>0, <1>14, <2>1, Zenon DEF ThreadSetPriority, TypeOK, DonationTypes
  <2>3. ThreadYield(status, ready_list, pri) \/ UNCHANGED sched_vars
    BY <1>14, Zenon DEF ThreadSetPriority
  <2> HIDE DEF pri
  <2>4. SchedTypes'
    BY UnchangedTypes, <1>0, <2>3, YieldType DEF TypeOK, SchedTypes
  <2> QED
    BY UnchangedTypes, <1>0, <1>14, <2>2, <2>4, Zenon DEF ThreadSetPriority, TypeInv, TypeOK
<1>15. ASSUME ThreadExit(t) PROVE TypeInv'
  <2>1. DonationTypes'
    BY <1>0, <1>15 DEF ThreadExit, TypeOK, DonationTypes
  <2>2. SchedTypes' /\ SemaTypes'
    BY <1>0, <1>15, <1>a, SemaUpType DEF ThreadExit
  <2>3. "exiting" \in Places
    BY DEF Places
  <2>4. PlaceTypes' /\ ArgFits'
    BY <1>15, <2>3, GotoType DEF ThreadExit
  <2> QED
    BY UnchangedTypes, <1>0, <1>15, <2>1, <2>2, <2>4 DEF ThreadExit, TypeInv, TypeOK
<1>16. ASSUME ThreadDie(t) PROVE TypeInv'
  <2>1. [status EXCEPT ![t] = "DYING"] \in [AllThreads -> Status]
    BY <1>0, Zenon DEF TypeOK, SchedTypes, Status
  <2>2. SchedTypes'
    BY <1>0, <1>16, <2>1, ScheduleType, Zenon DEF ThreadDie, TypeOK, SchedTypes
  <2> QED
    BY UnchangedTypes, <1>0, <1>16, <2>2 DEF ThreadDie, TypeInv, TypeOK
<1>17. ASSUME NEW n \in SleepTicks, TimerSleep(t, n) PROVE TypeInv'
  <2>1. TimeTypes'
    BY <1>0, <1>17, BoundsAssumption DEF TimerSleep, TypeOK, TimeTypes
  <2>2. "sleep" \in Places
    BY DEF Places
  <2>3. PlaceTypes' /\ ArgFits'
    BY <1>17, <2>2, GotoType DEF TimerSleep
  <2> QED
    BY UnchangedTypes, <1>0, <1>17, <2>1, <2>3 DEF TimerSleep, TypeInv, TypeOK
<1>18. ASSUME SleepBlock(t) PROVE TypeInv'
  <2>1. TimeTypes'
    BY <1>0, <1>18, InsertOrderedType DEF SleepBlock, TypeOK, TimeTypes
  <2>2. "run" \in Places
    BY DEF Places
  <2>3. PlaceTypes' /\ ArgFits'
    BY <1>18, <2>2, GotoType DEF SleepBlock
  <2>4. SchedTypes'
    BY <1>0, <1>18, BlockType DEF SleepBlock
  <2> QED
    BY UnchangedTypes, <1>0, <1>18, <2>1, <2>3, <2>4 DEF SleepBlock, TypeInv, TypeOK
<1> QED
  BY <1>1, <1>2, <1>3, <1>4, <1>5, <1>6, <1>7, <1>8, <1>9, <1>10, <1>11, <1>12,
     <1>13, <1>14, <1>15, <1>16, <1>17, <1>18 DEF ThreadStep

\* So do interrupts, their handlers and the idle thread.
LEMMA OtherStepType ==
  ASSUME TypeInv,
         \/ \E s \in Devices : DeviceInterrupt(s)
         \/ Idle \/ TimerInterrupt \/ HandlerStep \/ Halted
  PROVE  TypeInv'
<1>0. TypeOK /\ ArgFits
  BY DEF TypeInv
<1>1. ASSUME NEW s \in Devices, DeviceInterrupt(s) PROVE TypeInv'
  <2>1. s \in AllSemas
    BY Zenon DEF AllSemas
  <2>2. SchedTypes' /\ SemaTypes' /\ panic' \in Faults
    BY UnchangedTypes, <1>0, <1>1, <2>1, SemaUpType DEF DeviceInterrupt, TypeOK, Faults
  <2> QED
    BY UnchangedTypes, <1>0, <1>1, <2>2 DEF DeviceInterrupt, TypeInv, TypeOK
<1>2. ASSUME Idle PROVE TypeInv'
  <2>1. SchedTypes'
    BY <1>0, <1>2, BlockType DEF Idle
  <2> QED
    BY UnchangedTypes, <1>0, <1>2, <2>1 DEF Idle, TypeInv, TypeOK
<1>3. ASSUME TimerInterrupt PROVE TypeInv'
  <2>1. TimeTypes' /\ SchedTypes'
    BY <1>0, <1>3 DEF TimerInterrupt, TypeOK, TimeTypes, SchedTypes
  <2> QED
    BY UnchangedTypes, <1>0, <1>3, <2>1 DEF TimerInterrupt, TypeInv, TypeOK
<1>4. ASSUME WakeExpired PROVE TypeInv'
  <2>1. PICK i \in 1..Len(waiting_list) :
               /\ ready_list' = InsertOrdered(ready_list, waiting_list[i], priority)
               /\ status' = [status EXCEPT ![waiting_list[i]] = "READY"]
    BY <1>4, Zenon DEF WakeExpired
  <2>2. waiting_list \in Seq(Threads) /\ ready_list \in Seq(Threads)
    BY <1>0 DEF TypeOK, TimeTypes, SchedTypes
  <2>3. waiting_list[i] \in Threads /\ waiting_list # <<>>
    BY <2>2
  <2>4. SchedTypes'
    <3>1. ready_list' \in Seq(Threads)
      BY <2>1, <2>2, <2>3, InsertOrderedType
    <3> QED
      BY <1>0, <1>4, <2>1, <3>1, Zenon DEF WakeExpired, TypeOK, SchedTypes, Status
  <2>5. TimeTypes'
    BY <1>0, <1>4, <2>2, <2>3 DEF WakeExpired, TypeOK, TimeTypes
  <2> QED
    BY UnchangedTypes, <1>0, <1>4, <2>4, <2>5 DEF WakeExpired, TypeInv, TypeOK
<1>5. ASSUME InterruptReturn PROVE TypeInv'
  <2>1. SchedTypes'
    BY UnchangedTypes, <1>0, <1>5, YieldType DEF InterruptReturn, TypeOK, SchedTypes
  <2> QED
    BY UnchangedTypes, <1>0, <1>5, <2>1, Zenon DEF InterruptReturn, TypeInv, TypeOK
<1>6. ASSUME Halted PROVE TypeInv'
  BY UnchangedTypes, <1>0, <1>6 DEF Halted, vars, TypeInv, TypeOK
<1> QED
  BY <1>1, <1>2, <1>3, <1>4, <1>5, <1>6 DEF HandlerStep

\* Every step keeps the types.
LEMMA TypeStep == TypeInv /\ [Next]_vars => TypeInv'
<1> SUFFICES ASSUME TypeInv, [Next]_vars PROVE TypeInv'
  OBVIOUS
<1>1. CASE UNCHANGED vars
  BY <1>1, UnchangedTypes DEF vars, TypeInv, TypeOK
<1>2. CASE \E t \in Threads : ThreadStep(t)
  BY <1>2, ThreadStepType
<1>3. CASE ~UNCHANGED vars /\ ~\E t \in Threads : ThreadStep(t)
  BY <1>3, OtherStepType DEF Next
<1> QED
  BY <1>1, <1>2, <1>3

\* The state is always well typed: semaphore values never go below zero,
\* only locks are acquired and released, only priorities are donated.
THEOREM TypeCorrect == Spec => []TypeOK
<1>1. Spec => []TypeInv
  BY TypeInit, TypeStep, PTL DEF Spec
<1>2. TypeInv => TypeOK
  BY DEF TypeInv
<1> QED
  BY <1>1, <1>2, PTL

-----------------------------------------------------------------------------
(* Mutual exclusion.  MutualExclusion alone is not inductive: lock_release's *)
(* sema_up would make the value 1 while the thread could still be the     *)
(* holder.  TransitUnheld excludes that.                                   *)

LockInv == TypeInv /\ MutualExclusion /\ TransitUnheld

Transits == {"own", "rollback", "up"}

\* The locks' owners depend on their holders, their semaphores' values and the
\* threads in transit only.
LEMMA OwnersSame ==
  ASSUME LockInv, UNCHANGED holder, \A l \in Locks : value'[l] = value[l],
         \A t \in Threads, l \in Locks : InTransit(t, l)' <=> InTransit(t, l)
  PROVE  MutualExclusion' /\ TransitUnheld'
<1>1. \A t \in Threads, l \in Locks : Owns(t, l)' <=> Owns(t, l)
  BY Zenon DEF Owns
<1>2. MutualExclusion'
  BY <1>1, Zenon DEF LockInv, MutualExclusion
<1>3. TransitUnheld'
  BY DEF LockInv, TransitUnheld
<1> QED
  BY <1>2, <1>3

\* A thread that moves between places outside the transits changes no owner.
LEMMA MoveOutside ==
  ASSUME LockInv, UNCHANGED holder, \A l \in Locks : value'[l] = value[l],
         NEW t \in Threads, NEW p \in Places, Goto(t, p),
         pc[t] \notin Transits, p \notin Transits,
         \A u \in Threads \ {t} : arg'[u] = arg[u]
  PROVE  MutualExclusion' /\ TransitUnheld'
<1>1. \A u \in Threads : /\ u # t => pc'[u] = pc[u]
                         /\ u = t => pc'[u] = p
  BY DEF Goto, LockInv, TypeInv, TypeOK, PlaceTypes, AllThreads
<1>2. \A u \in Threads, l \in Locks : InTransit(u, l)' <=> InTransit(u, l)
  BY <1>1 DEF InTransit, Transits
<1> QED
  BY <1>2, OwnersSame

\* No thread moves.
LEMMA StayPut ==
  ASSUME LockInv, UNCHANGED holder, \A l \in Locks : value'[l] = value[l],
         UNCHANGED place_vars
  PROVE  MutualExclusion' /\ TransitUnheld'
<1>1. \A u \in Threads, l \in Locks : InTransit(u, l)' <=> InTransit(u, l)
  BY DEF InTransit, place_vars
<1> QED
  BY <1>1, OwnersSame

\* Upping a semaphore that is not a lock's.
LEMMA UpOther ==
  ASSUME TypeInv, NEW s, s \notin Locks, SemaUpBody(s)
  PROVE  \A l \in Locks : value'[l] = value[l]
BY DEF SemaUpBody, TypeInv, TypeOK, SemaTypes, AllSemas

\* Downing a lock's semaphore makes the thread the lock's only owner: the
\* value was 1, so there was none.
LEMMA TakeLock ==
  ASSUME LockInv, NEW t \in Threads, NEW l \in Locks, pc[t] \notin Transits,
         value[l] > 0, value' = [value EXCEPT ![l] = @ - 1],
         Call(t, "own", l), UNCHANGED holder
  PROVE  MutualExclusion' /\ TransitUnheld'
<1>1. \A u \in Threads : ~Owns(u, l)
  BY DEF LockInv, MutualExclusion
<1>2. /\ pc' = [pc EXCEPT ![t] = "own"] /\ arg' = [arg EXCEPT ![t] = l]
      /\ pc \in [AllThreads -> Places] /\ t \in AllThreads
      /\ arg \in [Threads -> AllSemas \cup {NULL}]
      /\ value \in [AllSemas -> Nat] /\ Locks \subseteq AllSemas
  BY DEF Call, Goto, LockInv, TypeInv, TypeOK, PlaceTypes, SemaTypes, AllThreads, AllSemas
<1>3. ASSUME NEW u \in Threads, NEW k \in Locks
      PROVE  InTransit(u, k)' <=> InTransit(u, k) \/ (u = t /\ k = l)
  BY <1>2 DEF InTransit, Transits, AllThreads
<1>4. holder[l] = NULL
  BY <1>1, Zenon DEF Owns, LockInv, TypeInv, TypeOK
<1>5. ASSUME NEW u \in Threads, NEW k \in Locks
      PROVE  Owns(u, k)' <=> Owns(u, k) \/ (u = t /\ k = l)
  BY <1>3 DEF Owns
<1>6. \A k \in Locks : value'[k] = IF k = l THEN 0 ELSE value[k]
  <2>1. value[l] = 1
    BY <1>1 DEF LockInv, MutualExclusion
  <2> QED
    BY <1>2, <2>1
<1>7. MutualExclusion'
  <2> SUFFICES ASSUME NEW k \in Locks
               PROVE  /\ \A u, v \in Threads : Owns(u, k)' /\ Owns(v, k)' => u = v
                      /\ value'[k] = IF \E u \in Threads : Owns(u, k)' THEN 0 ELSE 1
    BY DEF MutualExclusion
  <2>1. CASE k = l
    BY <1>1, <1>5, <1>6, <2>1
  <2>2. CASE k # l
    BY <1>5, <1>6, <2>2 DEF LockInv, MutualExclusion
  <2> QED
    BY <2>1, <2>2
<1>8. TransitUnheld'
  BY <1>3, <1>4 DEF TransitUnheld, LockInv
<1> QED
  BY <1>7, <1>8

\* lock_acquire's last statement turns the owner in transit into the holder.
LEMMA BecomeHolder ==
  ASSUME LockInv, TypeInv', NEW t \in Threads, SetHolder(t)
  PROVE  MutualExclusion' /\ TransitUnheld'
<1> DEFINE l == arg[t]
<1>1. l \in Locks /\ pc[t] = "own"
  BY DEF SetHolder, At, LockInv, TypeInv, ArgFits
<1>2. InTransit(t, l) /\ holder[l] = NULL
  BY <1>1 DEF InTransit, LockInv, TransitUnheld
<1>3. ASSUME NEW u \in Threads, NEW k \in Locks
      PROVE  /\ InTransit(u, k)' <=> InTransit(u, k) /\ u # t
             /\ holder'[k] = IF k = l THEN t ELSE holder[k]
  BY <1>1 DEF SetHolder, Return, Call, Goto, InTransit, LockInv, TypeInv, TypeOK,
              PlaceTypes, AllThreads
<1>4. \A u \in Threads : Owns(u, l) => u = t
  BY <1>1, <1>2 DEF Owns, LockInv, MutualExclusion
<1>5. \A k \in Locks : InTransit(t, k) => k = l
  BY DEF InTransit
<1>6. NULL \notin Threads
  BY ThreadsAssumption, Zenon
<1>7. ASSUME NEW u \in Threads, NEW k \in Locks
      PROVE  Owns(u, k)' <=> Owns(u, k)
  BY <1>2, <1>3, <1>4, <1>5, <1>6 DEF Owns
<1>8. MutualExclusion'
  BY <1>7 DEF MutualExclusion, LockInv, SetHolder, sema_vars
<1>9. TransitUnheld'
  BY <1>3, <1>4 DEF TransitUnheld, LockInv, Owns
<1> QED
  BY <1>8, <1>9, Zenon

\* lock_release's first statement turns the holder into an owner in transit.
LEMMA ReleaseHolder ==
  ASSUME LockInv, NEW t \in Threads, NEW l \in Locks, LockRelease(t, l)
  PROVE  MutualExclusion' /\ TransitUnheld'
<1>1. ASSUME NEW u \in Threads, NEW k \in Locks
      PROVE  /\ InTransit(u, k)' <=> InTransit(u, k) \/ (u = t /\ k = l)
             /\ holder'[k] = IF k = l THEN NULL ELSE holder[k]
  BY DEF LockRelease, At, Call, Goto, InTransit, LockInv, TypeInv, TypeOK,
         PlaceTypes, AllThreads
<1>2. holder[l] = t /\ NULL \notin Threads
  BY ThreadsAssumption DEF LockRelease
<1>3. ASSUME NEW u \in Threads, NEW k \in Locks
      PROVE  Owns(u, k)' <=> Owns(u, k)
  BY <1>1, <1>2 DEF Owns
<1>4. MutualExclusion'
  BY <1>3, Zenon DEF MutualExclusion, LockInv, LockRelease, sema_vars
<1>5. TransitUnheld'
  BY <1>1 DEF TransitUnheld, LockInv
<1> QED
  BY <1>4, <1>5

\* lock_release's sema_up leaves the lock without an owner, its value 1.
LEMMA GiveUp ==
  ASSUME LockInv, NEW t \in Threads, LockUp(t)
  PROVE  MutualExclusion' /\ TransitUnheld'
<1> DEFINE l == arg[t]
<1>1. l \in Locks /\ pc[t] = "up"
  BY DEF LockUp, At, LockInv, TypeInv, ArgFits
<1>2. InTransit(t, l) /\ holder[l] = NULL /\ UNCHANGED holder
  BY <1>1 DEF InTransit, LockInv, TransitUnheld, LockUp
<1>3. ASSUME NEW u \in Threads, NEW k \in Locks
      PROVE  InTransit(u, k)' <=> InTransit(u, k) /\ u # t
  BY <1>1 DEF LockUp, Return, Call, Goto, InTransit, LockInv, TypeInv, TypeOK,
              PlaceTypes, AllThreads
<1>4. \A u \in Threads : Owns(u, l) <=> u = t
  BY <1>1, <1>2 DEF Owns, LockInv, MutualExclusion
<1>5. \A k \in Locks : InTransit(t, k) => k = l
  BY DEF InTransit
<1>6. NULL \notin Threads
  BY ThreadsAssumption
<1>7. ASSUME NEW u \in Threads, NEW k \in Locks
      PROVE  Owns(u, k)' <=> Owns(u, k) /\ k # l
  BY <1>2, <1>3, <1>4, <1>5, <1>6 DEF Owns
<1>8. value[l] = 0
  BY <1>1, <1>4, Zenon DEF LockInv, MutualExclusion
<1>9. \A k \in Locks : value'[k] = IF k = l THEN 1 ELSE value[k]
  <2>1. value' = [value EXCEPT ![arg[t]] = value[arg[t]] + 1]
    BY DEF LockUp, SemaUpBody
  <2>2. value \in [AllSemas -> Nat]
    BY Zenon DEF LockInv, TypeInv, TypeOK, SemaTypes
  <2>3. \A k \in Locks : k \in AllSemas
    BY Zenon DEF AllSemas
  <2> QED
    BY <1>1, <1>8, <2>1, <2>2, <2>3
<1>10. MutualExclusion'
  BY <1>7, <1>9, Zenon DEF MutualExclusion, LockInv
<1>11. TransitUnheld'
  BY <1>2, <1>3, Zenon DEF TransitUnheld, LockInv
<1> QED
  BY <1>10, <1>11, Zenon

\* Every step of a thread keeps mutual exclusion.
LEMMA ThreadStepLocks ==
  ASSUME LockInv, TypeInv', NEW t \in Threads, ThreadStep(t)
  PROVE  MutualExclusion' /\ TransitUnheld'
<1>0. TypeInv /\ TypeOK /\ ArgFits
  BY DEF LockInv, TypeInv
<1>a. /\ \A s \in Semas \cup Devices \cup Threads : s \notin Locks
      /\ value \in [AllSemas -> Nat] /\ Locks \subseteq AllSemas
  BY <1>0, ThreadsAssumption DEF TypeOK, SemaTypes, AllSemas
<1>b. \A p \in {"run", "donate", "down", "woken", "sleep", "exiting"} :
         p \in Places /\ p \notin Transits
  BY DEF Places, Transits
<1>c. \A p, a : Call(t, p, a) => /\ Goto(t, p)
                                /\ \A u \in Threads \ {t} : arg'[u] = arg[u]
  BY <1>0 DEF Call, TypeOK, PlaceTypes
<1>1. ASSUME NEW s \in Semas, SemaUp(t, s) \/ SemaTryDown(t, s)
      PROVE  MutualExclusion' /\ TransitUnheld'
  <2>1. \A l \in Locks : value'[l] = value[l]
    BY <1>0, <1>1, <1>a, UpOther DEF SemaUp, SemaTryDown
  <2>2. UNCHANGED holder /\ UNCHANGED place_vars
    BY <1>1, Zenon DEF SemaUp, SemaTryDown
  <2> QED
    BY <2>1, <2>2, StayPut
<1>2. ASSUME NEW s \in Semas \cup Devices \cup Threads, SemaDown(t, s)
      PROVE  MutualExclusion' /\ TransitUnheld'
  BY <1>2, <1>b, <1>c, MoveOutside DEF SemaDown, At, sema_vars
<1>3. ASSUME SemaDownLoop(t) PROVE MutualExclusion' /\ TransitUnheld'
  <2>1. pc[t] \notin Transits /\ UNCHANGED holder /\ arg[t] \in AllSemas
    BY <1>0, <1>3, Zenon DEF SemaDownLoop, At, Transits, ArgFits
  <2>2. CASE value[arg[t]] = 0
    <3>1. Call(t, "woken", arg[t]) /\ UNCHANGED value
      BY <1>3, <2>2 DEF SemaDownLoop
    <3> QED
      BY <1>b, <1>c, <2>1, <3>1, MoveOutside, Zenon
  <2>3. CASE value[arg[t]] > 0 /\ arg[t] \in Locks
    <3>1. value' = [value EXCEPT ![arg[t]] = @ - 1] /\ Call(t, "own", arg[t])
      BY <1>3, <2>3 DEF SemaDownLoop
    <3> QED
      BY <2>1, <2>3, <3>1, TakeLock, Zenon
  <2>4. CASE value[arg[t]] > 0 /\ arg[t] \notin Locks
    <3>1. Return(t) /\ value' = [value EXCEPT ![arg[t]] = value[arg[t]] - 1]
      BY <1>3, <2>4 DEF SemaDownLoop
    <3>2. \A l \in Locks : value'[l] = value[l]
      BY <1>a, <2>4, <3>1
    <3> QED
      BY <1>b, <1>c, <2>1, <3>1, <3>2, MoveOutside, Zenon DEF Return
  <2> QED
    BY <1>a, <2>1, <2>2, <2>3, <2>4
<1>4. ASSUME NEW l \in Locks, LockAcquire(t, l) PROVE MutualExclusion' /\ TransitUnheld'
  BY <1>4, <1>b, <1>c, MoveOutside DEF LockAcquire, At, sema_vars
<1>5. ASSUME NEW l \in Locks, LockTryAcquire(t, l)
      PROVE  MutualExclusion' /\ TransitUnheld'
  BY <1>5, <1>b, TakeLock, Zenon DEF LockTryAcquire, At
<1>6. ASSUME NEW l \in Locks, LockRelease(t, l) PROVE MutualExclusion' /\ TransitUnheld'
  BY <1>6, ReleaseHolder
<1>7. ASSUME PriorityDonation(t) PROVE MutualExclusion' /\ TransitUnheld'
  <2>1. pc[t] = "donate" /\ UNCHANGED <<holder, value, arg>>
    BY <1>7, Zenon DEF PriorityDonation, At, sema_vars
  <2>2. CASE UNCHANGED pc
    BY <2>1, <2>2, StayPut, Zenon DEF place_vars
  <2>3. CASE Goto(t, "down")
    BY <1>b, <2>1, <2>3, MoveOutside, Zenon
  <2> QED
    BY <1>7, <2>2, <2>3, Zenon DEF PriorityDonation
<1>8. ASSUME SetHolder(t) PROVE MutualExclusion' /\ TransitUnheld'
  BY <1>8, BecomeHolder
<1>9. ASSUME PriorityRollback(t) PROVE MutualExclusion' /\ TransitUnheld'
  <2>1. pc[t] = "rollback" /\ Goto(t, "up") /\ UNCHANGED <<holder, value, arg>>
    BY <1>9 DEF PriorityRollback, At, sema_vars
  <2>2. \A u \in Threads, l \in Locks : InTransit(u, l)' <=> InTransit(u, l)
    BY <1>0, <2>1 DEF Goto, InTransit, TypeOK, PlaceTypes, AllThreads
  <2> QED
    BY <2>1, <2>2, OwnersSame, Zenon
<1>10. ASSUME LockUp(t) PROVE MutualExclusion' /\ TransitUnheld'
  BY <1>10, GiveUp
<1>11. ASSUME NEW u \in Threads, NEW p \in Priorities, ThreadCreate(t, u, p)
       PROVE  MutualExclusion' /\ TransitUnheld'
  BY <1>11, StayPut DEF ThreadCreate, sema_vars
<1>12. ASSUME Yield(t) \/ ThreadDie(t) PROVE MutualExclusion' /\ TransitUnheld'
  BY <1>12, StayPut, Zenon DEF Yield, ThreadDie, sema_vars
<1>13. ASSUME NEW p \in NewPriorities, ThreadSetPriority(t, p)
       PROVE  MutualExclusion' /\ TransitUnheld'
  BY <1>13, StayPut, Zenon DEF ThreadSetPriority, sema_vars
<1>14. ASSUME ThreadExit(t) PROVE MutualExclusion' /\ TransitUnheld'
  <2>1. \A l \in Locks : value'[l] = value[l]
    BY <1>0, <1>14, <1>a, UpOther, Zenon DEF ThreadExit
  <2>2. /\ UNCHANGED holder /\ Goto(t, "exiting") /\ pc[t] = "run" /\ UNCHANGED arg
    BY <1>14, Zenon DEF ThreadExit, At
  <2> QED
    BY <1>b, <2>1, <2>2, MoveOutside, Zenon
<1>15. ASSUME NEW n \in SleepTicks, TimerSleep(t, n)
       PROVE  MutualExclusion' /\ TransitUnheld'
  BY <1>15, <1>b, MoveOutside, Zenon DEF TimerSleep, At, sema_vars
<1>16. ASSUME SleepBlock(t) PROVE MutualExclusion' /\ TransitUnheld'
  BY <1>16, <1>b, MoveOutside DEF SleepBlock, At, sema_vars
<1> QED
  BY <1>1, <1>2, <1>3, <1>4, <1>5, <1>6, <1>7, <1>8, <1>9, <1>10, <1>11, <1>12,
     <1>13, <1>14, <1>15, <1>16 DEF ThreadStep

\* So do interrupts, their handlers and the idle thread.
LEMMA OtherStepLocks ==
  ASSUME LockInv,
         \/ \E s \in Devices : DeviceInterrupt(s)
         \/ Idle \/ TimerInterrupt \/ HandlerStep \/ Halted
  PROVE  MutualExclusion' /\ TransitUnheld'
<1>1. ASSUME NEW s \in Devices, DeviceInterrupt(s)
      PROVE  MutualExclusion' /\ TransitUnheld'
  <2>1. TypeInv /\ s \notin Locks
    BY ThreadsAssumption DEF LockInv
  <2>2. \A l \in Locks : value'[l] = value[l]
    BY <1>1, <2>1, UpOther DEF DeviceInterrupt, sema_vars
  <2> QED
    BY <1>1, <2>2, StayPut DEF DeviceInterrupt
<1>2. CASE Idle \/ TimerInterrupt \/ HandlerStep \/ Halted
  <2>1. UNCHANGED <<holder, value, place_vars>>
    BY <1>2 DEF Idle, TimerInterrupt, HandlerStep, WakeExpired, InterruptReturn,
                Halted, vars, sema_vars
  <2> QED
    BY <2>1, StayPut, Zenon
<1> QED
  BY <1>1, <1>2

\* Every step keeps mutual exclusion.
LEMMA LockStep == LockInv /\ [Next]_vars => LockInv'
<1> SUFFICES ASSUME LockInv, [Next]_vars PROVE LockInv'
  OBVIOUS
<1>1. TypeInv'
  BY TypeStep DEF LockInv
<1>2. CASE UNCHANGED vars
  BY <1>1, <1>2, StayPut DEF vars, sema_vars, LockInv
<1>3. CASE \E t \in Threads : ThreadStep(t)
  BY <1>1, <1>3, ThreadStepLocks DEF LockInv
<1>4. CASE ~UNCHANGED vars /\ ~\E t \in Threads : ThreadStep(t)
  BY <1>1, <1>4, OtherStepLocks DEF Next, LockInv
<1> QED
  BY <1>2, <1>3, <1>4

\* No lock has an owner at first.
LEMMA LockInit == Init => LockInv
<1> SUFFICES ASSUME Init PROVE LockInv
  OBVIOUS
<1>1. \A t \in Threads, l \in Locks : ~InTransit(t, l) /\ ~Owns(t, l) /\ value[l] = 1
  BY ThreadsAssumption DEF Init, InTransit, Owns, AllThreads, AllSemas
<1>2. \A l \in Locks : value[l] = 1
  BY DEF Init, AllSemas
<1> QED
  BY <1>1, <1>2, TypeInit DEF LockInv, MutualExclusion, TransitUnheld

\* Two threads never own one lock, and its semaphore is 1 exactly while
\* nobody does: lock_acquire, lock_try_acquire and lock_release exclude each
\* other however they are preempted, for any number of threads and locks.
THEOREM LocksExclude == Spec => []MutualExclusion
<1>1. Spec => []LockInv
  BY LockInit, LockStep, PTL DEF Spec
<1>2. LockInv => MutualExclusion
  BY DEF LockInv
<1> QED
  BY <1>1, <1>2, PTL

-----------------------------------------------------------------------------
(* Donation.  Without timer interrupts a thread inside lock_acquire or     *)
(* lock_release stays on the processor until it blocks or returns, and     *)
(* what lock_acquire gave is there for lock_release to take back.          *)

\* Where a thread may be that is not on the processor.
Settled == {"run", "woken", "exiting"}
Undisturbed == \A t \in Threads : t # current => pc[t] \in Settled

\* Some thread waits for l, or is about to.
Wanted(l) == waiters[l] # <<>> \/ \E w \in Threads : pc[w] = "down" /\ arg[w] = l

\* Who was given something for a lock has the lock, or is just giving it back,
\* and somebody wants it: priority_rollback will not return early.
Backed ==
  \A u \in Threads : \A e \in possessing_locks[u] :
    /\ holder[e.lock] = u \/ (pc[u] = "rollback" /\ arg[u] = e.lock)
    /\ Wanted(e.lock)

\* A donor is on record where its holded_by points.
Owed ==
  \A m \in Threads : holded_by[m] # NULL =>
    \E u \in Threads : \E e \in possessing_locks[u] :
      e.lock = holded_by[m] /\ e.locked_thread = m

\* Whoever was given nothing has the priority of its own.
OwnPriority ==
  \A u \in Threads : possessing_locks[u] = {} => priority[u] = original_priority[u]

Gifts == Undisturbed /\ Backed /\ Owed /\ OwnPriority
DonationInv == LockInv /\ Gifts

\* Something was given for l.
Given(l) == \E u \in Threads : \E e \in possessing_locks[u] : e.lock = l

\* f is the walk of nested_donation over k threads from low on.
Walk(f, k, low, waits, hold) ==
  f = [n \in 0..k |-> IF n = 0 THEN low
                      ELSE IF f[n - 1] = NULL THEN NULL
                      ELSE IF waits[f[n - 1]] = NULL THEN NULL
                      ELSE hold[waits[f[n - 1]]]]

\* There is one, of any length.
LEMMA WalkExists ==
  ASSUME NEW low, NEW waits, NEW hold, NEW N \in Nat
  PROVE  \E f : Walk(f, N, low, waits, hold)
<1> DEFINE Bad == {k \in Nat : ~\E f : Walk(f, k, low, waits, hold)}
<1> SUFFICES ASSUME Bad # {} PROVE FALSE
  OBVIOUS
<1>1. PICK k \in Bad : \A j \in Bad : k <= j
  <2>1. Bad \subseteq Nat
    OBVIOUS
  <2> HIDE DEF Bad
  <2> QED
    BY <2>1, MinInSet, Zenon
<1>2. k # 0
  <2>1. SUFFICES ASSUME k = 0 PROVE FALSE
    OBVIOUS
  <2>2. PICK f : f = [n \in 0..0 |-> low]
    BY Zenon
  <2>3. Walk(f, 0, low, waits, hold)
    BY <2>2 DEF Walk
  <2> QED
    BY <2>1, <2>3
<1>a. k \in Nat
  OBVIOUS
<1>3. k - 1 \in Nat /\ k - 1 \notin Bad
  <2>1. k \in Nat
    OBVIOUS
  <2> HIDE DEF Bad
  <2> QED
    BY <1>1, <1>2, <2>1
<1>4. PICK f : Walk(f, k - 1, low, waits, hold)
  BY <1>3
<1>5. PICK last : last = IF f[k - 1] = NULL THEN NULL
                         ELSE IF waits[f[k - 1]] = NULL THEN NULL
                         ELSE hold[waits[f[k - 1]]]
  OBVIOUS
<1>6. PICK g : g = [n \in 0..k |-> IF n = k THEN last ELSE f[n]]
  BY Zenon
<1>7. \A n \in 0..(k - 1) : g[n] = f[n]
  BY <1>3, <1>6
<1>8. ASSUME NEW n \in 0..k
      PROVE  g[n] = IF n = 0 THEN low
                    ELSE IF g[n - 1] = NULL THEN NULL
                    ELSE IF waits[g[n - 1]] = NULL THEN NULL
                    ELSE hold[waits[g[n - 1]]]
  <2> HIDE DEF Bad
  <2>1. CASE n = k
    <3>1. g[n] = last /\ g[n - 1] = f[k - 1]
      <4>1. k \in 0..k /\ k - 1 \in 0..(k - 1)
        BY <1>a, <1>2
      <4>2. g[k] = last
        BY <1>6, <4>1
      <4>3. g[k - 1] = f[k - 1]
        BY <1>7, <4>1, Zenon
      <4> QED
        BY <2>1, <4>2, <4>3, Zenon
    <3> QED
      BY <1>2, <1>5, <2>1, <3>1
  <2>2. CASE n # k
    <3>1. n \in 0..(k - 1) /\ (n # 0 => n - 1 \in 0..(k - 1))
      BY <1>a, <2>2
    <3>2. g[n] = f[n] /\ (n # 0 => g[n - 1] = f[n - 1])
      BY <1>7, <3>1, Zenon
    <3> QED
      BY <1>4, <3>1, <3>2, Zenon DEF Walk
  <2> QED
    BY <2>1, <2>2
<1>9. Walk(g, k, low, waits, hold)
  BY <1>6, <1>8 DEF Walk
<1> QED
  BY <1>1, <1>9

\* So NestedDonation is that walk.
LEMMA NestedIs ==
  ASSUME Cardinality(Threads) \in Nat, NEW low, NEW waits
  PROVE  \E f : /\ f = NestedDonation(low, waits)
                /\ Walk(f, Cardinality(Threads), low, waits, holder)
<1>1. \E f : Walk(f, Cardinality(Threads), low, waits, holder)
  <2>1. PICK N \in Nat : N = Cardinality(Threads)
    OBVIOUS
  <2>2. PICK hold : hold = holder
    OBVIOUS
  <2> QED
    BY <2>1, <2>2, WalkExists
<1>2. PICK g : g = NestedDonation(low, waits)
  OBVIOUS
<1>3. g = CHOOSE f : Walk(f, Cardinality(Threads), low, waits, holder)
  BY <1>2 DEF NestedDonation, Walk
<1>4. Walk(g, Cardinality(Threads), low, waits, holder)
  BY <1>1, <1>3
<1> QED
  BY <1>2, <1>4

\* Whom the walk visits: threads, each of them low or the holder of a lock that
\* is recorded as waited for.
LEMMA Visited ==
  ASSUME NEW f, NEW N \in Nat, NEW low \in Threads \cup {NULL},
         NEW waits \in [Threads -> Locks \cup {NULL}],
         NEW hold \in [Locks -> Threads \cup {NULL}],
         Walk(f, N, low, waits, hold), NEW u \in Range(f), u # NULL
  PROVE  /\ u \in Threads
         /\ u = low \/ \E m \in Threads : waits[m] # NULL /\ u = hold[waits[m]]
<1> DEFINE Bad == {n \in 0..N : f[n] \notin Threads \cup {NULL}}
<1>1. DOMAIN f = 0..N /\ f[0] = low
  BY DEF Walk
<1>2. ASSUME NEW n \in 1..N, f[n - 1] \in Threads \cup {NULL}
      PROVE  /\ f[n] \in Threads \cup {NULL}
             /\ f[n] # NULL => /\ f[n - 1] \in Threads /\ waits[f[n - 1]] # NULL
                               /\ f[n] = hold[waits[f[n - 1]]]
  <2>1. f[n] = IF f[n - 1] = NULL THEN NULL
               ELSE IF waits[f[n - 1]] = NULL THEN NULL
               ELSE hold[waits[f[n - 1]]]
    <3>1. n \in 0..N /\ n # 0
      OBVIOUS
    <3> QED
      BY <3>1, Zenon DEF Walk
  <2> QED
    BY <1>2, <2>1
<1>3. Bad = {}
  <2>1. SUFFICES ASSUME Bad # {} PROVE FALSE
    OBVIOUS
  <2>2. PICK k \in Bad : \A j \in Bad : k <= j
    <3>1. Bad \subseteq Nat
      OBVIOUS
    <3> HIDE DEF Bad
    <3> QED
      BY <2>1, <3>1, MinInSet, Zenon
  <2>3. k \in 1..N
    BY <1>1
  <2>4. k - 1 \in 0..N /\ ~(k <= k - 1)
    BY <2>3
  <2>5. f[k - 1] \in Threads \cup {NULL}
    BY <2>2, <2>4
  <2> QED
    BY <1>2, <2>3, <2>5
<1>4. PICK n \in 0..N : u = f[n]
  BY <1>1 DEF Range
<1>5. CASE n = 0
  BY <1>1, <1>4, <1>5, Zenon
<1>6. CASE n # 0
  <2>1. n \in 1..N /\ n - 1 \in 0..N
    BY <1>6
  <2>2. f[n - 1] \in Threads \cup {NULL}
    BY <1>3, <2>1
  <2> QED
    BY <1>2, <1>4, <2>1, <2>2
<1> QED
  BY <1>5, <1>6

-----------------------------------------------------------------------------

\* A thread that runs on does not disturb the others.
LEMMA RunsOn ==
  ASSUME Undisturbed, \A u \in Threads : u # current => pc'[u] = pc[u],
         current' = current \/ pc'[current] \in Settled
  PROVE  Undisturbed'
<1> SUFFICES ASSUME NEW u \in Threads, u # current' PROVE pc'[u] \in Settled
  BY DEF Undisturbed, Settled
<1>1. CASE u = current
  BY <1>1
<1>2. CASE u # current
  BY <1>2 DEF Undisturbed
<1> QED
  BY <1>1, <1>2

\* A step that gives nothing, outside priority_rollback and the call of sema_down,
\* keeps all of it if the locks something was given for are still wanted.
LEMMA PlainStep ==
  ASSUME Gifts, UNCHANGED <<possessing_locks, holded_by, holder>>, OwnPriority',
         pc[current] \notin {"rollback", "down"},
         \A u \in Threads : u # current => pc'[u] = pc[u],
         current' = current \/ pc'[current] \in Settled,
         \A l \in Locks : Given(l) /\ waiters[l] # <<>> => waiters'[l] # <<>>,
         possessing_locks \in [Threads -> SUBSET LockElem]
  PROVE  Gifts'
<1>1. Undisturbed'
  BY RunsOn DEF Gifts
<1>2. \A u \in Threads : pc[u] \notin {"rollback", "down"}
  BY DEF Gifts, Undisturbed, Settled
<1>3. Backed'
  <2> SUFFICES ASSUME NEW u \in Threads, NEW e \in possessing_locks[u]
               PROVE  holder[e.lock] = u /\ waiters'[e.lock] # <<>>
    BY DEF Backed, Wanted
  <2>1. holder[e.lock] = u /\ waiters[e.lock] # <<>>
    <3>1. \A v \in Threads : pc[v] # "rollback" /\ pc[v] # "down"
      BY <1>2, Zenon
    <3>2. /\ holder[e.lock] = u \/ pc[u] = "rollback"
          /\ Wanted(e.lock)
      BY Zenon DEF Gifts, Backed
    <3> QED
      BY <3>1, <3>2, Zenon DEF Wanted
  <2>2. e.lock \in Locks
    BY DEF LockElem
  <2>3. Given(e.lock)
    BY DEF Given
  <2> QED
    BY <2>1, <2>2, <2>3
<1>4. Owed'
  BY DEF Gifts, Owed
<1> QED
  BY <1>1, <1>3, <1>4 DEF Gifts

\* What nobody changes.
LEMMA SameGifts ==
  ASSUME Gifts, UNCHANGED <<donation_vars, holder, current, pc, arg>>,
         \A l \in Locks : waiters'[l] = waiters[l],
         possessing_locks \in [Threads -> SUBSET LockElem]
  PROVE  Gifts'
<1>1. UNCHANGED <<priority, original_priority, possessing_locks, holded_by>>
  BY DEF donation_vars
<1>2. Undisturbed'
  BY DEF Gifts, Undisturbed
<1>3. Backed'
  <2> SUFFICES ASSUME NEW u \in Threads, NEW e \in possessing_locks[u]
               PROVE  /\ holder[e.lock] = u \/ (pc[u] = "rollback" /\ arg[u] = e.lock)
                      /\ Wanted(e.lock)'
    BY <1>1, Zenon DEF Backed
  <2>1. /\ holder[e.lock] = u \/ (pc[u] = "rollback" /\ arg[u] = e.lock)
        /\ Wanted(e.lock)
    BY DEF Gifts, Backed
  <2>2. e.lock \in Locks
    BY DEF LockElem
  <2> QED
    BY <2>1, <2>2, Zenon DEF Wanted
<1>4. Owed' /\ OwnPriority'
  BY <1>1 DEF Gifts, Owed, OwnPriority
<1> QED
  BY <1>2, <1>3, <1>4 DEF Gifts

\* lock_acquire's call of priority_donation: whoever the walk meets has been given
\* something before, or is given something now.
LEMMA DonationGifts ==
  ASSUME DonationInv, Cardinality(Threads) \in Nat, NEW t \in Threads, PriorityDonation(t)
  PROVE  Gifts'
<1>1. /\ TypeOK /\ Gifts /\ current = t /\ pc[t] = "donate" /\ arg[t] \in Locks
  BY Zenon DEF DonationInv, LockInv, TypeInv, ArgFits, PriorityDonation, At
<1>2. /\ priority \in [Threads -> Priorities] /\ holded_by \in [Threads -> Locks \cup {NULL}]
      /\ possessing_locks \in [Threads -> SUBSET LockElem]
      /\ holder \in [Locks -> Threads \cup {NULL}]
      /\ pc \in [AllThreads -> Places] /\ t \in AllThreads
  BY <1>1, Zenon DEF TypeOK, DonationTypes, PlaceTypes, AllThreads
<1>3. UNCHANGED <<holder, arg, current, waiters>>
  BY Zenon DEF PriorityDonation, sched_vars, sema_vars
<1>4. CASE UNCHANGED <<donation_vars, pc>>
  BY <1>1, <1>2, <1>3, <1>4, SameGifts, Zenon
<1>5. CASE ~UNCHANGED <<donation_vars, pc>>
  <2>1. PICK l : l = arg[t]
    OBVIOUS
  <2>2. PICK low : low = holder[l]
    OBVIOUS
  <2>3. PICK waits : waits = [holded_by EXCEPT ![t] = l]
    BY Zenon
  <2>4. PICK f : /\ f = NestedDonation(low, waits)
                 /\ Walk(f, Cardinality(Threads), low, waits, holder)
    BY NestedIs
  <2>5. PICK e : e = [lock |-> l, priority |-> priority[t], locked_thread |-> t]
    BY Zenon
  <2>6. /\ low # NULL /\ holded_by' = waits /\ Goto(t, "down") /\ UNCHANGED original_priority
        /\ possessing_locks' = [possessing_locks EXCEPT ![low] = possessing_locks[low] \cup {e}]
        /\ priority' = [u \in Threads |-> IF u \in Range(f) \ {NULL} THEN priority[t]
                                          ELSE priority[u]]
    BY <1>5, <2>1, <2>2, <2>3, <2>4, <2>5, Zenon DEF PriorityDonation
  <2>7. l \in Locks /\ low \in Threads
    BY <1>1, <1>2, <2>1, <2>2, <2>6, Zenon
  <2>8. /\ \A u \in Threads : pc'[u] = IF u = t THEN "down" ELSE pc[u]
        /\ \A u \in Threads : possessing_locks'[u] = IF u = low THEN possessing_locks[u] \cup {e}
                                                     ELSE possessing_locks[u]
        /\ \A u \in Threads : holded_by'[u] = IF u = t THEN l ELSE holded_by[u]
    BY <1>2, <2>3, <2>6, <2>7, Zenon DEF Goto, AllThreads
  <2>9. e.lock = l /\ e.locked_thread = t
    BY <2>5, Zenon
  <2>10. Undisturbed'
    BY <1>1, <1>3, <2>8, RunsOn, Zenon DEF Gifts
  <2>11. \A u \in Threads : \A x \in possessing_locks[u] :
           holder[x.lock] = u /\ waiters[x.lock] # <<>>
    <3>1. \A u \in Threads : pc[u] \notin {"rollback", "down"}
      BY <1>1 DEF Gifts, Undisturbed, Settled
    <3> QED
      BY <1>1, <3>1 DEF Gifts, Backed, Wanted
  <2>12. Backed'
    <3>1. Wanted(l)'
      BY <1>3, <2>1, <2>8 DEF Wanted
    <3> SUFFICES ASSUME NEW u \in Threads, NEW x \in possessing_locks'[u]
                 PROVE  holder[x.lock] = u /\ Wanted(x.lock)'
      BY <1>3 DEF Backed
    <3>2. CASE x \in possessing_locks[u]
      BY <1>3, <2>11, <3>2, Zenon DEF Wanted
    <3>3. CASE x \notin possessing_locks[u]
      <4>1. u = low /\ x = e
        BY <2>8, <3>3, Zenon
      <4> QED
        BY <2>2, <2>9, <3>1, <4>1
    <3> QED
      BY <3>2, <3>3
  <2>13. Owed'
    <3> SUFFICES ASSUME NEW m \in Threads, holded_by'[m] # NULL
                 PROVE  \E u \in Threads : \E x \in possessing_locks'[u] :
                          x.lock = holded_by'[m] /\ x.locked_thread = m
      BY DEF Owed
    <3>1. CASE m = t
      BY <2>7, <2>8, <2>9, <3>1, Zenon
    <3>2. CASE m # t
      <4>1. holded_by'[m] = holded_by[m]
        BY <2>8, <3>2
      <4>2. PICK u \in Threads : \E x \in possessing_locks[u] :
                                   x.lock = holded_by[m] /\ x.locked_thread = m
        BY <1>1, <4>1, Zenon DEF Gifts, Owed
      <4>3. possessing_locks[u] \subseteq possessing_locks'[u]
        BY <2>8, Zenon
      <4> QED
        BY <4>1, <4>2, <4>3
    <3> QED
      BY <3>1, <3>2
  <2>14. OwnPriority'
    <3> SUFFICES ASSUME NEW u \in Threads, possessing_locks'[u] = {}
                 PROVE  priority'[u] = original_priority[u]
      BY <2>6 DEF OwnPriority
    <3>1. u # low /\ possessing_locks[u] = {}
      BY <2>8, Zenon
    <3>2. u \notin Range(f) \ {NULL}
      <4>1. SUFFICES ASSUME u \in Range(f) \ {NULL} PROVE FALSE
        BY Zenon
      <4>2. waits \in [Threads -> Locks \cup {NULL}]
        BY <1>2, <2>3, <2>7, Zenon
      <4>3. PICK N \in Nat : N = Cardinality(Threads)
        BY Zenon
      <4>4. PICK hold \in [Locks -> Threads \cup {NULL}] : hold = holder
        BY <1>2, Zenon
      <4>5. Walk(f, N, low, waits, hold) /\ low \in Threads \cup {NULL}
        BY <2>4, <2>7, <4>3, <4>4, Zenon
      <4>6. PICK m \in Threads : waits[m] # NULL /\ u = hold[waits[m]]
        BY <3>1, <4>1, <4>2, <4>5, Visited
      <4>7. m # t
        BY <1>2, <2>2, <2>3, <3>1, <4>4, <4>6, Zenon
      <4>8. waits[m] = holded_by[m]
        BY <1>2, <2>3, <4>7
      <4>9. PICK v \in Threads : \E x \in possessing_locks[v] :
                                   x.lock = holded_by[m] /\ x.locked_thread = m
        BY <1>1, <4>6, <4>8, Zenon DEF Gifts, Owed
      <4>10. holder[holded_by[m]] = v
        BY <2>11, <4>9
      <4> QED
        BY <3>1, <4>4, <4>6, <4>8, <4>9, <4>10, Zenon
    <3>3. priority'[u] = priority[u]
      BY <2>6, <3>2
    <3> QED
      BY <1>1, <3>1, <3>3, Zenon DEF Gifts, OwnPriority
  <2> QED
    BY <2>10, <2>12, <2>13, <2>14 DEF Gifts
<1> QED
  BY <1>4, <1>5, Zenon

\* priority_rollback takes back what was given for the lock, or returns early, when
\* nothing was.
LEMMA RollbackGifts ==
  ASSUME DonationInv, NEW t \in Threads, PriorityRollback(t)
  PROVE  Gifts'
<1>1. PICK l : l = arg[t]
  OBVIOUS
<1>2. PICK kept : kept = {e \in possessing_locks[t] : e.lock # l}
  BY Zenon
<1>3. /\ TypeOK /\ Gifts /\ TransitUnheld /\ current = t /\ pc[t] = "rollback" /\ l \in Locks
  BY <1>1, Zenon DEF DonationInv, LockInv, TypeInv, ArgFits, PriorityRollback, At
<1>4. /\ possessing_locks \in [Threads -> SUBSET LockElem]
      /\ priority \in [Threads -> Priorities] /\ holded_by \in [Threads -> Locks \cup {NULL}]
      /\ pc \in [AllThreads -> Places] /\ t \in AllThreads
  BY <1>3, Zenon DEF TypeOK, DonationTypes, PlaceTypes, AllThreads
<1>5. UNCHANGED <<holder, arg, current, waiters>> /\ Goto(t, "up")
  BY Zenon DEF PriorityRollback, sched_vars, sema_vars
<1>6. \A u \in Threads : pc'[u] = IF u = t THEN "up" ELSE pc[u]
  BY <1>4, <1>5, Zenon DEF Goto, AllThreads
<1>7. Undisturbed'
  BY <1>3, <1>5, <1>6, RunsOn, Zenon DEF Gifts
<1>8. \A u \in Threads : u # t => pc[u] \notin {"rollback", "down"}
  BY <1>3 DEF Gifts, Undisturbed, Settled
<1>9. ASSUME NEW u \in Threads, NEW e \in possessing_locks[u]
      PROVE  /\ waiters[e.lock] # <<>>
             /\ e.lock # l => holder[e.lock] = u
             /\ e.lock = l => u = t
  <2>1. /\ holder[e.lock] = u \/ (pc[u] = "rollback" /\ arg[u] = e.lock)
        /\ Wanted(e.lock)
    BY <1>3 DEF Gifts, Backed
  <2>2. waiters[e.lock] # <<>>
    BY <1>3, <1>8, <2>1 DEF Wanted
  <2>3. holder[l] = NULL
    BY <1>1, <1>3 DEF TransitUnheld, InTransit
  <2> QED
    BY <1>1, <1>8, <2>1, <2>2, <2>3, ThreadsAssumption, Zenon
<1>10. CASE possessing_locks[t] = {} \/ waiters[l] = <<>>
  <2>1. UNCHANGED <<priority, original_priority, possessing_locks, holded_by>>
    BY <1>1, <1>10, Zenon DEF PriorityRollback, donation_vars
  <2>2. \A u \in Threads : \A e \in possessing_locks[u] :
          holder[e.lock] = u /\ waiters[e.lock] # <<>>
    BY <1>9, <1>10
  <2>3. Backed'
    BY <1>5, <2>1, <2>2 DEF Backed, Wanted
  <2>4. Owed' /\ OwnPriority'
    BY <1>3, <2>1 DEF Gifts, Owed, OwnPriority
  <2> QED
    BY <1>7, <2>3, <2>4 DEF Gifts
<1>11. CASE ~(possessing_locks[t] = {} \/ waiters[l] = <<>>)
  <2>1. PICK restored : restored = IF kept = {} THEN original_priority[t]
                                   ELSE Max({e.priority : e \in kept})
    BY Zenon
  <2>2. /\ possessing_locks' = [possessing_locks EXCEPT ![t] = kept]
        /\ priority' = [priority EXCEPT ![t] = restored]
        /\ UNCHANGED original_priority
        /\ holded_by' = [u \in Threads |->
                           IF \E e \in possessing_locks[t] \ kept : e.locked_thread = u
                           THEN NULL ELSE holded_by[u]]
    BY <1>1, <1>2, <1>11, <2>1, Zenon DEF PriorityRollback
  <2>3. /\ \A u \in Threads : possessing_locks'[u] = IF u = t THEN kept ELSE possessing_locks[u]
        /\ \A u \in Threads : priority'[u] = IF u = t THEN restored ELSE priority[u]
    BY <1>4, <2>2
  <2>4. \A u \in Threads : \A e \in possessing_locks'[u] :
          holder[e.lock] = u /\ waiters[e.lock] # <<>>
    <3> SUFFICES ASSUME NEW u \in Threads, NEW e \in possessing_locks'[u]
                 PROVE  holder[e.lock] = u /\ waiters[e.lock] # <<>>
      OBVIOUS
    <3>1. e \in possessing_locks[u] /\ (u = t => e.lock # l)
      BY <1>2, <2>3, Zenon
    <3> QED
      BY <1>9, <3>1
  <2>5. Backed'
    BY <1>5, <2>4, Zenon DEF Backed, Wanted
  <2>6. Owed'
    <3> SUFFICES ASSUME NEW m \in Threads, holded_by'[m] # NULL
                 PROVE  \E u \in Threads : \E e \in possessing_locks'[u] :
                          e.lock = holded_by'[m] /\ e.locked_thread = m
      BY DEF Owed
    <3>1. /\ holded_by'[m] = holded_by[m]
          /\ \A e \in possessing_locks[t] \ kept : e.locked_thread # m
      BY <2>2
    <3>a. PICK u \in Threads : \E e \in possessing_locks[u] :
                                 e.lock = holded_by[m] /\ e.locked_thread = m
      BY <1>3, <3>1 DEF Gifts, Owed
    <3>2. PICK e \in possessing_locks[u] : e.lock = holded_by[m] /\ e.locked_thread = m
      BY <3>a
    <3>3. e \in possessing_locks'[u]
      BY <2>3, <3>1, <3>2
    <3> QED
      BY <3>1, <3>2, <3>3
  <2>7. OwnPriority'
    <3> SUFFICES ASSUME NEW u \in Threads, possessing_locks'[u] = {}
                 PROVE  priority'[u] = original_priority[u]
      BY <2>2 DEF OwnPriority
    <3>1. CASE u = t
      BY <2>1, <2>3, <3>1
    <3>2. CASE u # t
      BY <1>3, <2>3, <3>2 DEF Gifts, OwnPriority
    <3> QED
      BY <3>1, <3>2, Zenon
  <2> QED
    BY <1>7, <2>5, <2>6, <2>7 DEF Gifts
<1> QED
  BY <1>10, <1>11

\* The statements of lock_acquire and lock_release that write the holder.
LEMMA HolderGifts ==
  ASSUME DonationInv, NEW t \in Threads,
         SetHolder(t) \/ \E l \in Locks : LockRelease(t, l)
  PROVE  Gifts'
<1>1. /\ TypeOK /\ Gifts /\ TransitUnheld /\ current = t /\ pc[t] \in {"own", "run"}
      /\ UNCHANGED <<donation_vars, current, waiters>>
  BY DEF DonationInv, LockInv, TypeInv, SetHolder, LockRelease, At, sched_vars, sema_vars
<1>2. /\ possessing_locks \in [Threads -> SUBSET LockElem]
      /\ holder \in [Locks -> Threads \cup {NULL}]
      /\ pc \in [AllThreads -> Places] /\ t \in AllThreads
      /\ arg \in [Threads -> AllSemas \cup {NULL}]
  BY <1>1 DEF TypeOK, DonationTypes, PlaceTypes, AllThreads
<1>3. UNCHANGED <<priority, original_priority, possessing_locks, holded_by>>
  BY <1>1 DEF donation_vars
<1>4. \A u \in Threads : u # t => pc'[u] = pc[u]
  BY <1>2 DEF SetHolder, LockRelease, Return, Call, Goto, AllThreads
<1>5. Undisturbed'
  BY <1>1, <1>4, RunsOn DEF Gifts
<1>6. \A u \in Threads : pc[u] # "rollback" /\ pc[u] # "down"
  BY <1>1, Zenon DEF Gifts, Undisturbed, Settled
<1>7. ASSUME NEW u \in Threads, NEW e \in possessing_locks[u]
      PROVE  holder[e.lock] = u /\ waiters[e.lock] # <<>> /\ e.lock \in Locks
  <2>1. e \in LockElem
    BY <1>2, Zenon
  <2>2. e.lock \in Locks
    BY <2>1 DEF LockElem
  <2>3. /\ holder[e.lock] = u \/ pc[u] = "rollback"
        /\ Wanted(e.lock)
    BY <1>1, Zenon DEF Gifts, Backed
  <2>4. waiters[e.lock] # <<>>
    BY <1>6, <2>3, Zenon DEF Wanted
  <2> QED
    BY <1>6, <2>2, <2>3, <2>4, Zenon
<1>8. ASSUME NEW u \in Threads, NEW e \in possessing_locks[u]
      PROVE  holder'[e.lock] = u \/ (pc'[u] = "rollback" /\ arg'[u] = e.lock)
  <2>1. CASE SetHolder(t)
    <3>1. arg[t] \in Locks /\ holder[arg[t]] = NULL
          /\ holder' = [holder EXCEPT ![arg[t]] = t]
      BY <1>1, <2>1, Zenon DEF SetHolder, At, TransitUnheld, InTransit, DonationInv, LockInv, TypeInv,
                        ArgFits
    <3>2. e.lock # arg[t]
      <4>1. u # NULL
        BY ThreadsAssumption, Zenon
      <4> QED
        BY <1>7, <3>1, <4>1, Zenon
    <3> QED
      BY <1>2, <1>7, <3>1, <3>2, Zenon
  <2>2. ASSUME NEW l \in Locks, LockRelease(t, l)
        PROVE  holder'[e.lock] = u \/ (pc'[u] = "rollback" /\ arg'[u] = e.lock)
    <3>1. /\ holder[l] = t /\ holder' = [holder EXCEPT ![l] = NULL]
          /\ pc' = [pc EXCEPT ![t] = "rollback"] /\ arg' = [arg EXCEPT ![t] = l]
      BY <2>2 DEF LockRelease, Call, Goto
    <3>2. CASE e.lock = l
      BY <1>2, <1>7, <3>1, <3>2, Zenon
    <3>3. CASE e.lock # l
      BY <1>2, <1>7, <3>1, <3>3, Zenon
    <3> QED
      BY <3>2, <3>3, Zenon
  <2> QED
    BY <2>1, <2>2, Zenon
<1>9. Backed'
  <2>1. \A u \in Threads : \A e \in possessing_locks[u] : Wanted(e.lock)'
    <3>1. waiters' = waiters
      BY <1>1, Zenon
    <3> QED
      BY <1>7, <3>1, Zenon DEF Wanted
  <2> QED
    BY <1>3, <1>8, <2>1, Zenon DEF Backed
<1>10. Owed' /\ OwnPriority'
  BY <1>1, <1>3, Zenon DEF Gifts, Owed, OwnPriority
<1> QED
  BY <1>5, <1>9, <1>10 DEF Gifts

\* sema_down: whoever was about to wait for a lock that is given something for
\* finds the lock taken, and waits.
LEMMA DownGifts ==
  ASSUME DonationInv, NEW t \in Threads, SemaDownLoop(t)
  PROVE  Gifts'
<1>1. PICK s : s = arg[t]
  OBVIOUS
<1>2. /\ TypeOK /\ Gifts /\ MutualExclusion /\ current = t /\ pc[t] \in {"down", "woken"}
      /\ s \in AllSemas /\ UNCHANGED <<donation_vars, holder>>
  BY <1>1, Zenon DEF DonationInv, LockInv, TypeInv, ArgFits, SemaDownLoop, At
<1>3. /\ possessing_locks \in [Threads -> SUBSET LockElem]
      /\ waiters \in [AllSemas -> Seq(Threads)] /\ value \in [AllSemas -> Nat]
      /\ pc \in [AllThreads -> Places] /\ t \in AllThreads
  BY <1>2 DEF TypeOK, DonationTypes, PlaceTypes, SemaTypes, AllThreads
<1>4. UNCHANGED <<priority, original_priority, possessing_locks, holded_by>>
  BY <1>2 DEF donation_vars
<1>5. ASSUME NEW u \in Threads, NEW e \in possessing_locks[u]
      PROVE  /\ holder[e.lock] = u /\ e.lock \in Locks /\ value[e.lock] = 0
             /\ waiters[e.lock] # <<>> \/ s = e.lock
  <2>1. /\ holder[e.lock] = u \/ (pc[u] = "rollback" /\ arg[u] = e.lock)
        /\ Wanted(e.lock)
    BY <1>2, Zenon DEF Gifts, Backed
  <2>2. \A w \in Threads : w # t => pc[w] \notin {"rollback", "down"}
    BY <1>2, Zenon DEF Gifts, Undisturbed, Settled
  <2>3. holder[e.lock] = u
    BY <1>2, <2>1, <2>2
  <2>4. waiters[e.lock] # <<>> \/ s = e.lock
    BY <1>1, <2>1, <2>2 DEF Wanted
  <2>5. e.lock \in Locks
    BY <1>3 DEF LockElem
  <2>6. value[e.lock] = 0
    BY <1>2, <2>3, <2>5 DEF MutualExclusion, Owns
  <2> QED
    BY <2>3, <2>4, <2>5, <2>6, Zenon
<1>6. \E p \in Places : Goto(t, p) /\ (p \in Settled \/ current' = current)
  BY <1>1, <1>2, Zenon DEF SemaDownLoop, Return, Call, Places, Settled, sched_vars
<1>7. Undisturbed'
  <2>1. PICK p \in Places : Goto(t, p) /\ (p \in Settled \/ current' = current)
    BY <1>6
  <2>2. pc'[t] = p /\ \A u \in Threads : u # t => pc'[u] = pc[u]
    BY <1>3, <2>1 DEF Goto, AllThreads
  <2> QED
    BY <1>2, <2>1, <2>2, RunsOn DEF Gifts
<1>8. \A u \in Threads : \A e \in possessing_locks[u] : waiters'[e.lock] # <<>>
  <2>1. CASE value[s] = 0
    <3>1. PICK list : list = InsertOrdered(waiters[s], t, priority)
      OBVIOUS
    <3>2. list # <<>>
      <4>1. waiters[s] \in Seq(Threads)
        BY <1>2, <1>3
      <4>2. Range(list) = Range(waiters[s]) \cup {t}
        BY <3>1, <4>1, InsertOrderedRange
      <4> QED
        BY <4>2 DEF Range
    <3>3. waiters' = [waiters EXCEPT ![s] = list]
      BY <1>1, <2>1, <3>1 DEF SemaDownLoop
    <3> QED
      BY <1>2, <1>3, <1>5, <3>2, <3>3 DEF AllSemas
  <2>2. CASE value[s] # 0
    <3>1. UNCHANGED waiters
      BY <1>1, <2>2, Zenon DEF SemaDownLoop
    <3> QED
      BY <1>5, <2>2, <3>1, Zenon
  <2> QED
    BY <2>1, <2>2, Zenon
<1>9. Backed'
  BY <1>2, <1>4, <1>5, <1>8, Zenon DEF Backed, Wanted
<1>10. Owed' /\ OwnPriority'
  BY <1>2, <1>4, Zenon DEF Gifts, Owed, OwnPriority
<1> QED
  BY <1>7, <1>9, <1>10 DEF Gifts

\* sema_up takes a waiter from its own list only.
LEMMA UpWaiters ==
  ASSUME TypeInv, NEW s, SemaUpBody(s)
  PROVE  \A r \in AllSemas : r # s => waiters'[r] = waiters[r]
BY Zenon DEF SemaUpBody, TypeInv, TypeOK, SemaTypes

\* The sema_up of lock_release: nothing is left that was given for the lock.
LEMMA UpGifts ==
  ASSUME DonationInv, NEW t \in Threads, LockUp(t)
  PROVE  Gifts'
<1>1. PICK l : l = arg[t]
  OBVIOUS
<1>2. /\ TypeInv /\ TypeOK /\ Gifts /\ TransitUnheld /\ current = t /\ pc[t] = "up" /\ l \in Locks
      /\ UNCHANGED <<donation_vars, holder>> /\ SemaUpBody(l) /\ Goto(t, "run")
  BY <1>1 DEF DonationInv, LockInv, TypeInv, ArgFits, LockUp, At, Return, Call
<1>3. /\ possessing_locks \in [Threads -> SUBSET LockElem]
      /\ pc \in [AllThreads -> Places] /\ t \in AllThreads /\ Locks \subseteq AllSemas
  BY <1>2 DEF TypeOK, DonationTypes, PlaceTypes, AllThreads, AllSemas
<1>4. UNCHANGED <<priority, original_priority, possessing_locks, holded_by>>
  BY <1>2, Zenon DEF donation_vars
<1>5. ~Given(l)
  <2>1. \A u \in Threads : pc[u] # "rollback"
    BY <1>2 DEF Gifts, Undisturbed, Settled
  <2>2. holder[l] = NULL
    BY <1>1, <1>2 DEF TransitUnheld, InTransit
  <2> SUFFICES ASSUME NEW u \in Threads, NEW e \in possessing_locks[u], e.lock = l
               PROVE  FALSE
    BY Zenon DEF Given
  <2>3. holder[e.lock] = u \/ pc[u] = "rollback"
    BY <1>2, Zenon DEF Gifts, Backed
  <2>4. u # NULL
    BY ThreadsAssumption, Zenon
  <2> QED
    BY <2>1, <2>2, <2>3, <2>4, Zenon
<1>6. \A k \in Locks : Given(k) /\ waiters[k] # <<>> => waiters'[k] # <<>>
  BY <1>2, <1>3, <1>5, UpWaiters
<1>7. pc'[t] = "run" /\ \A u \in Threads : u # t => pc'[u] = pc[u]
  BY <1>2, <1>3 DEF Goto, AllThreads
<1>8. OwnPriority'
  BY <1>2, <1>4, Zenon DEF Gifts, OwnPriority
<1> QED
  BY <1>2, <1>3, <1>4, <1>6, <1>7, <1>8, PlainStep DEF Settled

\* A step of t that leaves the lists of the locks alone.
LEMMA RunGifts ==
  ASSUME DonationInv, NEW t \in Threads, current = t, pc[t] \in {"run", "sleep", "exiting"},
         UNCHANGED <<possessing_locks, holded_by, holder>>, OwnPriority',
         UNCHANGED pc \/ \E p : Goto(t, p),
         current' = current \/ pc'[t] \in Settled,
         \A l \in Locks : waiters'[l] = waiters[l]
  PROVE  Gifts'
<1>1. /\ possessing_locks \in [Threads -> SUBSET LockElem]
      /\ pc \in [AllThreads -> Places] /\ t \in AllThreads /\ Gifts
  BY Zenon DEF DonationInv, LockInv, TypeInv, TypeOK, DonationTypes, PlaceTypes, AllThreads
<1>2. \A u \in Threads : u # t => pc'[u] = pc[u]
  BY <1>1, Zenon DEF Goto, AllThreads
<1> QED
  BY <1>1, <1>2, PlainStep, Zenon

\* The steps of the threads.
LEMMA ThreadStepGifts ==
  ASSUME DonationInv, Cardinality(Threads) \in Nat, NEW t \in Threads, ThreadStep(t)
  PROVE  Gifts'
<1>0. /\ TypeInv /\ TypeOK /\ Gifts
      /\ \A s \in Semas \cup Devices \cup Threads : s \notin Locks
      /\ Locks \subseteq AllSemas /\ t \in AllThreads /\ "run" \in Settled
  BY ThreadsAssumption DEF DonationInv, LockInv, TypeInv, AllSemas, AllThreads, Settled
<1>a. /\ pc \in [AllThreads -> Places] /\ priority \in [Threads -> Priorities]
      /\ original_priority \in [Threads -> Priorities]
      /\ possessing_locks \in [Threads -> SUBSET LockElem]
  BY <1>0, Zenon DEF TypeOK, DonationTypes, PlaceTypes
<1>b. UNCHANGED donation_vars => /\ UNCHANGED <<possessing_locks, holded_by>>
                                 /\ OwnPriority'
  BY <1>0 DEF Gifts, OwnPriority, donation_vars
<1>c. UNCHANGED sema_vars => \A l \in Locks : waiters'[l] = waiters[l]
  BY Zenon DEF sema_vars
<1>1. ASSUME NEW s \in Semas, SemaUp(t, s) \/ SemaTryDown(t, s) PROVE Gifts'
  <2>1. /\ UNCHANGED <<donation_vars, holder, pc>> /\ current = t /\ pc[t] = "run"
        /\ SemaUpBody(s) \/ UNCHANGED waiters
    BY <1>1, Zenon DEF SemaUp, SemaTryDown, At, place_vars
  <2>2. \A l \in Locks : waiters'[l] = waiters[l]
    <3>1. \A l \in Locks : l \in AllSemas /\ l # s
      BY <1>0, ThreadsAssumption, Zenon
    <3> QED
      BY <1>0, <2>1, <3>1, UpWaiters, Zenon
  <2> QED
    BY <1>0, <1>b, <2>1, <2>2, RunGifts, Zenon
<1>2. ASSUME NEW s \in Semas \cup Devices \cup Threads, SemaDown(t, s) PROVE Gifts'
  BY <1>2, <1>b, <1>c, RunGifts, Zenon DEF SemaDown, At, Call, sched_vars
<1>3. ASSUME SemaDownLoop(t) PROVE Gifts'
  BY <1>3, DownGifts, Zenon
<1>4. ASSUME NEW l \in Locks, LockAcquire(t, l) PROVE Gifts'
  BY <1>4, <1>b, <1>c, RunGifts, Zenon DEF LockAcquire, At, Call, sched_vars
<1>5. ASSUME NEW l \in Locks, LockTryAcquire(t, l) PROVE Gifts'
  BY <1>5, <1>b, RunGifts, Zenon DEF LockTryAcquire, At, Call, sched_vars
<1>6. ASSUME NEW l \in Locks, LockRelease(t, l) PROVE Gifts'
  BY <1>6, HolderGifts
<1>7. ASSUME PriorityDonation(t) PROVE Gifts'
  BY <1>7, DonationGifts
<1>8. ASSUME SetHolder(t) PROVE Gifts'
  BY <1>8, HolderGifts, Zenon
<1>9. ASSUME PriorityRollback(t) PROVE Gifts'
  BY <1>9, RollbackGifts
<1>10. ASSUME LockUp(t) PROVE Gifts'
  BY <1>10, UpGifts
<1>11. ASSUME NEW u \in Threads, NEW p \in Priorities, ThreadCreate(t, u, p) PROVE Gifts'
  <2>1. /\ UNCHANGED <<possessing_locks, holded_by, holder, pc, waiters>> /\ current = t
        /\ pc[t] = "run" /\ priority' = [priority EXCEPT ![u] = p]
        /\ original_priority' = [original_priority EXCEPT ![u] = p]
    BY <1>11, Zenon DEF ThreadCreate, At, place_vars, sema_vars
  <2>2. OwnPriority'
    BY <1>0, <1>a, <2>1, Zenon DEF Gifts, OwnPriority
  <2> QED
    BY <1>0, <2>1, <2>2, RunGifts, Zenon
<1>12. ASSUME Yield(t) PROVE Gifts'
  <2>1. UNCHANGED <<donation_vars, holder, pc, sema_vars>> /\ current = t /\ pc[t] = "run"
    BY <1>12, Zenon DEF Yield, At, place_vars
  <2> QED
    BY <1>0, <1>b, <1>c, <2>1, RunGifts, Zenon
<1>13. ASSUME NEW p \in NewPriorities, ThreadSetPriority(t, p) PROVE Gifts'
  <2>1. /\ UNCHANGED <<possessing_locks, holded_by, holder, pc, waiters>> /\ current = t
        /\ pc[t] = "run"
        /\ priority' = IF possessing_locks[t] # {} THEN priority ELSE [priority EXCEPT ![t] = p]
        /\ original_priority' = [original_priority EXCEPT ![t] = p]
    BY <1>13, Zenon DEF ThreadSetPriority, At, place_vars, sema_vars
  <2>2. OwnPriority'
    <3> SUFFICES ASSUME NEW u \in Threads, possessing_locks[u] = {}
                 PROVE  priority'[u] = original_priority'[u]
      BY <2>1, Zenon DEF OwnPriority
    <3>1. CASE u = t
      BY <1>a, <2>1, <3>1
    <3>2. CASE u # t
      BY <1>0, <1>a, <2>1, <3>2, Zenon DEF Gifts, OwnPriority
    <3> QED
      BY <3>1, <3>2, Zenon
  <2> QED
    BY <1>0, <2>1, <2>2, RunGifts, Zenon
<1>14. ASSUME ThreadExit(t) PROVE Gifts'
  <2>1. /\ current = t /\ pc[t] = "run" /\ \A l \in Locks : holder[l] # t
        /\ possessing_locks' = [possessing_locks EXCEPT ![t] = {}]
        /\ SemaUpBody(t) /\ Goto(t, "exiting")
        /\ UNCHANGED <<priority, original_priority, holded_by, holder>>
    BY <1>14, Zenon DEF ThreadExit, At
  <2>2. possessing_locks[t] = {}
    <3> SUFFICES ASSUME NEW e \in possessing_locks[t] PROVE FALSE
      BY Zenon
    <3>1. e \in LockElem
      BY <1>a, Zenon
    <3>2. e.lock \in Locks
      BY <3>1 DEF LockElem
    <3>3. holder[e.lock] = t \/ pc[t] = "rollback"
      BY <1>0, Zenon DEF Gifts, Backed
    <3> QED
      BY <2>1, <3>2, <3>3, Zenon
  <2>3. UNCHANGED possessing_locks
    BY <1>a, <2>1, <2>2, Zenon
  <2>4. OwnPriority'
    BY <1>0, <2>1, <2>3, Zenon DEF Gifts, OwnPriority
  <2>5. \A l \in Locks : waiters'[l] = waiters[l]
    <3>1. \A l \in Locks : l \in AllSemas /\ l # t
      BY ThreadsAssumption, Zenon DEF AllSemas
    <3> QED
      BY <1>0, <2>1, <3>1, UpWaiters, Zenon
  <2>6. pc'[t] \in Settled
    BY <1>0, <1>a, <2>1, Zenon DEF Goto, Settled
  <2> QED
    BY <2>1, <2>3, <2>4, <2>5, <2>6, RunGifts, Zenon
<1>15. ASSUME ThreadDie(t) PROVE Gifts'
  <2>1. UNCHANGED <<donation_vars, holder, pc, sema_vars>> /\ current = t /\ pc[t] = "exiting"
    BY <1>15 DEF ThreadDie, At, place_vars
  <2>2. pc'[t] \in Settled
    BY <2>1, Zenon DEF Settled
  <2> QED
    BY <1>b, <1>c, <2>1, <2>2, RunGifts, Zenon
<1>16. ASSUME NEW n \in SleepTicks, TimerSleep(t, n) PROVE Gifts'
  BY <1>16, <1>b, <1>c, RunGifts, Zenon DEF TimerSleep, At, sched_vars
<1>17. ASSUME SleepBlock(t) PROVE Gifts'
  <2>1. UNCHANGED <<donation_vars, holder, sema_vars>> /\ current = t /\ pc[t] = "sleep"
        /\ Goto(t, "run")
    BY <1>17 DEF SleepBlock, At
  <2>2. pc'[t] \in Settled
    BY <1>0, <1>a, <2>1 DEF Goto
  <2> QED
    BY <1>b, <1>c, <2>1, <2>2, RunGifts, Zenon
<1> QED
  BY <1>1, <1>2, <1>3, <1>4, <1>5, <1>6, <1>7, <1>8, <1>9, <1>10, <1>11, <1>12, <1>13, <1>14,
     <1>15, <1>16, <1>17 DEF ThreadStep

\* Devices and the idle thread; a tick of the timer.
LEMMA OtherStepGifts ==
  ASSUME DonationInv, Tickless,
         \/ \E s \in Devices : DeviceInterrupt(s)
         \/ Idle \/ TimerInterrupt \/ HandlerStep \/ UNCHANGED vars
  PROVE  Gifts'
<1>0. /\ TypeInv /\ Gifts /\ Locks \subseteq AllSemas /\ \A s \in Devices : s \notin Locks
      /\ possessing_locks \in [Threads -> SUBSET LockElem]
  BY ThreadsAssumption DEF DonationInv, LockInv, TypeInv, TypeOK, DonationTypes, AllSemas
<1>1. ASSUME NEW s \in Devices, DeviceInterrupt(s) PROVE Gifts'
  <2>1. /\ UNCHANGED <<donation_vars, holder, pc, arg, current>>
        /\ SemaUpBody(s) \/ UNCHANGED waiters
    BY <1>1, Zenon DEF DeviceInterrupt, SemaUpBody, ThreadUnblock, place_vars, sched_vars, sema_vars
  <2>2. \A l \in Locks : waiters'[l] = waiters[l]
    BY <1>0, <2>1, UpWaiters, Zenon
  <2> QED
    BY <1>0, <2>1, <2>2, SameGifts, Zenon
<1>2. CASE Idle
  <2>1. /\ UNCHANGED <<donation_vars, holder, pc, waiters>> /\ pc[current] = "run"
    BY <1>2 DEF Idle, At, place_vars, sema_vars
  <2>2. UNCHANGED <<possessing_locks, holded_by>> /\ OwnPriority'
    BY <1>0, <2>1 DEF Gifts, OwnPriority, donation_vars
  <2> QED
    BY <1>0, <2>1, <2>2, PlainStep DEF Settled
<1>3. CASE TimerInterrupt \/ UNCHANGED vars
  <2>1. UNCHANGED <<donation_vars, holder, pc, arg, current, waiters>>
    BY <1>3, Zenon DEF TimerInterrupt, vars, sched_vars, place_vars, sema_vars
  <2> QED
    BY <1>0, <2>1, SameGifts, Zenon
<1>4. ~HandlerStep
  BY DEF HandlerStep, WakeExpired, InterruptReturn, Tickless
<1> QED
  BY <1>1, <1>2, <1>3, <1>4

\* What is given for a lock is there to be taken back, and is taken back.
LEMMA DonationStep ==
  ASSUME Cardinality(Threads) \in Nat, DonationInv, Tickless, [Next]_vars
  PROVE  DonationInv'
<1>1. LockInv'
  BY LockStep DEF DonationInv
<1>2. Gifts'
  BY ThreadStepGifts, OtherStepGifts DEF Next, Halted
<1> QED
  BY <1>1, <1>2 DEF DonationInv

LEMMA DonationInit == Init => DonationInv
<1> SUFFICES ASSUME Init PROVE DonationInv
  OBVIOUS
<1>1. Undisturbed /\ Backed /\ Owed /\ OwnPriority
  BY DEF Init, Undisturbed, Settled, Backed, Owed, OwnPriority, AllThreads
<1> QED
  BY <1>1, LockInit DEF DonationInv, Gifts

\* A thread that owns no lock has nothing that was given to it.
LEMMA DonationTaken == DonationInv => DonationRelinquished
<1> SUFFICES ASSUME DonationInv, NEW t \in Threads, pc[t] = "run",
                    \A l \in Locks : ~Owns(t, l)
             PROVE  priority[t] = original_priority[t]
  BY DEF DonationRelinquished
<1>1. possessing_locks[t] \subseteq LockElem
  BY Zenon DEF DonationInv, LockInv, TypeInv, TypeOK, DonationTypes
<1>2. possessing_locks[t] = {}
  BY <1>1 DEF DonationInv, Gifts, Backed, Owns, LockElem
<1> QED
  BY <1>2 DEF DonationInv, Gifts, OwnPriority

=============================================================================
