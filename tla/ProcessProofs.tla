--------------------------- MODULE ProcessProofs ---------------------------
(***************************************************************************)
(* Proofs about Process, for any number of processes: the list of children *)
(* is exact, no process stays blocked on a child that has ended, and exec  *)
(* and process_wait return what they should.                               *)
(*                                                                         *)
(* NoLostExit is not inductive: between choosing a child and downing its   *)
(* semaphore the child may end, and then its sema_up must still be there   *)
(* (Awaited).  The child it chose is its own because the list is exact     *)
(* (Family).                                                               *)
(*                                                                         *)
(* What the calls return rests on Calls: what the semaphores mean (Child), *)
(* what the locals of a call in progress say (Caller), and that the        *)
(* child_infos are right about the children (Records).  process_wait may   *)
(* down another child's semaphore than it was asked for; Waits says when.  *)
(***************************************************************************)
EXTENDS Process, TLAPS

Types ==
  /\ pc \in [All -> Places]
  /\ parent_thread \in [Procs -> All \cup {NULL}]
  /\ children_thread_list \in [All -> Seq(Procs)]
  /\ parent_wait_sema \in [Procs -> Nat]
  /\ temp_child \in [All -> Procs \cup {NULL}]

\* c is an element of a list.
Contains(list, c) == \E i \in 1..Len(list) : list[i] = c

\* Created and not yet through thread_exit.
Alive(c) == pc[c] \notin {"none", "dying", "freed"}

\* A process is on the list of its parent, once, exactly as long as it is alive.
Family ==
  /\ \A c \in Procs : pc[c] # "none" => parent_thread[c] \in All
  /\ \A p \in All : IsInjective(children_thread_list[p])
  /\ \A p \in All, c \in Procs :
       Contains(children_thread_list[p], c) <=> parent_thread[c] = p /\ Alive(c)

\* Process p waits for c, a child of its own, and if that has ended its sema_up is
\* still there.
Awaits(p, c) ==
  /\ c \in Procs /\ parent_thread[c] = p /\ pc[c] # "none"
  /\ pc[p] = "waiting" => Alive(c)
  /\ ~Alive(c) => parent_wait_sema[c] > 0

Awaited == \A p \in All : pc[p] \in {"down", "waiting"} => Awaits(p, temp_child[p])

IInv == Types /\ Family /\ Awaited

\* The invariant behind what exec and process_wait return.  The types first.
Info == [tid : Procs, exit_status : Nat, exited : BOOLEAN, waited : BOOLEAN]
Data ==
  /\ exit_status \in [Procs -> Nat] /\ parent_child_sync \in [Procs -> Nat]
  /\ child_info_list \in [All -> Seq(Info)] /\ next \in [Procs -> Procs \cup {NULL}]
  /\ arg \in [All -> Procs \cup {NULL}] /\ temp \in [All -> Procs \cup {NULL}]
  /\ cursor \in [All -> Procs \cup {NULL}]
  /\ result = [p \in All |-> result[p]]
  /\ reaped \subseteq Procs

Starting == {"flag", "created", "sync", "loading"}
InWait == {"wait", "find", "down", "waiting", "waited"}
Calling == {"none", "load", "user", "execute"} \cup Starting
Fresh(c) == pc[c] \in {"none", "load"}

\* A semaphore of c is up only after the event it stands for, and c has no exit
\* status before it calls exit.
Child(c) ==
  /\ parent_child_sync[c] > 0 => ~Fresh(c)
  /\ parent_wait_sema[c] > 0 => Gone(c)
  /\ pc[c] \in Calling \/ (pc[c] \in InWait /\ cursor[c] = NULL) => exit_status[c] = 0
  /\ c \in reaped => pc[c] # "none"

\* There is a child_info of c.
Knows(p, c) == \E i \in 1..Len(child_info_list[p]) : child_info_list[p][i].tid = c

\* The cursor of exit's loop.
Loop(p) ==
  /\ pc[p] \in Calling => cursor[p] = NULL
  /\ pc[p] \in {"reap", "next"} => cursor[p] # NULL

\* The child of an exec is the caller's own.
Starts(p) ==
  pc[p] \in Starting /\ arg[p] # NULL => parent_thread[arg[p]] = p /\ pc[arg[p]] # "none"

\* process_wait, asked for a child with a child_info: it downs the semaphore of that
\* child, or the child has ended.
Waits(p) ==
  Knows(p, arg[p]) =>
    /\ pc[p] \in InWait \ {"wait"} => temp[p] = arg[p] /\ arg[p] \notin reaped
    /\ pc[p] \in {"down", "waiting"} => temp_child[p] = arg[p] \/ Ended(arg[p])
    /\ pc[p] = "waited" => Ended(arg[p])

\* What the last call returned.
Answer(p) ==
  /\ pc[p] # "user" => result[p] = Nothing
  /\ result[p].call = "exec" /\ result[p].tid # NULL
       => result[p].tid \in Procs /\ ~Fresh(result[p].tid)
  /\ result[p].call = "wait" /\ result[p].value # -1 /\ Knows(p, result[p].tid)
       => Ended(result[p].tid) /\ result[p].value = exit_status[result[p].tid]

Caller(p) == Loop(p) /\ Starts(p) /\ Waits(p) /\ Answer(p)

\* A child_info is the child's own, and right.
Right(p, info) ==
  /\ parent_thread[info.tid] = p /\ pc[info.tid] # "none"
  /\ info.exited => Ended(info.tid)
  /\ Ended(info.tid) => info.exit_status = exit_status[info.tid]
  /\ ~Ended(info.tid) => info.exit_status = 0
  /\ info.tid \in reaped => info.exited /\ info.waited
Once(list) == \A i, j \in 1..Len(list) : list[i].tid = list[j].tid => i = j
Records(p) ==
  /\ Once(child_info_list[p])
  /\ \A i \in 1..Len(child_info_list[p]) : Right(p, child_info_list[p][i])

Calls == Data /\ (\A c \in Procs : Child(c)) /\ (\A p \in All : Caller(p) /\ Records(p))

USE ProcessAssumption DEF All, Places

-----------------------------------------------------------------------------
(* Lists.                                                                  *)

\* What list_remove and list_push_back do is stated with the places of a list.
LEMMA InRange ==
  ASSUME NEW S, NEW s \in Seq(S), NEW e
  PROVE  e \in Range(s) <=> Contains(s, e)
BY DEF Range, Contains

\* Two parts of a list, joined.
LEMMA Joined ==
  ASSUME NEW S, NEW a \in Seq(S), NEW b \in Seq(S)
  PROVE  /\ (a \o b) \in Seq(S) /\ Len(a \o b) = Len(a) + Len(b)
         /\ \A j \in 1..(Len(a) + Len(b)) :
              (a \o b)[j] = IF j <= Len(a) THEN a[j] ELSE b[j - Len(a)]
OBVIOUS

\* The places of a list after list_remove of the element at i.
LEMMA RemovedPlaces ==
  ASSUME NEW S, NEW s \in Seq(S), NEW i \in 1..Len(s)
  PROVE  /\ Removed(s, i) \in Seq(S) /\ Len(Removed(s, i)) = Len(s) - 1
         /\ \A j \in 1..Len(Removed(s, i)) : Removed(s, i)[j] = IF j < i THEN s[j] ELSE s[j + 1]
<1> DEFINE r == Removed(s, i)
<1> DEFINE a == SubSeq(s, 1, i - 1)
           b == SubSeq(s, i + 1, Len(s))
<1>0. Len(s) \in Nat /\ i \in Nat
  OBVIOUS
<1>1. a \in Seq(S) /\ Len(a) = i - 1 /\ \A j \in 1..(i - 1) : a[j] = s[j]
  OBVIOUS
<1>2. b \in Seq(S) /\ Len(b) = Len(s) - i /\ \A j \in 1..(Len(s) - i) : b[j] = s[i + j]
  OBVIOUS
<1> HIDE DEF a, b
<1>3. /\ (a \o b) \in Seq(S) /\ Len(a \o b) = Len(a) + Len(b)
      /\ \A j \in 1..(Len(a) + Len(b)) :
           (a \o b)[j] = IF j <= Len(a) THEN a[j] ELSE b[j - Len(a)]
  BY <1>1, <1>2, Joined, Zenon
<1>4. \A j \in 1..(Len(s) - 1) : (a \o b)[j] = IF j < i THEN s[j] ELSE s[j + 1]
  <2> SUFFICES ASSUME NEW j \in 1..(Len(s) - 1)
               PROVE  (a \o b)[j] = IF j < i THEN s[j] ELSE s[j + 1]
    BY Zenon
  <2>1. CASE j < i
    BY <1>1, <1>2, <1>3, <2>1
  <2>2. CASE j >= i
    <3>1. j - Len(a) \in 1..(Len(s) - i) /\ i + (j - Len(a)) = j + 1
      BY <1>1, <2>2
    <3>2. (a \o b)[j] = b[j - Len(a)]
      BY <1>1, <1>2, <1>3, <2>2
    <3>3. b[j - Len(a)] = s[i + (j - Len(a))]
      BY <1>2, <3>1, Zenon
    <3>4. (a \o b)[j] = s[j + 1]
      BY <3>1, <3>2, <3>3, Zenon
    <3>5. ~(j < i)
      BY <1>0, <2>2
    <3> QED BY <3>4, <3>5, Zenon
  <2>3. j < i \/ j >= i
    BY <1>0
  <2> QED BY <2>1, <2>2, <2>3, Zenon
<1>5. r = a \o b
  BY DEF Removed, a, b
<1> HIDE DEF r
<1>6. Len(a) + Len(b) = Len(s) - 1
  BY <1>0, <1>1, <1>2
<1>7. Len(r) = Len(s) - 1
  BY <1>3, <1>5, <1>6, Zenon
<1>8. /\ r \in Seq(S) /\ Len(r) = Len(s) - 1
      /\ \A j \in 1..Len(r) : r[j] = IF j < i THEN s[j] ELSE s[j + 1]
  BY <1>3, <1>4, <1>5, <1>7, Zenon
<1> QED BY <1>8 DEF r

\* What removing the element at i leaves of a list.
LEMMA RemovedElements ==
  ASSUME NEW S, NEW s \in Seq(S), NEW i \in 1..Len(s), IsInjective(s)
  PROVE  /\ Removed(s, i) \in Seq(S) /\ IsInjective(Removed(s, i))
         /\ \A e : Contains(Removed(s, i), e) <=> Contains(s, e) /\ e # s[i]
<1> DEFINE r == Removed(s, i)
<1>1. /\ r \in Seq(S) /\ Len(r) = Len(s) - 1
      /\ \A j \in 1..Len(r) : r[j] = IF j < i THEN s[j] ELSE s[j + 1]
  BY RemovedPlaces
<1> HIDE DEF r
<1>2. IsInjective(r)
  <2>1. DOMAIN r = 1..Len(r) /\ DOMAIN s = 1..Len(s)
    BY <1>1
  <2> SUFFICES ASSUME NEW j \in 1..Len(r), NEW k \in 1..Len(r), r[j] = r[k]
               PROVE  j = k
    BY <2>1 DEF IsInjective
  <2>2. \A m \in 1..Len(s), n \in 1..Len(s) : s[m] = s[n] => m = n
    BY <2>1 DEF IsInjective
  <2> DEFINE at(m) == IF m < i THEN m ELSE m + 1
  <2>3. \A m \in 1..Len(r) : at(m) \in 1..Len(s) /\ r[m] = s[at(m)]
    <3> SUFFICES ASSUME NEW m \in 1..Len(r)
                 PROVE  at(m) \in 1..Len(s) /\ r[m] = s[at(m)]
      OBVIOUS
    <3>1. at(m) \in 1..Len(s)
      BY <1>1, SMT
    <3>2. r[m] = IF m < i THEN s[m] ELSE s[m + 1]
      BY <1>1, Zenon
    <3>3. r[m] = s[at(m)]
      BY <3>2, Zenon
    <3> QED BY <3>1, <3>3, Zenon
  <2>4. at(j) \in 1..Len(s) /\ at(k) \in 1..Len(s) /\ s[at(j)] = s[at(k)]
    BY <2>3, Zenon
  <2>5. at(j) = at(k)
    BY <2>2, <2>4, Zenon
  <2> QED BY <1>1, <2>5, SMT
<1>3. ASSUME NEW e, Contains(r, e)
      PROVE  Contains(s, e) /\ e # s[i]
  <2>1. PICK j \in 1..Len(r) : r[j] = e
    BY <1>3 DEF Contains
  <2>2. PICK m \in 1..Len(s) : r[j] = s[m] /\ m # i
    <3>1. CASE j < i
      BY <1>1, <3>1
    <3>2. CASE ~(j < i)
      <4>1. j + 1 \in 1..Len(s) /\ j + 1 # i
        BY <1>1, <3>2
      <4>2. r[j] = s[j + 1]
        BY <1>1, <3>2, Zenon
      <4> QED BY <4>1, <4>2, Zenon
    <3> QED BY <3>1, <3>2, Zenon
  <2>3. s[m] # s[i]
    <3>1. DOMAIN s = 1..Len(s)
      OBVIOUS
    <3> QED BY <2>2, <3>1, Zenon DEF IsInjective
  <2> QED BY <2>1, <2>2, <2>3, Zenon DEF Contains
<1>4. ASSUME NEW e, Contains(s, e), e # s[i]
      PROVE  Contains(r, e)
  <2>1. PICK j \in 1..Len(s) : s[j] = e
    BY <1>4 DEF Contains
  <2>2. CASE j < i
    BY <1>1, <2>1, <2>2 DEF Contains
  <2>3. CASE j > i
    <3>1. j - 1 \in 1..Len(r) /\ r[j - 1] = e
      BY <1>1, <2>1, <2>3
    <3> QED BY <3>1 DEF Contains
  <2> QED BY <1>4, <2>1, <2>2, <2>3
<1> QED BY <1>1, <1>2, <1>3, <1>4 DEF r

\* What appending a new element adds to a list.
LEMMA AppendElements ==
  ASSUME NEW S, NEW s \in Seq(S), NEW c \in S, IsInjective(s), ~Contains(s, c)
  PROVE  /\ Append(s, c) \in Seq(S) /\ IsInjective(Append(s, c))
         /\ \A e : Contains(Append(s, c), e) <=> Contains(s, e) \/ e = c
<1> DEFINE r == Append(s, c)
<1>1. /\ r \in Seq(S) /\ Len(r) = Len(s) + 1 /\ r[Len(s) + 1] = c
      /\ \A j \in 1..Len(s) : r[j] = s[j]
  OBVIOUS
<1> HIDE DEF r
<1>2. IsInjective(r)
  BY <1>1 DEF IsInjective, Contains
<1>3. \A e : Contains(r, e) <=> Contains(s, e) \/ e = c
  BY <1>1 DEF Contains
<1> QED BY <1>1, <1>2, <1>3 DEF r

\* A process goes on to a place where it neither waits nor has ended, and
\* changes no list, parent or semaphore.
LEMMA Moves ==
  ASSUME IInv, NEW p \in All, Alive(p),
         NEW x \in Places \ {"none", "dying", "freed", "down", "waiting"},
         pc' = [pc EXCEPT ![p] = x],
         temp_child' \in [All -> Procs \cup {NULL}],
         \A q \in All \ {p} : temp_child'[q] = temp_child[q],
         UNCHANGED <<parent_thread, children_thread_list, parent_wait_sema>>
  PROVE  IInv'
<1>1. \A q \in All : pc'[q] = IF q = p THEN x ELSE pc[q]
  BY DEF IInv, Types
<1>2. Types'
  BY DEF IInv, Types
<1>3. \A c \in All : Alive(c)' <=> Alive(c)
  BY <1>1 DEF Alive
<1>4. Family'
  BY <1>1, <1>3 DEF IInv, Family, Alive
<1>5. Awaited'
  BY <1>1, <1>3 DEF IInv, Awaited, Awaits
<1> QED BY <1>2, <1>4, <1>5 DEF IInv

\* Nothing that the invariant is about changes.
LEMMA Stays ==
  ASSUME IInv, UNCHANGED <<pc, parent_thread, children_thread_list, parent_wait_sema, temp_child>>
  PROVE  IInv'
<1>1. Types' /\ Family'
  BY DEF IInv, Types, Family, Alive
<1>2. Awaited'
  BY DEF IInv, Awaited, Awaits, Alive
<1> QED BY <1>1, <1>2 DEF IInv

-----------------------------------------------------------------------------
\* thread_create appends the new child, which is on no list yet, to its parent's list.
LEMMA ThreadCreateKeeps ==
  ASSUME IInv, NEW p \in All, NEW c \in Procs, ThreadCreate(p, c)
  PROVE  IInv'
<1>1. pc[p] = "execute" /\ pc[c] = "none" /\ p # c
  BY DEF ThreadCreate, At
<1>2. \A q \in All : pc'[q] = IF q = c THEN "load" ELSE IF q = p THEN "flag" ELSE pc[q]
  BY <1>1 DEF ThreadCreate, IInv, Types
<1>3. /\ parent_thread' = [parent_thread EXCEPT ![c] = p]
      /\ UNCHANGED <<parent_wait_sema, temp_child>>
      /\ children_thread_list' =
           [children_thread_list EXCEPT ![p] = Append(children_thread_list[p], c)]
  BY DEF ThreadCreate, sema_vars
<1>4. ~Contains(children_thread_list[p], c) /\ children_thread_list[p] \in Seq(Procs)
  BY <1>1 DEF IInv, Types, Family, Alive
<1>5. /\ children_thread_list'[p] \in Seq(Procs) /\ IsInjective(children_thread_list'[p])
      /\ \A e \in Procs : Contains(children_thread_list'[p], e)
                            <=> Contains(children_thread_list[p], e) \/ e = c
  BY <1>3, <1>4, AppendElements DEF IInv, Types, Family
<1>6. \A q \in All \ {p} : children_thread_list'[q] = children_thread_list[q]
  BY <1>3 DEF IInv, Types
<1>7. \A e \in Procs : parent_thread'[e] = IF e = c THEN p ELSE parent_thread[e]
  BY <1>3 DEF IInv, Types
<1>8. \A e \in Procs : Alive(e)' <=> Alive(e) \/ e = c
  BY <1>1, <1>2 DEF Alive
<1>9. Types'
  BY <1>3, <1>5, Zenon DEF IInv, Types, ThreadCreate
<1>10. Family'
  <2>1. \A e \in Procs : pc'[e] # "none" => parent_thread'[e] \in All
    BY <1>1, <1>2, <1>7 DEF IInv, Family
  <2>2. \A q \in All : IsInjective(children_thread_list'[q])
    BY <1>5, <1>6 DEF IInv, Family
  <2>3. ASSUME NEW q \in All, NEW e \in Procs
        PROVE  Contains(children_thread_list'[q], e) <=> parent_thread'[e] = q /\ Alive(e)'
    <3>1. CASE q = p
      BY <1>1, <1>5, <1>7, <1>8, <3>1 DEF IInv, Family
    <3>2. CASE q # p
      BY <1>1, <1>6, <1>7, <1>8, <3>2 DEF IInv, Family, Alive
    <3> QED BY <3>1, <3>2
  <2> QED BY <2>1, <2>2, <2>3 DEF Family
<1>11. Awaited'
  BY <1>1, <1>2, <1>3, <1>7, <1>8 DEF IInv, Awaited, Awaits
<1> QED BY <1>9, <1>10, <1>11 DEF IInv

\* process_wait chooses a child from its list, so one of its own that is alive.
LEMMA WaitFindKeeps ==
  ASSUME IInv, NEW p \in All, WaitFind(p)
  PROVE  IInv'
<1>1. CASE children_thread_list[p] = <<>>
  BY <1>1, Stays, Zenon DEF WaitFind, Halt, family_vars, list_vars, sema_vars, local_vars
<1>2. CASE children_thread_list[p] # <<>>
  <2> DEFINE list == children_thread_list[p]
             c == ChosenChild(list, arg[p])
  <2>1. /\ pc[p] = "find" /\ pc' = [pc EXCEPT ![p] = "down"]
        /\ temp_child' = [temp_child EXCEPT ![p] = c]
        /\ UNCHANGED <<parent_thread, children_thread_list, parent_wait_sema>>
    BY <1>2, Zenon DEF WaitFind, Goto, At, family_vars, list_vars, sema_vars
  <2>2. Contains(list, c) /\ c \in Procs
    <3>1. list \in Seq(Procs) /\ list # <<>>
      BY <1>2 DEF IInv, Types
    <3> HIDE DEF list
    <3>2. Len(list) \in 1..Len(list) /\ \A i \in 1..Len(list) : list[i] \in Procs
      BY <3>1
    <3> QED BY <3>1, <3>2, InRange DEF ChosenChild, Contains
  <2>3. parent_thread[c] = p /\ Alive(c)
    BY <2>2 DEF IInv, Family
  <2> HIDE DEF list, c
  <2>4. \A q \in All : pc'[q] = IF q = p THEN "down" ELSE pc[q]
    BY <2>1 DEF IInv, Types
  <2>5. \A q \in All : temp_child'[q] = IF q = p THEN c ELSE temp_child[q]
    BY <2>1 DEF IInv, Types
  <2>6. \A e \in All : Alive(e)' <=> Alive(e)
    BY <2>1, <2>4 DEF Alive
  <2>7. Types'
    BY <2>1, <2>2 DEF IInv, Types
  <2>8. Family'
    BY <2>1, <2>4, <2>6 DEF IInv, Family, Alive
  <2>9. Awaited'
    BY <2>1, <2>2, <2>3, <2>4, <2>5, <2>6 DEF IInv, Awaited, Awaits, Alive
  <2> QED BY <2>7, <2>8, <2>9 DEF IInv
<1> QED BY <1>1, <1>2

\* sema_down in process_wait lets the parent on only with the sema_up of its child.
LEMMA WaitDownKeeps ==
  ASSUME IInv, NEW p \in All, WaitDown(p)
  PROVE  IInv'
<1> DEFINE c == temp_child[p]
<1>1. pc[p] = "down" /\ UNCHANGED <<parent_thread, children_thread_list, temp_child>>
  BY Zenon DEF WaitDown, At, Halt, family_vars, list_vars, local_vars
<1>2. /\ c \in Procs /\ parent_thread[c] = p /\ pc[c] # "none"
      /\ ~Alive(c) => parent_wait_sema[c] > 0
  BY <1>1 DEF IInv, Awaited, Awaits
<1> HIDE DEF c
<1>3. CASE pc[c] = "freed"
  BY <1>3, Stays, Zenon DEF WaitDown, Halt, family_vars, list_vars, sema_vars, local_vars, c
<1>4. CASE pc[c] # "freed" /\ parent_wait_sema[c] = 0
  <2>0. ~(parent_wait_sema[c] > 0)
    BY <1>4
  <2>1. pc' = [pc EXCEPT ![p] = "waiting"] /\ UNCHANGED parent_wait_sema
    BY <1>4, <2>0, Zenon DEF WaitDown, Goto, sema_vars, c
  <2>2. \A q \in All : pc'[q] = IF q = p THEN "waiting" ELSE pc[q]
    BY <2>1 DEF IInv, Types
  <2>3. \A e \in All : Alive(e)' <=> Alive(e)
    BY <1>1, <2>2 DEF Alive
  <2>4. Types'
    BY <1>1, <2>1 DEF IInv, Types
  <2>5. Family'
    BY <1>1, <2>2, <2>3 DEF IInv, Family, Alive
  <2>6. Alive(c)
    BY <1>2, <1>4 DEF IInv, Types
  <2>7. Awaited'
    BY <1>1, <1>2, <2>1, <2>2, <2>3, <2>6 DEF IInv, Awaited, Awaits, Alive, c
  <2> QED BY <2>4, <2>5, <2>7 DEF IInv
<1>5. CASE pc[c] # "freed" /\ parent_wait_sema[c] > 0
  <2>0. parent_wait_sema[c] # 0
    BY <1>5
  <2>1. /\ pc' = [pc EXCEPT ![p] = "waited"]
        /\ parent_wait_sema' = [parent_wait_sema EXCEPT ![c] = parent_wait_sema[c] - 1]
    BY <1>5, <2>0, Zenon DEF WaitDown, Goto, c
  <2>2. \A q \in All : pc'[q] = IF q = p THEN "waited" ELSE pc[q]
    BY <2>1 DEF IInv, Types
  <2>3. \A e \in All : Alive(e)' <=> Alive(e)
    BY <1>1, <2>2 DEF Alive
  <2>4. Types'
    BY <1>1, <1>2, <1>5, <2>1 DEF IInv, Types
  <2>5. Family'
    BY <1>1, <2>2, <2>3 DEF IInv, Family, Alive
  <2>6. \A e \in Procs \ {c} : parent_wait_sema'[e] = parent_wait_sema[e]
    BY <2>1 DEF IInv, Types
  <2>7. Awaited'
    BY <1>1, <1>2, <2>2, <2>3, <2>6 DEF IInv, Awaited, Awaits, Alive
  <2> QED BY <2>4, <2>5, <2>7 DEF IInv
<1> QED BY <1>2, <1>3, <1>4, <1>5 DEF IInv, Types

\* thread_exit takes the process off its parent's list and either wakes the
\* parent that waits for it or leaves its sema_up for it.
LEMMA ThreadExitKeeps ==
  ASSUME IInv, NEW p \in Procs, ThreadExit(p)
  PROVE  IInv'
<1> DEFINE q == parent_thread[p]
<1>1. CASE pc[q] = "freed"
  BY <1>1, Stays, Zenon DEF ThreadExit, Halt, family_vars, list_vars, sema_vars, local_vars
<1>2. CASE pc[q] # "freed"
  <2> DEFINE list == children_thread_list[q]
             wakes == pc[q] = "waiting" /\ temp_child[q] = p
  <2>1. /\ pc[p] = "thread_exit" /\ UNCHANGED <<parent_thread, temp_child>>
        /\ children_thread_list' =
             [children_thread_list EXCEPT ![q] = Removed(list, Position(list, p))]
    BY <1>2 DEF ThreadExit, At, local_vars
  <2>2. q \in All /\ Contains(list, p) /\ list \in Seq(Procs) /\ IsInjective(list)
    BY <2>1, Zenon DEF IInv, Types, Family, Alive
  <2>3. Position(list, p) \in 1..Len(list) /\ list[Position(list, p)] = p
    BY <2>2 DEF Position, Contains
  <2>4. IF wakes
        THEN pc' = [pc EXCEPT ![p] = "dying", ![q] = "waited"] /\ UNCHANGED parent_wait_sema
        ELSE /\ pc' = [pc EXCEPT ![p] = "dying"]
             /\ parent_wait_sema' = [parent_wait_sema EXCEPT ![p] = parent_wait_sema[p] + 1]
    BY <1>2 DEF ThreadExit, Goto
  <2> HIDE DEF list, q
  <2>5. /\ children_thread_list'[q] \in Seq(Procs) /\ IsInjective(children_thread_list'[q])
        /\ \A e \in Procs : Contains(children_thread_list'[q], e) <=> Contains(list, e) /\ e # p
    <3>1. children_thread_list'[q] = Removed(list, Position(list, p))
      BY <2>1, <2>2, Zenon DEF IInv, Types
    <3> PICK i \in 1..Len(list) : i = Position(list, p) /\ list[i] = p
      BY <2>3, Zenon
    <3>2. /\ Removed(list, i) \in Seq(Procs) /\ IsInjective(Removed(list, i))
          /\ \A e : Contains(Removed(list, i), e) <=> Contains(list, e) /\ e # list[i]
      BY <2>2, RemovedElements, Zenon
    <3> QED BY <3>1, <3>2, Zenon
  <2>6. \A r \in All \ {q} : children_thread_list'[r] = children_thread_list[r]
    BY <2>1 DEF IInv, Types
  <2>7. /\ pc'[p] = "dying"
        /\ \A r \in All \ {p} : pc'[r] = IF wakes /\ r = q THEN "waited" ELSE pc[r]
        /\ pc' \in [All -> Places]
    <3>1. CASE wakes
      BY <2>1, <2>2, <2>4, <3>1, Zenon DEF IInv, Types
    <3>2. CASE ~wakes
      BY <2>4, <3>2, Zenon DEF IInv, Types
    <3> QED BY <3>1, <3>2
  <2>8. /\ parent_wait_sema' \in [Procs -> Nat]
        /\ ~wakes => parent_wait_sema'[p] > 0
        /\ \A e \in Procs \ {p} : parent_wait_sema'[e] = parent_wait_sema[e]
    <3>1. CASE wakes
      BY <2>4, <3>1 DEF IInv, Types
    <3>2. CASE ~wakes
      <4>1. parent_wait_sema' = [parent_wait_sema EXCEPT ![p] = parent_wait_sema[p] + 1]
        BY <2>4, <3>2
      <4>2. parent_wait_sema \in [Procs -> Nat] /\ parent_wait_sema[p] \in Nat
        BY DEF IInv, Types
      <4> QED BY <4>1, <4>2
    <3> QED BY <3>1, <3>2
  <2>9. \A e \in Procs : Alive(e)' <=> Alive(e) /\ e # p
    BY <2>7 DEF Alive
  <2>10. Types'
    BY <2>1, <2>5, <2>7, <2>8, Zenon DEF IInv, Types
  <2>11. Family'
    <3>1. \A e \in Procs : pc'[e] # "none" => parent_thread'[e] \in All
      BY <2>1, <2>7 DEF IInv, Family
    <3>2. \A r \in All : IsInjective(children_thread_list'[r])
      BY <2>5, <2>6 DEF IInv, Family
    <3>3. ASSUME NEW r \in All, NEW e \in Procs
          PROVE  Contains(children_thread_list'[r], e) <=> parent_thread'[e] = r /\ Alive(e)'
      <4>1. CASE r = q
        BY <2>1, <2>5, <2>9, <4>1 DEF IInv, Family, list
      <4>2. CASE r # q
        BY <2>1, <2>6, <2>9, <4>2 DEF IInv, Family, q
      <4> QED BY <4>1, <4>2
    <3> QED BY <3>1, <3>2, <3>3 DEF Family
  <2>12. Awaited'
    <3> SUFFICES ASSUME NEW r \in All, pc'[r] \in {"down", "waiting"}
                 PROVE  Awaits(r, temp_child[r])'
      BY DEF Awaited
    <3>1. pc'[r] = pc[r] /\ r # p /\ ~(wakes /\ r = q)
      BY <2>7
    <3>2. CASE temp_child[r] = p
      <4>1. r = q
        BY <3>1, <3>2 DEF IInv, Awaited, Awaits, q
      <4>2. ~wakes /\ pc[r] = "down"
        BY <3>1, <3>2, <4>1
      <4> QED BY <2>1, <2>7, <2>8, <3>1, <3>2, <4>1, <4>2 DEF Awaits, q
    <3>3. CASE temp_child[r] # p
      <4>1. temp_child[r] \in Procs \ {p}
        BY <3>1, <3>3 DEF IInv, Awaited, Awaits
      <4> QED BY <2>1, <2>7, <2>8, <2>9, <3>1, <4>1 DEF IInv, Awaited, Awaits
    <3> QED BY <3>2, <3>3
  <2> QED BY <2>10, <2>11, <2>12 DEF IInv
<1> QED BY <1>1, <1>2

\* A thread is freed after it left the list of its parent.
LEMMA DieKeeps ==
  ASSUME IInv, NEW p \in Procs, Die(p)
  PROVE  IInv'
<1>1. /\ pc[p] = "dying" /\ pc' = [pc EXCEPT ![p] = "freed"]
      /\ UNCHANGED <<parent_thread, children_thread_list, parent_wait_sema, temp_child>>
  BY DEF Die, At, Goto, family_vars, list_vars, sema_vars, local_vars
<1>2. \A q \in All : pc'[q] = IF q = p THEN "freed" ELSE pc[q]
  BY <1>1 DEF IInv, Types
<1>3. \A e \in All : Alive(e)' <=> Alive(e)
  BY <1>1, <1>2 DEF Alive
<1>4. Types'
  BY <1>1 DEF IInv, Types
<1>5. Family'
  BY <1>1, <1>2, <1>3 DEF IInv, Family, Alive
<1>6. Awaited'
  BY <1>1, <1>2, <1>3 DEF IInv, Awaited, Awaits
<1> QED BY <1>4, <1>5, <1>6 DEF IInv

\* The step of a thread that only moves on, or halts the model.
LEMMA OtherKernelSteps ==
  ASSUME IInv, NEW p \in All,
         \/ Exec(p) \/ OutOfPages(p) \/ LoadFailedTest(p) \/ FindLoading(p) \/ SyncDown(p)
         \/ WaitInfo(p) \/ Waited(p) \/ Reap(p) \/ ReapNext(p)
  PROVE  IInv'
<1> USE DEF At, Goto, Halt, family_vars, list_vars, sema_vars, local_vars
<1>1. CASE Exec(p)
  BY <1>1, Moves, Zenon DEF Exec, IInv, Types, Alive
<1>2. CASE OutOfPages(p)
  BY <1>2, Moves, Zenon DEF OutOfPages, IInv, Types, Alive
<1>3. CASE LoadFailedTest(p)
  <2>1. /\ pc[p] = "flag" /\ (UNCHANGED pc \/ pc' = [pc EXCEPT ![p] = "created"])
        /\ UNCHANGED <<parent_thread, children_thread_list, parent_wait_sema, temp_child>>
    BY <1>3, Zenon DEF LoadFailedTest
  <2> QED BY <2>1, Moves, Stays, Zenon DEF IInv, Types, Alive
<1>4. CASE FindLoading(p)
  BY <1>4, Moves, Stays, Zenon DEF FindLoading, IInv, Types, Alive
<1>5. CASE SyncDown(p)
  BY <1>5, Moves, Stays, Zenon DEF SyncDown, IInv, Types, Alive
<1>6. CASE WaitInfo(p)
  <2>1. /\ pc[p] = "wait" /\ \E x \in {"next", "user", "find"} : pc' = [pc EXCEPT ![p] = x]
        /\ UNCHANGED <<parent_thread, children_thread_list, parent_wait_sema>>
    BY <1>6, Zenon DEF WaitInfo, WaitReturn
  <2>2. UNCHANGED temp_child \/ temp_child' = [temp_child EXCEPT ![p] = NULL]
    BY <1>6, Zenon DEF WaitInfo, WaitReturn
  <2>3. /\ temp_child' \in [All -> Procs \cup {NULL}]
        /\ \A q \in All \ {p} : temp_child'[q] = temp_child[q]
    BY <2>2, Zenon DEF IInv, Types
  <2>4. PICK x \in {"next", "user", "find"} : pc' = [pc EXCEPT ![p] = x]
    BY <2>1, Zenon
  <2> QED BY <2>1, <2>3, <2>4, Moves, Zenon DEF Alive
<1>7. CASE Waited(p)
  BY <1>7, Moves, Zenon DEF Waited, WaitReturn, IInv, Types, Alive
<1>8. CASE Reap(p)
  BY <1>8, Moves, Stays, Zenon DEF Reap, IInv, Types, Alive
<1>9. CASE ReapNext(p)
  <2>1. /\ pc[p] = "next"
        /\ UNCHANGED pc \/ \E x \in {"post", "reap"} : pc' = [pc EXCEPT ![p] = x]
        /\ UNCHANGED <<parent_thread, children_thread_list, parent_wait_sema, temp_child>>
    BY <1>9, Zenon DEF ReapNext
  <2> QED BY <2>1, Moves, Stays, Zenon DEF IInv, Types, Alive
<1> QED BY <1>1, <1>2, <1>3, <1>4, <1>5, <1>6, <1>7, <1>8, <1>9

\* start_process ups parent_child_sync; a parent blocked in exec moves on as well.
LEMMA LoadedKeeps ==
  ASSUME IInv, NEW c \in Procs, Loaded(c)
  PROVE  IInv'
<1> DEFINE p == parent_thread[c]
<1>1. /\ pc[c] = "load" /\ p \in All
      /\ UNCHANGED <<parent_thread, children_thread_list, parent_wait_sema, temp_child>>
  BY Zenon DEF Loaded, At, list_vars, IInv, Family
<1>2. CASE pc[p] = "loading" /\ arg[p] = c
  <2>1. pc' = [pc EXCEPT ![c] = "user", ![p] = "user"]
    BY <1>2 DEF Loaded
  <2> HIDE DEF p
  <2>2. pc' \in [All -> Places] /\ \A q \in All : pc'[q] = IF q \in {c, p} THEN "user" ELSE pc[q]
    BY <1>1, <2>1, Zenon DEF IInv, Types
  <2>3. \A e \in All : Alive(e)' <=> Alive(e)
    BY <1>1, <1>2, <2>2 DEF Alive
  <2>4. Types'
    BY <1>1, <2>2 DEF IInv, Types
  <2>5. Family'
    BY <1>1, <1>2, <2>2, <2>3 DEF IInv, Family
  <2>6. Awaited'
    BY <1>1, <2>2, <2>3 DEF IInv, Awaited, Awaits
  <2> QED BY <2>4, <2>5, <2>6 DEF IInv
<1>3. CASE ~(pc[p] = "loading" /\ arg[p] = c)
  <2>1. pc' = [pc EXCEPT ![c] = "user"]
    BY <1>3 DEF Loaded, Goto
  <2> QED BY <1>1, <2>1, Moves, Zenon DEF IInv, Types, Alive
<1> QED BY <1>2, <1>3

\* The remaining system calls of a process change no list, parent or semaphore.
LEMMA OtherProcSteps ==
  ASSUME IInv, NEW p \in Procs,
         \/ LoadFailed(p) \/ (\E c \in Procs : Wait(p, c)) \/ (\E s \in Statuses : Exit(p, s))
         \/ Kill(p) \/ MarkExited(p)
  PROVE  IInv'
<1> USE DEF At, Goto, Halt, family_vars, list_vars, sema_vars, local_vars
<1>1. CASE LoadFailed(p)
  BY <1>1, Moves, Zenon DEF LoadFailed, IInv, Types, Alive
<1>2. CASE \E c \in Procs : Wait(p, c)
  <2>1. /\ pc[p] = "user" /\ pc' = [pc EXCEPT ![p] = "wait"]
        /\ UNCHANGED <<parent_thread, children_thread_list, parent_wait_sema, temp_child>>
    BY <1>2 DEF Wait
  <2> QED BY <2>1, Moves, Zenon DEF IInv, Types, Alive
<1>3. CASE \E s \in Statuses : Exit(p, s)
  <2>1. /\ pc[p] = "user" /\ \E x \in {"post", "reap"} : pc' = [pc EXCEPT ![p] = x]
        /\ UNCHANGED <<parent_thread, children_thread_list, parent_wait_sema, temp_child>>
    BY <1>3, Zenon DEF Exit
  <2> QED BY <2>1, Moves, Zenon DEF IInv, Types, Alive
<1>4. CASE Kill(p)
  BY <1>4, Moves, Zenon DEF Kill, IInv, Types, Alive
<1>5. CASE MarkExited(p)
  BY <1>5, Moves, Stays, Zenon DEF MarkExited, IInv, Types, Alive
<1> QED BY <1>1, <1>2, <1>3, <1>4, <1>5

-----------------------------------------------------------------------------
\* The invariant holds when the first process is started.
LEMMA InitHolds == Init => IInv
<1> SUFFICES ASSUME Init
             PROVE  IInv
  OBVIOUS
<1>1. Types
  BY DEF Init, Types
<1>2. Family
  BY DEF Init, Family, Alive, IsInjective, Contains
<1>3. Awaited
  BY DEF Init, Awaited
<1> QED BY <1>1, <1>2, <1>3 DEF IInv

\* IInv is inductive, so it holds in every reachable state.
THEOREM FamilyInvariant == Spec => []IInv
<1>1. Init => IInv
  BY InitHolds
<1>2. IInv /\ [Next]_vars => IInv'
  <2> SUFFICES ASSUME IInv, [Next]_vars
               PROVE  IInv'
    OBVIOUS
  <2>1. ASSUME NEW p \in All, Exec(p) \/ KernelStep(p)
        PROVE  IInv'
    BY <2>1, ThreadCreateKeeps, WaitFindKeeps, WaitDownKeeps, OtherKernelSteps DEF KernelStep
  <2>2. ASSUME NEW p \in Procs, ProcStep(p)
        PROVE  IInv'
    BY <2>2, LoadedKeeps, OtherProcSteps, ThreadExitKeeps, DieKeeps DEF ProcStep
  <2>3. CASE Halted \/ UNCHANGED vars
    BY <2>3, Stays DEF Halted, vars, family_vars, list_vars, sema_vars, local_vars
  <2> QED BY <2>1, <2>2, <2>3 DEF Next
<1> QED BY <1>1, <1>2, PTL DEF Spec

\* process_wait: for any number of processes and in any order of their calls, no
\* process stays blocked on a child that has gone through thread_exit.
THEOREM ExitsAreNotLost == Spec => []NoLostExit
<1>1. IInv => NoLostExit
  BY DEF IInv, Awaited, Awaits, Alive, NoLostExit
<1> QED BY <1>1, FamilyInvariant, PTL

\* thread_create and thread_exit keep children_thread_list exact: the living
\* children of the process, once each.
THEOREM ChildrenAreListed == Spec => []ChildrenListed
<1>1. IInv => ChildrenListed
  <2> SUFFICES ASSUME IInv, NEW p \in All
               PROVE  /\ IsInjective(children_thread_list[p])
                      /\ Range(children_thread_list[p]) =
                           {c \in Procs : parent_thread[c] = p /\ pc[c] # "none" /\ ~Gone(c)}
    BY DEF ChildrenListed
  <2>1. children_thread_list[p] \in Seq(Procs)
    BY DEF IInv, Types
  <2>2. \A c : c \in Range(children_thread_list[p])
                 <=> c \in Procs /\ Contains(children_thread_list[p], c)
    BY <2>1 DEF Range, Contains
  <2>3. \A c \in Procs : Contains(children_thread_list[p], c)
                           <=> parent_thread[c] = p /\ pc[c] # "none" /\ ~Gone(c)
    BY DEF IInv, Family, Alive, Gone
  <2> QED BY <2>2, <2>3 DEF IInv, Family
<1> QED BY <1>1, FamilyInvariant, PTL

-----------------------------------------------------------------------------
(* What exec and process_wait return.                                      *)

\* The search loops end at the child_info of the child, or somewhere in the list.
LEMMA FoundIn ==
  ASSUME NEW list \in Seq(Info), list # <<>>, Once(list), NEW c
  PROVE  /\ Found(list, c) \in 1..Len(list) /\ Chosen(list, c) \in Info
         /\ \A i \in 1..Len(list) : list[i].tid = c => Found(list, c) = i /\ Chosen(list, c).tid = c
<1>1. Len(list) \in Nat /\ Len(list) > 0 /\ \A i \in 1..Len(list) : list[i] \in Info
  OBVIOUS
<1>2. ASSUME NEW i \in 1..Len(list), list[i].tid = c
      PROVE  Found(list, c) = i
  <2>1. \A j \in 1..i-1 : j \in 1..Len(list) /\ j # i
    BY <1>1
  <2>2. \A j \in 1..i-1 : list[j].tid # c
    BY <1>2, <2>1, Zenon DEF Once
  <2> DEFINE P(k) == list[k].tid = c /\ \A j \in 1..k-1 : list[j].tid # c
             f == CHOOSE k \in 1..Len(list) : P(k)
  <2>3. f \in 1..Len(list) /\ P(f)
    <3>1. P(i)
      BY <1>2, <2>2
    <3> HIDE DEF P
    <3> QED BY <3>1, Zenon
  <2>4. Found(list, c) = f
    BY <1>2, Zenon DEF Found
  <2> HIDE DEF f
  <2> QED BY <1>2, <2>3, <2>4, Zenon DEF Once
<1>3. Found(list, c) \in 1..Len(list)
  <2>1. CASE \E i \in 1..Len(list) : list[i].tid = c
    BY <1>2, <2>1, Zenon
  <2>2. CASE ~\E i \in 1..Len(list) : list[i].tid = c
    <3>1. Found(list, c) = Len(list)
      BY <2>2, Zenon DEF Found
    <3> QED BY <1>1, <3>1
  <2> QED BY <2>1, <2>2
<1>4. Chosen(list, c) = list[Found(list, c)]
  BY DEF Chosen
<1> QED BY <1>1, <1>2, <1>3, <1>4, Zenon

\* What is true of a process once it stays true.
Settled ==
  \A c \in Procs :
    /\ Ended(c) => Ended(c)' /\ exit_status'[c] = exit_status[c]
    /\ ~Fresh(c) => ~Fresh(c)'
    /\ pc[c] # "none" => pc'[c] # "none" /\ parent_thread'[c] = parent_thread[c]

\* A step in which no child of q with a status ends, and none is reaped.
Quiet(q) ==
  \A c \in Procs : Knows(q, c) =>
    /\ Ended(c)' => Ended(c) \/ exit_status'[c] = 0
    /\ c \in reaped' => c \in reaped

\* A step that is none of q's.
Elsewhere(q) ==
  /\ pc'[q] = pc[q] /\ arg'[q] = arg[q] /\ temp'[q] = temp[q] /\ temp_child'[q] = temp_child[q]
  /\ cursor'[q] = cursor[q] /\ result'[q] = result[q]
Apart(q) == Elsewhere(q) /\ child_info_list'[q] = child_info_list[q] /\ Quiet(q)
Untouched(c) ==
  /\ parent_child_sync'[c] > 0 => parent_child_sync[c] > 0
  /\ parent_wait_sema'[c] > 0 => parent_wait_sema[c] > 0
  /\ exit_status'[c] = exit_status[c]
  /\ c \in reaped' => c \in reaped \/ pc[c] # "none"

\* The tids of child_infos are processes.
LEMMA KnownProcs ==
  ASSUME Data, NEW p \in All, NEW c, Knows(p, c)
  PROVE  c \in Procs
<1>1. PICK i \in 1..Len(child_info_list[p]) : child_info_list[p][i].tid = c
  BY DEF Knows
<1>2. child_info_list[p] \in Seq(Info)
  BY DEF Data
<1>3. child_info_list[p][i] \in Info
  BY <1>2
<1> QED BY <1>1, <1>3 DEF Info

\* They are the process's own children.
LEMMA KnownChild ==
  ASSUME NEW p \in All, Records(p), NEW c, Knows(p, c)
  PROVE  parent_thread[c] = p /\ pc[c] # "none"
<1>1. PICK i \in 1..Len(child_info_list[p]) : child_info_list[p][i].tid = c
  BY Zenon DEF Knows
<1>2. Right(p, child_info_list[p][i])
  BY Zenon DEF Records
<1> QED BY <1>1, <1>2, Zenon DEF Right

\* A process that another's step leaves alone keeps what is known of its calls.
LEMMA CallerStays ==
  ASSUME Data, NEW q \in All, Caller(q), Elsewhere(q), Settled,
         \A c \in Procs : Knows(q, c) /\ c \in reaped' => c \in reaped,
         \A c : Knows(q, c)' => Knows(q, c)
  PROVE  Caller(q)'
<1>1. pc[q] \in Starting /\ arg[q] # NULL => arg[q] \in Procs
  BY DEF Data
<1>2. \A c : Knows(q, c) => c \in Procs
  BY KnownProcs
<1>3. Loop(q)' /\ Starts(q)'
  BY <1>1 DEF Caller, Loop, Starts, Elsewhere, Settled
<1>4. Waits(q)'
  <2>1. Knows(q, arg[q])' => Knows(q, arg[q])
    BY Zenon DEF Elsewhere
  <2> QED BY <1>2, <2>1, Zenon DEF Caller, Waits, Elsewhere, Settled, Ended
<1>5. Answer(q)'
  <2>1. Knows(q, result[q].tid)' => Knows(q, result[q].tid)
    BY Zenon DEF Elsewhere
  <2>2. result'[q] = result[q] /\ pc'[q] = pc[q]
    BY Zenon DEF Elsewhere
  <2>3. \A c \in Procs : Ended(c) => pc'[c] \in {"thread_exit", "dying", "freed"} /\ exit_status'[c] = exit_status[c]
    BY Zenon DEF Settled, Ended
  <2>4. \A c \in Procs : ~Fresh(c) => pc'[c] \notin {"none", "load"}
    BY Zenon DEF Settled, Fresh
  <2> QED BY <1>2, <2>1, <2>2, <2>3, <2>4, Zenon DEF Caller, Answer, Ended, Fresh
<1> QED BY <1>3, <1>4, <1>5 DEF Caller

\* A child_info stays right.
LEMMA RightStays ==
  ASSUME NEW p \in All, NEW e \in Info, Right(p, e), Settled,
         Ended(e.tid)' => Ended(e.tid) \/ exit_status'[e.tid] = 0,
         e.tid \in reaped' => e.tid \in reaped
  PROVE  Right(p, e)'
<1>1. e.tid \in Procs
  BY DEF Info
<1> QED BY <1>1, Zenon DEF Right, Settled

\* The child_infos of a process after a step.
LEMMA RecordsAre ==
  ASSUME NEW p \in All, NEW list, child_info_list'[p] = list, Once(list),
         \A i \in 1..Len(list) : Right(p, list[i])'
  PROVE  Records(p)'
<1>1. Once(child_info_list[p])'
  BY Zenon DEF Once
<1>2. \A i \in 1..Len(child_info_list'[p]) : Right(p, child_info_list[p][i])'
  BY Zenon DEF Right, Ended
<1> QED BY <1>1, <1>2, Zenon DEF Records

\* Its child_infos stay right.
LEMMA RecordsStay ==
  ASSUME Data, NEW q \in All, Records(q), child_info_list'[q] = child_info_list[q], Settled,
         Quiet(q)
  PROVE  Records(q)'
<1>1. ASSUME NEW i \in 1..Len(child_info_list[q])
      PROVE  Right(q, child_info_list[q][i])'
  <2>1. child_info_list[q][i].tid \in Procs /\ Right(q, child_info_list[q][i])
    <3>1. child_info_list[q] \in Seq(Info)
      BY DEF Data
    <3>2. child_info_list[q][i] \in Info
      BY <3>1
    <3> QED BY <3>2 DEF Info, Records
  <2>2. Knows(q, child_info_list[q][i].tid)
    BY DEF Knows
  <2> QED BY <2>1, <2>2 DEF Right, Settled, Quiet
<1> QED BY <1>1 DEF Records

\* Steps of the processes in P: the others keep what is known of them.
LEMMA OthersKeep ==
  ASSUME Calls, Data', Settled, NEW P,
         \A q \in All \ P : Apart(q), \A c \in Procs \ P : Untouched(c),
         \A q \in All \cap P : Caller(q)' /\ Records(q)',
         \A c \in Procs \cap P : Child(c)'
  PROVE  Calls'
<1>1. ASSUME NEW q \in All
      PROVE  Caller(q)' /\ Records(q)'
  <2>1. CASE q \in P
    BY <2>1
  <2>2. CASE q \notin P
    <3>1. Data /\ Caller(q) /\ Records(q) /\ Apart(q)
      BY <2>2 DEF Calls
    <3>2. \A c : Knows(q, c)' => Knows(q, c)
      BY <3>1, Zenon DEF Apart, Knows
    <3>3. \A c \in Procs : Knows(q, c) /\ c \in reaped' => c \in reaped
      BY <3>1, Zenon DEF Apart, Quiet
    <3>4. Elsewhere(q) /\ child_info_list'[q] = child_info_list[q] /\ Quiet(q)
      BY <3>1, Zenon DEF Apart
    <3> QED BY <3>1, <3>2, <3>3, <3>4, CallerStays, RecordsStay, Zenon
  <2> QED BY <2>1, <2>2
<1>2. ASSUME NEW c \in Procs
      PROVE  Child(c)'
  <2>1. CASE c \in P
    BY <2>1
  <2>2. CASE c \notin P
    <3>1. Child(c) /\ Apart(c) /\ Untouched(c)
      BY <2>2 DEF Calls
    <3> QED BY <3>1 DEF Child, Apart, Elsewhere, Untouched, Settled, Fresh, Gone
  <2> QED BY <2>1, <2>2
<1> QED BY <1>1, <1>2 DEF Calls

\* A call returns nothing before it is over.
LEMMA NoAnswer ==
  ASSUME NEW p \in All, result'[p] = Nothing
  PROVE  Answer(p)'
<1>1. Nothing.call = "none"
  BY DEF Nothing
<1> QED BY <1>1, Zenon DEF Answer

\* Inside a call, and not in load or thread_exit.
Middle == Places \ {"none", "load", "thread_exit", "dying", "freed"}
NotExiting(p) == pc[p] \in Calling \/ (pc[p] \in InWait /\ cursor[p] = NULL)

\* Steps of one process inside its calls, child_infos left alone.
LEMMA LocalStep ==
  ASSUME IInv, Calls, Data', NEW p \in All, NEW x \in Middle, pc[p] \in Middle,
         pc' = [pc EXCEPT ![p] = x],
         UNCHANGED <<parent_thread, exit_status, reaped, child_info_list>>,
         \A q \in All \ {p} : /\ arg'[q] = arg[q] /\ temp'[q] = temp[q] /\ cursor'[q] = cursor[q]
                              /\ temp_child'[q] = temp_child[q] /\ result'[q] = result[q],
         \A c \in Procs : Untouched(c),
         Loop(p)', Starts(p)', Waits(p)', Answer(p)', NotExiting(p)' => NotExiting(p)
  PROVE  Calls'
<1>1. pc \in [All -> Places]
  BY Zenon DEF IInv, Types
<1>2. pc'[p] = x /\ \A q \in All \ {p} : pc'[q] = pc[q]
  BY <1>1, Zenon
<1>3. ~Ended(p) /\ ~Ended(p)' /\ ~Fresh(p)' /\ pc'[p] # "none"
  BY <1>2, Zenon DEF Ended, Fresh, Middle
<1>4. \A c \in Procs : Ended(c)' <=> Ended(c)
  BY <1>2, <1>3, Zenon DEF Ended
<1>5. Settled
  BY <1>2, <1>3, <1>4, Zenon DEF Settled, Fresh
<1>6. \A q \in All \ {p} : Apart(q)
  BY <1>2, <1>4, Zenon DEF Apart, Elsewhere, Quiet
<1>7. Records(p)'
  <2>1. Data /\ Records(p)
    BY Zenon DEF Calls
  <2>2. Quiet(p)
    BY <1>4, Zenon DEF Quiet
  <2> QED BY <2>1, <2>2, <1>5, RecordsStay, Zenon
<1>8. Caller(p)'
  BY Zenon DEF Caller
<1>9. ASSUME p \in Procs
      PROVE  Child(p)'
  <2>1. Child(p) /\ Untouched(p) /\ pc'[p] = x
    BY <1>2, <1>9, Zenon DEF Calls
  <2> QED BY <2>1, Zenon DEF Child, Untouched, Fresh, Gone, Middle, NotExiting
<1>10. /\ \A q \in All \cap {p} : Caller(q)' /\ Records(q)'
       /\ \A c \in Procs \cap {p} : Child(c)'
       /\ \A c \in Procs \ {p} : Untouched(c)
  BY <1>7, <1>8, <1>9, Zenon
<1> QED BY <1>5, <1>6, <1>10, OthersKeep, Zenon

\* sema_down and sema_up.
LEMMA Downed ==
  ASSUME NEW f \in [Procs -> Nat], NEW c, f[c] > 0
  PROVE  /\ [f EXCEPT ![c] = @ - 1] \in [Procs -> Nat]
         /\ \A d \in Procs : [f EXCEPT ![c] = @ - 1][d] > 0 => f[d] > 0
<1> DEFINE g == [f EXCEPT ![c] = @ - 1]
<1>1. g = [d \in Procs |-> g[d]] /\ \A d \in Procs : g[d] = IF d = c THEN f[d] - 1 ELSE f[d]
  BY Zenon
<1> HIDE DEF g
<1>2. ASSUME NEW d \in Procs
      PROVE  g[d] \in Nat /\ (g[d] > 0 => f[d] > 0)
  <2>1. CASE d = c
    BY <1>1, <2>1
  <2>2. CASE d # c
    BY <1>1, <2>2
  <2> QED BY <2>1, <2>2
<1>3. g \in [Procs -> Nat]
  BY <1>1, <1>2, Zenon
<1> QED BY <1>2, <1>3 DEF g
LEMMA Upped ==
  ASSUME NEW f \in [Procs -> Nat], NEW c
  PROVE  /\ [f EXCEPT ![c] = @ + 1] \in [Procs -> Nat]
         /\ \A d \in Procs \ {c} : [f EXCEPT ![c] = @ + 1][d] = f[d]
<1> DEFINE g == [f EXCEPT ![c] = @ + 1]
<1>1. g = [d \in Procs |-> g[d]] /\ \A d \in Procs : g[d] = IF d = c THEN f[d] + 1 ELSE f[d]
  BY Zenon
<1> HIDE DEF g
<1>2. ASSUME NEW d \in Procs
      PROVE  g[d] \in Nat
  BY <1>1
<1>3. g \in [Procs -> Nat]
  BY <1>1, <1>2, Zenon
<1> QED BY <1>1, <1>3, Zenon DEF g

\* A fault stops everything.
LEMMA CallsStay ==
  ASSUME Calls,
         UNCHANGED <<pc, parent_thread, exit_status, next, child_info_list, sema_vars, local_vars>>
  PROVE  Calls'
<1> USE DEF sema_vars, local_vars
<1>1. Data'
  BY Zenon DEF Calls, Data
<1>2. Settled
  BY Zenon DEF Settled, Ended, Fresh
<1>3. (\A q \in All \ {} : Apart(q)) /\ (\A c \in Procs \ {} : Untouched(c))
  BY Zenon DEF Apart, Elsewhere, Quiet, Ended, Untouched
<1>4. \A q : q \notin All \cap {} /\ q \notin Procs \cap {}
  OBVIOUS
<1> QED BY <1>1, <1>2, <1>3, <1>4, OthersKeep, Zenon

\* exec begins.
LEMMA ExecCalls ==
  ASSUME IInv, Calls, NEW p \in All, Exec(p)
  PROVE  Calls'
<1> USE DEF Exec, At, Goto, Forget, family_vars, list_vars, sema_vars
<1>1. Data'
  BY Zenon DEF Calls, Data
<1>2. /\ pc[p] = "user" /\ pc'[p] = "execute" /\ cursor'[p] = cursor[p] /\ result'[p] = Nothing
      /\ \A q \in All \ {p} : result'[q] = result[q]
  BY Zenon DEF IInv, Types, Calls, Data
<1>3. Loop(p)' /\ Starts(p)' /\ Waits(p)' /\ (NotExiting(p)' => NotExiting(p))
  BY <1>2, Zenon DEF Calls, Caller, Loop, Starts, Waits, NotExiting, Starting, InWait, Calling
<1>4. Answer(p)'
  BY <1>2, NoAnswer
<1>5. "user" \in Middle /\ "execute" \in Middle
  BY DEF Middle
<1>6. \A c \in Procs : Untouched(c)
  BY Zenon DEF Untouched
<1> QED BY <1>1, <1>2, <1>3, <1>4, <1>5, <1>6, LocalStep, Zenon

\* process_execute without a page.
LEMMA OutOfPagesCalls ==
  ASSUME IInv, Calls, NEW p \in All, OutOfPages(p)
  PROVE  Calls'
<1> USE DEF OutOfPages, At, Goto, family_vars, list_vars, sema_vars
<1>1. Data'
  BY Zenon DEF Calls, Data
<1>2. PICK x \in {"created", "flag"} : pc' = [pc EXCEPT ![p] = x]
  BY Zenon
<1>3. /\ pc[p] = "execute" /\ pc'[p] = x /\ cursor'[p] = cursor[p] /\ arg'[p] = NULL
      /\ \A q \in All \ {p} : arg'[q] = arg[q]
  BY <1>2, Zenon DEF IInv, Types, Calls, Data
<1>4. Loop(p)' /\ Starts(p)' /\ Waits(p)' /\ (NotExiting(p)' => NotExiting(p))
  BY <1>2, <1>3, Zenon DEF Calls, Caller, Loop, Starts, Waits, NotExiting, Starting, InWait, Calling
<1>5. Answer(p)'
  <2>1. result[p] = Nothing
    BY <1>3, Zenon DEF Calls, Caller, Answer
  <2> QED BY <2>1, NoAnswer
<1>6. "execute" \in Middle /\ x \in Middle
  BY <1>2 DEF Middle
<1>7. \A c \in Procs : Untouched(c)
  BY Zenon DEF Untouched
<1> QED BY <1>1, <1>2, <1>3, <1>4, <1>5, <1>6, <1>7, LocalStep, Zenon

\* What exec returns: a child whose load is over.
LEMMA ExecReturns ==
  ASSUME Data, NEW p \in All, ExecReturn(p), pc'[p] = "user",
         arg[p] # NULL => arg[p] \in Procs /\ pc'[arg[p]] \notin {"none", "load"}
  PROVE  Answer(p)'
<1> DEFINE v == IF arg[p] = NULL THEN -1 ELSE 0
<1>1. result'[p] = [call |-> "exec", tid |-> arg[p], value |-> v]
  BY Zenon DEF Data, ExecReturn
<1> HIDE DEF v
<1>2. result'[p].call = "exec" /\ result'[p].tid = arg[p]
  BY <1>1
<1>3. "exec" # "wait"
  OBVIOUS
<1> QED BY <1>2, <1>3, Zenon DEF Answer, Fresh

\* exec looks for its child: if it has left the list, it has ended.
LEMMA FindLoadingCalls ==
  ASSUME IInv, Calls, NEW p \in All, FindLoading(p)
  PROVE  Calls'
<1> USE DEF At, Goto, family_vars, list_vars, sema_vars
<1>0. /\ UNCHANGED <<family_vars, list_vars, sema_vars, temp, temp_child, cursor, reaped>>
      /\ pc[p] = "created"
  BY Zenon DEF FindLoading
<1>1. Data'
  BY Zenon DEF FindLoading, Calls, Data, ExecReturn
<1>2. \A q \in All \ {p} : arg'[q] = arg[q] /\ result'[q] = result[q]
  BY Zenon DEF FindLoading, Calls, Data, ExecReturn
<1>3. \A c \in Procs : Untouched(c)
  BY <1>0, Zenon DEF Untouched
<1>4. pc[p] = "created" /\ cursor'[p] = cursor[p] /\ cursor[p] = NULL /\ result[p] = Nothing
  BY <1>0, Zenon DEF Calls, Caller, Loop, Calling, Starting, Answer
<1>5. CASE UNCHANGED <<arg, result>> /\ \E x \in {"wait", "sync"} : pc' = [pc EXCEPT ![p] = x]
  <2>1. PICK x \in {"wait", "sync"} : pc' = [pc EXCEPT ![p] = x]
    BY <1>5, Zenon
  <2>2. pc'[p] = x /\ pc[p] # "none" /\ arg'[p] = arg[p]
    BY <1>4, <1>5, <2>1, Zenon DEF IInv, Types
  <2>3. arg[p] # NULL => arg[p] \in All /\ parent_thread[arg[p]] = p /\ pc[arg[p]] # "none"
    BY <1>4, Zenon DEF Calls, Data, Caller, Starts, Starting
  <2>4. Starts(p)'
    <3>1. arg[p] # NULL => pc'[arg[p]] # "none"
      BY <2>1, <2>3, Zenon DEF IInv, Types
    <3> QED BY <1>0, <2>2, <2>3, <3>1, Zenon DEF Starts
  <2>5. Loop(p)' /\ Waits(p)' /\ (NotExiting(p)' => NotExiting(p))
    BY <1>4, <2>1, <2>2, Zenon DEF Loop, Waits, NotExiting, Starting, InWait, Calling
  <2>6. Answer(p)'
    BY <1>4, <1>5, NoAnswer
  <2>7. "created" \in Middle /\ x \in Middle
    BY DEF Middle
  <2> QED BY <1>0, <1>1, <1>2, <1>3, <1>4, <2>1, <2>4, <2>5, <2>6, <2>7, LocalStep, Zenon
<1>6. CASE children_thread_list[p] = <<>> /\ pc' = [pc EXCEPT ![p] = "user"] /\ ExecReturn(p)
  <2>1. pc'[p] = "user" /\ \A q \in All \ {p} : pc'[q] = pc[q]
    BY <1>6, Zenon DEF IInv, Types
  <2>2. arg[p] # NULL => arg[p] \in Procs /\ parent_thread[arg[p]] = p /\ pc[arg[p]] # "none"
    BY <1>4, Zenon DEF Calls, Data, Caller, Starts, Starting
  <2>3. ASSUME arg[p] # NULL
        PROVE  pc'[arg[p]] \notin {"none", "load"}
    <3>1. ~Contains(children_thread_list[p], arg[p])
      BY <1>6 DEF Contains
    <3>2. ~Alive(arg[p])
      BY <2>2, <2>3, <3>1, Zenon DEF IInv, Family
    <3>3. pc'[arg[p]] \in {pc[arg[p]], "user"}
      BY <2>1, <2>2, <2>3, Zenon
    <3>4. pc[arg[p]] \in {"dying", "freed"}
      BY <2>2, <2>3, <3>2, Zenon DEF Alive
    <3> QED BY <3>3, <3>4, Zenon
  <2>4. Answer(p)'
    <3>1. Data
      BY DEF Calls
    <3> QED BY <1>6, <2>1, <2>2, <2>3, <3>1, ExecReturns
  <2>5. Loop(p)' /\ Starts(p)' /\ Waits(p)' /\ (NotExiting(p)' => NotExiting(p))
    BY <1>4, <2>1, Zenon DEF Loop, Starts, Waits, NotExiting, Starting, InWait, Calling
  <2>6. "created" \in Middle /\ "user" \in Middle
    BY DEF Middle
  <2> QED BY <1>0, <1>1, <1>2, <1>3, <1>4, <1>6, <2>4, <2>5, <2>6, LocalStep, Zenon
<1>7. CASE UNCHANGED <<pc, arg, result>>
  BY <1>0, <1>7, CallsStay, Zenon DEF local_vars
<1> QED BY <1>5, <1>6, <1>7, Zenon DEF FindLoading

\* The answer of a child is there only after its load.
LEMMA SyncDownCalls ==
  ASSUME IInv, Calls, NEW p \in All, SyncDown(p)
  PROVE  Calls'
<1> USE DEF At, Goto, family_vars, list_vars, sema_vars, local_vars
<1>1. pc[p] = "sync" /\ cursor[p] = NULL /\ result[p] = Nothing
  BY Zenon DEF SyncDown, Calls, Caller, Loop, Calling, Starting, Answer
<1>2. arg[p] # NULL => arg[p] \in Procs /\ parent_thread[arg[p]] = p /\ pc[arg[p]] # "none"
  BY <1>1, Zenon DEF Calls, Data, Caller, Starts, Starting
<1>3. "sync" \in Middle /\ "user" \in Middle /\ "loading" \in Middle
  BY DEF Middle
<1>4. CASE Halt("freed thread")
  BY <1>4, CallsStay, Zenon DEF Halt
<1>5. CASE pc' = [pc EXCEPT ![p] = "loading"]
           /\ UNCHANGED <<family_vars, list_vars, sema_vars, filesys_lock, local_vars>>
  <2>1. Data'
    BY <1>5, Zenon DEF Calls, Data
  <2>2. pc'[p] = "loading" /\ \A q \in All \ {p} : pc'[q] = pc[q]
    BY <1>5, Zenon DEF IInv, Types
  <2>3. \A c \in Procs : Untouched(c)
    BY <1>5, Zenon DEF Untouched
  <2>4. Starts(p)'
    <3>1. arg[p] # NULL => pc'[arg[p]] # "none"
      BY <2>2, <1>2, Zenon
    <3> QED BY <1>5, <1>2, <2>2, <3>1, Zenon DEF Starts
  <2>5. Loop(p)' /\ Waits(p)' /\ (NotExiting(p)' => NotExiting(p))
    BY <1>1, <1>5, <2>2, Zenon DEF Loop, Waits, NotExiting, Starting, InWait, Calling
  <2>6. Answer(p)'
    BY <1>1, <1>5, NoAnswer
  <2> QED BY <1>1, <1>3, <1>5, <2>1, <2>3, <2>4, <2>5, <2>6, LocalStep, Zenon
<1>6. CASE /\ parent_child_sync[arg[p]] > 0
           /\ parent_child_sync' = [parent_child_sync EXCEPT ![arg[p]] = @ - 1]
           /\ pc' = [pc EXCEPT ![p] = "user"] /\ ExecReturn(p)
           /\ UNCHANGED <<family_vars, list_vars, parent_wait_sema, temp, temp_child, cursor,
                          reaped>>
  <2>1. Data'
    <3>1. parent_child_sync' \in [Procs -> Nat]
      BY <1>6, Downed, Zenon DEF Calls, Data
    <3> QED BY <1>6, <3>1, Zenon DEF Calls, Data, ExecReturn
  <2>2. pc'[p] = "user" /\ \A q \in All \ {p} : pc'[q] = pc[q]
    BY <1>6, Zenon DEF IInv, Types
  <2>3. \A q \in All \ {p} : arg'[q] = arg[q] /\ result'[q] = result[q]
    BY <1>6, Zenon DEF Calls, Data, ExecReturn
  <2>4. \A c \in Procs : Untouched(c)
    <3>1. \A c \in Procs : parent_child_sync'[c] > 0 => parent_child_sync[c] > 0
      BY <1>6, Downed, Zenon DEF Calls, Data
    <3> QED BY <1>6, <3>1, Zenon DEF Untouched
  <2>5. arg[p] # NULL => pc'[arg[p]] \notin {"none", "load"}
    <3>1. arg[p] # NULL => ~Fresh(arg[p])
      BY <1>2, <1>6, Zenon DEF Calls, Child
    <3> QED BY <1>2, <2>2, <3>1, Zenon DEF Fresh
  <2>6. Answer(p)'
    <3>1. Data
      BY DEF Calls
    <3> QED BY <1>2, <1>6, <2>2, <2>5, <3>1, ExecReturns
  <2>7. Loop(p)' /\ Starts(p)' /\ Waits(p)' /\ (NotExiting(p)' => NotExiting(p))
    BY <1>1, <1>6, <2>2, Zenon DEF Loop, Starts, Waits, NotExiting, Starting, InWait, Calling
  <2> QED BY <1>1, <1>3, <1>6, <2>1, <2>3, <2>4, <2>6, <2>7, LocalStep, Zenon
<1> QED BY <1>4, <1>5, <1>6, Zenon DEF SyncDown

\* wait begins.
LEMMA WaitCalls ==
  ASSUME IInv, Calls, NEW p \in Procs, NEW c \in Procs, Wait(p, c)
  PROVE  Calls'
<1> USE DEF Wait, At, Goto, Forget, family_vars, list_vars, sema_vars
<1>1. Data'
  BY Zenon DEF Calls, Data
<1>2. /\ pc[p] = "user" /\ pc'[p] = "wait" /\ cursor'[p] = cursor[p] /\ result'[p] = Nothing
      /\ \A q \in All \ {p} : result'[q] = result[q] /\ arg'[q] = arg[q]
  BY Zenon DEF IInv, Types, Calls, Data
<1>3. Loop(p)' /\ Starts(p)' /\ Waits(p)' /\ (NotExiting(p)' => NotExiting(p))
  BY <1>2, Zenon DEF Calls, Caller, Loop, Starts, Waits, NotExiting, Starting, InWait, Calling
<1>4. Answer(p)'
  BY <1>2, NoAnswer
<1>5. "user" \in Middle /\ "wait" \in Middle
  BY DEF Middle
<1>6. \A d \in Procs : Untouched(d)
  BY Zenon DEF Untouched
<1> QED BY <1>1, <1>2, <1>3, <1>4, <1>5, <1>6, LocalStep, Zenon

\* exit's loop begins to wait for a child.
LEMMA ReapCalls ==
  ASSUME IInv, Calls, NEW p \in All, Reap(p)
  PROVE  Calls'
<1> USE DEF At, Goto, family_vars, list_vars, sema_vars, local_vars
<1>1. CASE Halt("freed thread")
  BY <1>1, CallsStay, Zenon DEF Halt
<1>2. CASE /\ arg' = [arg EXCEPT ![p] = cursor[p]] /\ pc' = [pc EXCEPT ![p] = "wait"]
           /\ UNCHANGED <<family_vars, list_vars, sema_vars, temp, temp_child, cursor, result,
                          reaped>>
  <2>1. Data'
    <3>1. cursor[p] \in Procs \cup {NULL}
      BY Zenon DEF Calls, Data
    <3> QED BY <1>2, <3>1, Zenon DEF Calls, Data
  <2>2. /\ pc[p] = "reap" /\ pc'[p] = "wait" /\ cursor'[p] = cursor[p] /\ cursor[p] # NULL
        /\ result'[p] = Nothing /\ \A q \in All \ {p} : arg'[q] = arg[q]
    BY <1>2, Zenon DEF Reap, IInv, Types, Calls, Data, Caller, Answer, Loop
  <2>3. Loop(p)' /\ Starts(p)' /\ Waits(p)' /\ (NotExiting(p)' => NotExiting(p))
    BY <2>2, Zenon DEF Loop, Starts, Waits, NotExiting, Starting, InWait, Calling
  <2>4. Answer(p)'
    BY <2>2, NoAnswer
  <2>5. "reap" \in Middle /\ "wait" \in Middle
    BY DEF Middle
  <2>6. \A d \in Procs : Untouched(d)
    BY <1>2, Zenon DEF Untouched
  <2> QED BY <1>2, <2>1, <2>2, <2>3, <2>4, <2>5, <2>6, LocalStep, Zenon
<1> QED BY <1>1, <1>2, Zenon DEF Reap

\* Where list_next leads.
LEMMA SuccessorIn ==
  ASSUME NEW S, NEW list \in Seq(S), NEW c \in Range(list)
  PROVE  Successor(list, c) \in S \cup {NULL}
<1>1. \E i \in 1..Len(list) : list[i] = c
  BY DEF Range
<1>2. Position(list, c) \in 1..Len(list)
  BY <1>1, Zenon DEF Position
<1> QED BY <1>2 DEF Successor

\* exit's loop goes on.
LEMMA ReapNextCalls ==
  ASSUME IInv, Calls, NEW p \in All, ReapNext(p)
  PROVE  Calls'
<1> USE DEF At, Goto, family_vars, list_vars, sema_vars, local_vars
<1> DEFINE e == IF cursor[p] \in Range(children_thread_list[p])
                THEN Successor(children_thread_list[p], cursor[p])
                ELSE next[cursor[p]]
<1>1. pc[p] = "next" /\ result[p] = Nothing /\ cursor[p] \in Procs
  <2>1. pc[p] = "next"
    BY Zenon DEF ReapNext
  <2>2. cursor[p] # NULL /\ result[p] = Nothing
    BY <2>1, Zenon DEF Calls, Caller, Loop, Answer
  <2> QED BY <2>1, <2>2, Zenon DEF Calls, Data
<1>2. e \in Procs \cup {NULL}
  <2>1. next[cursor[p]] \in Procs \cup {NULL}
    BY <1>1, Zenon DEF Calls, Data
  <2>2. children_thread_list[p] \in Seq(Procs)
    BY Zenon DEF IInv, Types
  <2> QED BY <2>1, <2>2, SuccessorIn
<1>3. CASE Halt("freed thread")
  BY <1>3, CallsStay, Zenon DEF Halt
<1>4. CASE /\ cursor' = [cursor EXCEPT ![p] = e]
           /\ pc' = [pc EXCEPT ![p] = IF e = NULL THEN "post" ELSE "reap"]
           /\ UNCHANGED <<family_vars, list_vars, sema_vars, arg, temp, temp_child, result, reaped>>
  <2> HIDE DEF e
  <2>1. Data'
    BY <1>2, <1>4, Zenon DEF Calls, Data
  <2>2. PICK x \in {"post", "reap"} : pc' = [pc EXCEPT ![p] = x] /\ (x = "reap" => e # NULL)
    BY <1>4, Zenon
  <2>3. /\ pc'[p] = x /\ cursor'[p] = e /\ result'[p] = Nothing
        /\ \A q \in All \ {p} : cursor'[q] = cursor[q]
    BY <1>1, <1>4, <2>2, Zenon DEF IInv, Types, Calls, Data
  <2>4. Loop(p)' /\ Starts(p)' /\ Waits(p)' /\ ~NotExiting(p)'
    BY <2>2, <2>3, Zenon DEF Loop, Starts, Waits, NotExiting, Starting, InWait, Calling
  <2>5. Answer(p)'
    BY <2>3, NoAnswer
  <2>6. "next" \in Middle /\ x \in Middle
    BY DEF Middle
  <2>7. \A d \in Procs : Untouched(d)
    BY <1>4, Zenon DEF Untouched
  <2> QED BY <1>1, <1>4, <2>1, <2>2, <2>3, <2>4, <2>5, <2>6, <2>7, LocalStep, Zenon
<1> QED BY <1>3, <1>4, Zenon DEF ReapNext

\* process_wait's second loop: it finds the child, or the child has gone.
LEMMA WaitFindCalls ==
  ASSUME IInv, Calls, NEW p \in All, WaitFind(p)
  PROVE  Calls'
<1> USE DEF At, Goto, family_vars, list_vars, sema_vars, local_vars
<1>1. pc[p] = "find" /\ result[p] = Nothing
  BY Zenon DEF WaitFind, Calls, Caller, Answer
<1>2. CASE Halt("uninitialised pointer")
  BY <1>2, CallsStay, Zenon DEF Halt
<1>3. CASE /\ temp_child' = [temp_child EXCEPT ![p] = ChosenChild(children_thread_list[p], arg[p])]
           /\ pc' = [pc EXCEPT ![p] = "down"]
           /\ UNCHANGED <<family_vars, list_vars, sema_vars, arg, temp, cursor, result, reaped>>
  <2>1. Data'
    BY <1>3, Zenon DEF Calls, Data
  <2>2. /\ pc'[p] = "down" /\ \A q \in All \ {p} : pc'[q] = pc[q]
        /\ temp_child'[p] = ChosenChild(children_thread_list[p], arg[p])
        /\ \A q \in All \ {p} : temp_child'[q] = temp_child[q]
    BY <1>3, Zenon DEF IInv, Types
  <2>3. ASSUME Knows(p, arg[p])
        PROVE  /\ temp[p] = arg[p] /\ arg[p] \notin reaped
               /\ temp_child'[p] = arg[p] \/ pc'[arg[p]] \in {"dying", "freed"}
    <3>1. temp[p] = arg[p] /\ arg[p] \notin reaped
      BY <1>1, <2>3, Zenon DEF Calls, Caller, Waits, InWait
    <3>2. arg[p] \in Procs
      BY <2>3, KnownProcs DEF Calls
    <3>3. parent_thread[arg[p]] = p /\ pc[arg[p]] # "none"
      BY <2>3, KnownChild, Zenon DEF Calls
    <3>4. CASE arg[p] \in Range(children_thread_list[p])
      BY <2>2, <3>1, <3>4, Zenon DEF ChosenChild
    <3>5. CASE arg[p] \notin Range(children_thread_list[p])
      <4>1. ~Contains(children_thread_list[p], arg[p])
        BY <3>5, InRange, Zenon DEF IInv, Types
      <4>2. ~Alive(arg[p])
        BY <3>2, <3>3, <4>1, Zenon DEF IInv, Family
      <4>3. pc[arg[p]] \in {"dying", "freed"}
        BY <3>3, <4>2, Zenon DEF Alive
      <4>4. arg[p] # p
        BY <1>1, <4>3, Zenon
      <4> QED BY <2>2, <3>1, <3>2, <4>3, <4>4, Zenon
    <3> QED BY <3>4, <3>5
  <2>4. Waits(p)'
    <3>1. Knows(p, arg[p])' => Knows(p, arg[p])
      BY <1>3, Zenon DEF Knows
    <3> QED BY <1>3, <2>2, <2>3, <3>1, Zenon DEF Waits, Ended
  <2>5. Loop(p)' /\ Starts(p)' /\ (NotExiting(p)' => NotExiting(p))
    BY <1>1, <1>3, <2>2, Zenon DEF Loop, Starts, NotExiting, Starting, InWait, Calling
  <2>6. Answer(p)'
    BY <1>1, <1>3, NoAnswer
  <2>7. "find" \in Middle /\ "down" \in Middle
    BY DEF Middle
  <2>8. \A d \in Procs : Untouched(d)
    BY <1>3, Zenon DEF Untouched
  <2> QED BY <1>1, <1>3, <2>1, <2>2, <2>4, <2>5, <2>6, <2>7, <2>8, LocalStep, Zenon
<1> QED BY <1>2, <1>3, Zenon DEF WaitFind

\* process_wait's sema_down: it passes when the child has gone.
LEMMA WaitDownCalls ==
  ASSUME IInv, Calls, NEW p \in All, WaitDown(p)
  PROVE  Calls'
<1> USE DEF At, Goto, family_vars, list_vars, sema_vars, local_vars
<1>1. pc[p] = "down" /\ result[p] = Nothing
  BY Zenon DEF WaitDown, Calls, Caller, Answer
<1>2. CASE Halt("freed thread")
  BY <1>2, CallsStay, Zenon DEF Halt
<1>3. ASSUME NEW x \in {"waiting", "waited"}, pc' = [pc EXCEPT ![p] = x], Data',
             UNCHANGED <<family_vars, list_vars, parent_child_sync, local_vars>>,
             \A d \in Procs : parent_wait_sema'[d] > 0 => parent_wait_sema[d] > 0,
             x = "waited" => parent_wait_sema[temp_child[p]] > 0
      PROVE  Calls'
  <2>1. pc'[p] = x /\ \A q \in All \ {p} : pc'[q] = pc[q]
    BY <1>3, Zenon DEF IInv, Types
  <2>2. ASSUME Knows(p, arg[p])
        PROVE  /\ temp[p] = arg[p] /\ arg[p] \notin reaped
               /\ x = "waiting" => temp_child[p] = arg[p] \/ Ended(arg[p])'
               /\ x = "waited" => Ended(arg[p])'
    <3>1. temp[p] = arg[p] /\ arg[p] \notin reaped /\ (temp_child[p] = arg[p] \/ Ended(arg[p]))
      BY <1>1, <2>2, Zenon DEF Calls, Caller, Waits, InWait
    <3>2. arg[p] \in Procs
      BY <2>2, KnownProcs DEF Calls
    <3>3. Ended(arg[p]) => Ended(arg[p])'
      <4>1. Ended(arg[p]) => arg[p] # p
        BY <1>1, Zenon DEF Ended
      <4> QED BY <1>3, <2>1, <3>2, <4>1, Zenon DEF Ended
    <3>4. x = "waited" /\ temp_child[p] = arg[p] => Ended(arg[p])
      BY <1>3, <3>2, Zenon DEF Calls, Child, Gone, Ended
    <3> QED BY <3>1, <3>3, <3>4, Zenon
  <2>3. Waits(p)'
    <3>1. Knows(p, arg[p])' => Knows(p, arg[p])
      BY <1>3, Zenon DEF Knows
    <3>2. x # "waiting" => x = "waited"
      BY Zenon
    <3> QED BY <1>3, <2>1, <2>2, <3>1, <3>2, Zenon DEF Waits
  <2>4. Loop(p)' /\ Starts(p)' /\ (NotExiting(p)' => NotExiting(p))
    BY <1>1, <1>3, <2>1, Zenon DEF Loop, Starts, NotExiting, Starting, InWait, Calling
  <2>5. Answer(p)'
    BY <1>1, <1>3, NoAnswer
  <2>6. "down" \in Middle /\ x \in Middle
    BY DEF Middle
  <2>7. \A d \in Procs : Untouched(d)
    BY <1>3, Zenon DEF Untouched
  <2> QED BY <1>1, <1>3, <2>3, <2>4, <2>5, <2>6, <2>7, LocalStep, Zenon
<1>4. CASE /\ pc' = [pc EXCEPT ![p] = "waiting"]
           /\ UNCHANGED <<family_vars, list_vars, sema_vars, local_vars>>
  <2>1. Data'
    BY <1>4, Zenon DEF Calls, Data
  <2>2. "waiting" # "waited"
    OBVIOUS
  <2> QED BY <1>3, <1>4, <2>1, <2>2, Zenon
<1>5. CASE /\ pc' = [pc EXCEPT ![p] = "waited"] /\ parent_wait_sema[temp_child[p]] > 0
           /\ parent_wait_sema' = [parent_wait_sema EXCEPT ![temp_child[p]] = @ - 1]
           /\ UNCHANGED <<family_vars, list_vars, parent_child_sync, local_vars>>
  <2>1. Data'
    BY <1>5, Zenon DEF Calls, Data
  <2>2. \A d \in Procs : parent_wait_sema'[d] > 0 => parent_wait_sema[d] > 0
    BY <1>5, Downed, Zenon DEF IInv, Types
  <2> QED BY <1>3, <1>5, <2>1, <2>2, Zenon
<1> QED BY <1>2, <1>4, <1>5, Zenon DEF WaitDown

\* The child_info of a known child, found by the search loop.
LEMMA ChosenRight ==
  ASSUME Data, NEW p \in All, Records(p), NEW c, Knows(p, c)
  PROVE  /\ child_info_list[p] # <<>>
         /\ Chosen(child_info_list[p], c).tid = c /\ Right(p, Chosen(child_info_list[p], c))
<1>1. PICK i \in 1..Len(child_info_list[p]) : child_info_list[p][i].tid = c
  BY Zenon DEF Knows
<1>2. child_info_list[p] \in Seq(Info) /\ Once(child_info_list[p])
  BY Zenon DEF Data, Records
<1>3. child_info_list[p] # <<>>
  BY <1>1, <1>2
<1>4. Found(child_info_list[p], c) = i
  BY <1>1, <1>2, <1>3, FoundIn, Zenon
<1>5. Right(p, child_info_list[p][i])
  BY Zenon DEF Records
<1> QED BY <1>1, <1>3, <1>4, <1>5, Zenon DEF Chosen

\* process_wait may return v.
Rightly(p, v) == v # -1 /\ Knows(p, arg[p]) => Ended(arg[p]) /\ v = exit_status[arg[p]]

\* process_wait returns, no child newly reaped.
LEMMA WaitReturnCalls ==
  ASSUME IInv, Calls, NEW p \in All, NEW v, pc[p] = "wait" \/ pc[p] = "waited", WaitReturn(p, v),
         UNCHANGED <<parent_thread, exit_status, next, child_info_list, parent_child_sync,
                     parent_wait_sema, cursor, reaped>>,
         Rightly(p, v)
  PROVE  Calls'
<1>1. /\ arg' = [arg EXCEPT ![p] = NULL] /\ temp' = [temp EXCEPT ![p] = NULL]
      /\ temp_child' = [temp_child EXCEPT ![p] = NULL]
      /\ \/ /\ cursor[p] # NULL /\ pc' = [pc EXCEPT ![p] = "next"] /\ result' = result
         \/ /\ cursor[p] = NULL /\ pc' = [pc EXCEPT ![p] = "user"]
            /\ result' = [result EXCEPT ![p] = [call |-> "wait", tid |-> arg[p], value |-> v]]
  BY Zenon DEF WaitReturn, Goto
<1>2. Data'
  BY <1>1, Zenon DEF Calls, Data
<1>3. \A q \in All \ {p} : /\ arg'[q] = arg[q] /\ temp'[q] = temp[q] /\ result'[q] = result[q]
                           /\ temp_child'[q] = temp_child[q]
  BY <1>1, Zenon DEF IInv, Types, Calls, Data
<1>4. result[p] = Nothing
  BY Zenon DEF Calls, Caller, Answer
<1>5. \A c \in Procs : Untouched(c)
  BY Zenon DEF Untouched
<1>6. "wait" \in Middle /\ "waited" \in Middle /\ "next" \in Middle /\ "user" \in Middle
  BY DEF Middle
<1>7. CASE cursor[p] # NULL /\ pc' = [pc EXCEPT ![p] = "next"] /\ result' = result
  <2>1. pc'[p] = "next"
    BY <1>7, Zenon DEF IInv, Types
  <2>2. Loop(p)' /\ Starts(p)' /\ Waits(p)' /\ ~NotExiting(p)'
    BY <1>7, <2>1, Zenon DEF Loop, Starts, Waits, NotExiting, Starting, InWait, Calling
  <2>3. Answer(p)'
    BY <1>4, <1>7, NoAnswer
  <2> QED BY <1>2, <1>3, <1>5, <1>6, <1>7, <2>2, <2>3, LocalStep, Zenon
<1>8. CASE /\ cursor[p] = NULL /\ pc' = [pc EXCEPT ![p] = "user"]
           /\ result' = [result EXCEPT ![p] = [call |-> "wait", tid |-> arg[p], value |-> v]]
  <2>1. pc'[p] = "user" /\ \A q \in All \ {p} : pc'[q] = pc[q]
    BY <1>8, Zenon DEF IInv, Types
  <2>2. Loop(p)' /\ Starts(p)' /\ Waits(p)'
    BY <1>8, <2>1, Zenon DEF Loop, Starts, Waits, Starting, InWait, Calling
  <2>3. NotExiting(p)
    BY <1>8, Zenon DEF NotExiting, InWait
  <2>4. result'[p] = [call |-> "wait", tid |-> arg[p], value |-> v]
    BY <1>8, Zenon DEF Calls, Data
  <2>5. result'[p].call = "wait" /\ result'[p].tid = arg[p] /\ result'[p].value = v
    BY <2>4
  <2>6. ASSUME v # -1, Knows(p, arg[p])
        PROVE  pc'[arg[p]] \in {"thread_exit", "dying", "freed"} /\ v = exit_status'[arg[p]]
    <3>1. Ended(arg[p]) /\ v = exit_status[arg[p]]
      BY <2>6, Zenon DEF Rightly
    <3>2. arg[p] \in Procs
      BY <2>6, KnownProcs DEF Calls
    <3>3. arg[p] # p
      BY <3>1, Zenon DEF Ended
    <3> QED BY <2>1, <3>1, <3>2, <3>3, Zenon DEF Ended
  <2>7. Answer(p)'
    <3>1. Knows(p, result[p].tid)' => Knows(p, arg[p])
      BY <2>5, Zenon DEF Knows
    <3>2. "wait" # "exec"
      OBVIOUS
    <3> QED BY <2>1, <2>5, <2>6, <3>1, <3>2, Zenon DEF Answer, Ended
  <2> QED BY <1>2, <1>3, <1>5, <1>6, <1>8, <2>2, <2>3, <2>7, LocalStep, Zenon
<1> QED BY <1>1, <1>7, <1>8, Zenon

\* The end of process_wait: it reads the status from the child's child_info.
LEMMA WaitedCalls ==
  ASSUME IInv, Calls, NEW p \in All, Waited(p)
  PROVE  Calls'
<1> USE DEF At, family_vars, list_vars, sema_vars
<1> DEFINE v == Chosen(child_info_list[p], temp[p]).exit_status
<1>1. /\ pc[p] = "waited" /\ WaitReturn(p, v)
      /\ UNCHANGED <<parent_thread, exit_status, next, child_info_list, parent_child_sync,
                     parent_wait_sema, cursor>>
  BY Zenon DEF Waited
<1>2. reaped' = reaped
  <2>1. pc[p] # "wait"
    BY <1>1, Zenon
  <2> QED BY <1>1, <2>1, Zenon DEF WaitReturn
<1>3. ASSUME Knows(p, arg[p])
      PROVE  Ended(arg[p]) /\ v = exit_status[arg[p]]
  <2>1. temp[p] = arg[p] /\ Ended(arg[p])
    BY <1>1, <1>3, Zenon DEF Calls, Caller, Waits, InWait
  <2>2. /\ Chosen(child_info_list[p], arg[p]).tid = arg[p]
        /\ Right(p, Chosen(child_info_list[p], arg[p]))
    BY <1>3, ChosenRight, Zenon DEF Calls
  <2>3. Chosen(child_info_list[p], arg[p]).exit_status = exit_status[arg[p]]
    BY <2>1, <2>2, Zenon DEF Right
  <2> QED BY <2>1, <2>3
<1> HIDE DEF v
<1>4. PICK w : w = v
  OBVIOUS
<1>5. WaitReturn(p, w) /\ (pc[p] = "wait" \/ pc[p] = "waited")
  BY <1>1, <1>4, Zenon
<1>6. Rightly(p, w)
  BY <1>3, <1>4, Zenon DEF Rightly
<1>7. UNCHANGED <<parent_thread, exit_status, next, child_info_list, parent_child_sync,
                  parent_wait_sema, cursor, reaped>>
  BY <1>1, <1>2, Zenon
<1> QED BY <1>5, <1>6, <1>7, WaitReturnCalls, Zenon

\* What marking a child_info as waited does to a list.
Marked(list, c) ==
  [i \in DOMAIN list |-> IF list[i].tid = c THEN [list[i] EXCEPT !.waited = TRUE] ELSE list[i]]
LEMMA MarkedList ==
  ASSUME NEW list \in Seq(Info), NEW c
  PROVE  /\ Marked(list, c) \in Seq(Info) /\ Len(Marked(list, c)) = Len(list)
         /\ \A i \in 1..Len(list) :
              /\ Marked(list, c)[i].tid = list[i].tid
              /\ Marked(list, c)[i].exit_status = list[i].exit_status
              /\ Marked(list, c)[i].exited = list[i].exited
              /\ list[i].tid = c => Marked(list, c)[i].waited
              /\ list[i].tid # c => Marked(list, c)[i] = list[i]
<1>1. DOMAIN list = 1..Len(list) /\ Len(list) \in Nat /\ \A i \in 1..Len(list) : list[i] \in Info
  OBVIOUS
<1>2. ASSUME NEW i \in 1..Len(list)
      PROVE  /\ Marked(list, c)[i] \in Info
             /\ Marked(list, c)[i].tid = list[i].tid
             /\ Marked(list, c)[i].exit_status = list[i].exit_status
             /\ Marked(list, c)[i].exited = list[i].exited
             /\ list[i].tid = c => Marked(list, c)[i].waited
             /\ list[i].tid # c => Marked(list, c)[i] = list[i]
  <2>1. Marked(list, c)[i] = IF list[i].tid = c THEN [list[i] EXCEPT !.waited = TRUE] ELSE list[i]
    BY <1>1, Zenon DEF Marked
  <2>2. list[i] \in Info
    BY <1>1
  <2> QED BY <2>1, <2>2, Zenon DEF Info
<1>3. /\ Marked(list, c) = [i \in 1..Len(list) |-> Marked(list, c)[i]]
      /\ DOMAIN Marked(list, c) = 1..Len(list)
  BY <1>1, Zenon DEF Marked
<1>4. Marked(list, c) \in Seq(Info)
  BY <1>1, <1>2, <1>3
<1>5. Len(Marked(list, c)) = Len(list)
  BY <1>1, <1>3, <1>4
<1> QED BY <1>2, <1>4, <1>5, Zenon

\* process_wait's first loop.
LEMMA WaitInfoCalls ==
  ASSUME IInv, Calls, NEW p \in All, WaitInfo(p)
  PROVE  Calls'
<1> DEFINE list == child_info_list[p]
           info == Chosen(list, arg[p])
           known == list # <<>> /\ info.tid = arg[p]
<1>1. /\ pc[p] = "wait"
      /\ UNCHANGED <<parent_thread, exit_status, next, parent_child_sync, parent_wait_sema, cursor>>
  BY Zenon DEF WaitInfo, At, family_vars, sema_vars
<1>2. Data /\ Records(p) /\ result[p] = Nothing
  BY <1>1, Zenon DEF Calls, Caller, Answer
<1>3. list \in Seq(Info) /\ Once(list)
  BY <1>2, Zenon DEF Data, Records
<1>4. CASE WaitReturn(p, -1) /\ UNCHANGED child_info_list
  <2>1. reaped' = reaped
    BY <1>4, Zenon DEF WaitReturn
  <2>2. PICK w : w = -1
    OBVIOUS
  <2>3. /\ WaitReturn(p, w) /\ (pc[p] = "wait" \/ pc[p] = "waited")
        /\ Rightly(p, w)
    BY <1>1, <1>4, <2>2, Zenon DEF Rightly
  <2>4. UNCHANGED <<parent_thread, exit_status, next, child_info_list, parent_child_sync,
                    parent_wait_sema, cursor, reaped>>
    BY <1>1, <1>4, <2>1, Zenon
  <2> QED BY <2>3, <2>4, WaitReturnCalls, Zenon
<1>5. CASE /\ list # <<>> /\ (known => ~info.exited) /\ temp' = [temp EXCEPT ![p] = info.tid]
           /\ pc' = [pc EXCEPT ![p] = "find"]
           /\ UNCHANGED <<child_info_list, arg, temp_child, result, reaped>>
  <2>1. info \in Info
    BY <1>3, <1>5, FoundIn, Zenon
  <2>2. info.tid \in Procs
    BY <2>1 DEF Info
  <2>3. Data'
    BY <1>1, <1>2, <1>5, <2>2, Zenon DEF Data
  <2>4. /\ pc'[p] = "find" /\ temp'[p] = info.tid /\ \A q \in All \ {p} : temp'[q] = temp[q]
    BY <1>2, <1>5, Zenon DEF IInv, Types, Data
  <2>5. ASSUME Knows(p, arg[p])
        PROVE  temp'[p] = arg[p] /\ arg[p] \notin reaped
    <3>1. info.tid = arg[p] /\ Right(p, info)
      BY <1>2, <2>5, ChosenRight, Zenon
    <3>2. ~info.exited
      BY <1>5, <3>1, Zenon
    <3> QED BY <2>4, <3>1, <3>2, Zenon DEF Right
  <2>6. Waits(p)'
    <3>1. Knows(p, arg[p])' => Knows(p, arg[p])
      BY <1>5, Zenon DEF Knows
    <3>2. arg'[p] = arg[p] /\ reaped' = reaped
      BY <1>5, Zenon
    <3> QED BY <2>4, <2>5, <3>1, <3>2, Zenon DEF Waits, InWait
  <2>7. Loop(p)' /\ Starts(p)' /\ (NotExiting(p)' => NotExiting(p))
    BY <1>1, <2>4, Zenon DEF Loop, Starts, NotExiting, Starting, InWait, Calling
  <2>8. Answer(p)'
    BY <1>2, <1>5, NoAnswer
  <2>9. "wait" \in Middle /\ "find" \in Middle
    BY DEF Middle
  <2>10. \A d \in Procs : Untouched(d)
    BY <1>1, <1>5, Zenon DEF Untouched
  <2> QED BY <1>1, <1>5, <2>3, <2>4, <2>6, <2>7, <2>8, <2>9, <2>10, LocalStep, Zenon
<1>6. CASE /\ known /\ info.exited /\ WaitReturn(p, info.exit_status)
           /\ child_info_list' = [child_info_list EXCEPT ![p] = Marked(@, arg[p])]
  <2>0. PICK c : c = arg[p]
    OBVIOUS
  <2>1. PICK v : v = info.exit_status
    OBVIOUS
  <2>2. info \in Info /\ \E i \in 1..Len(list) : info = list[i]
    BY <1>3, <1>6, FoundIn, Zenon DEF Chosen
  <2>3. Knows(p, c) /\ c \in Procs /\ Right(p, info) /\ info.tid = c
    BY <1>2, <1>6, <2>0, <2>2, KnownProcs, Zenon DEF Knows, Records
  <2>4. Ended(c) /\ v = exit_status[c] /\ parent_thread[c] = p /\ pc[c] # "none"
    BY <1>6, <2>1, <2>3, Zenon DEF Right
  <2>5. c # p
    BY <1>1, <2>4, Zenon DEF Ended
  <2>6. /\ arg' = [arg EXCEPT ![p] = NULL] /\ temp' = [temp EXCEPT ![p] = NULL]
        /\ temp_child' = [temp_child EXCEPT ![p] = NULL]
        /\ reaped \subseteq reaped' /\ reaped' \subseteq reaped \cup {c}
        /\ \/ cursor[p] # NULL /\ pc' = [pc EXCEPT ![p] = "next"] /\ result' = result
           \/ /\ cursor[p] = NULL /\ pc' = [pc EXCEPT ![p] = "user"]
              /\ result' = [result EXCEPT ![p] = [call |-> "wait", tid |-> c, value |-> v]]
    BY <1>6, <2>0, <2>1, Zenon DEF WaitReturn, Goto
  <2>7. /\ child_info_list'[p] = Marked(list, c)
        /\ \A q \in All \ {p} : child_info_list'[q] = child_info_list[q]
    BY <1>2, <1>6, <2>0, Zenon DEF Data
  <2>8. PICK x \in {"next", "user"} : pc' = [pc EXCEPT ![p] = x]
    BY <2>6, Zenon
  <2>9. pc'[p] = x /\ \A q \in All \ {p} : pc'[q] = pc[q]
    BY <2>8, Zenon DEF IInv, Types
  <2>10. Data'
    <3>1. Marked(list, c) \in Seq(Info)
      BY <1>3, MarkedList, Zenon
    <3>2. child_info_list' \in [All -> Seq(Info)]
      BY <1>2, <1>6, <2>0, <3>1, Zenon DEF Data
    <3>3. reaped' \subseteq Procs
      BY <1>2, <2>3, <2>6, Zenon DEF Data
    <3> QED BY <1>1, <1>2, <2>6, <3>2, <3>3, Zenon DEF Data
  <2>11. Settled
    <3>1. pc \in [All -> Places]
      BY DEF IInv, Types
    <3>2. \A d \in Procs : d = p => ~Ended(d)
      BY <1>1, Zenon DEF Ended
    <3>3. \A d \in Procs : Ended(d) => Ended(d)'
      BY <2>9, <3>2, Zenon DEF Ended
    <3>4. \A d \in Procs : (~Fresh(d) => ~Fresh(d)') /\ (pc[d] # "none" => pc'[d] # "none")
      BY <2>9, Zenon DEF Fresh
    <3> QED BY <1>1, <3>3, <3>4, Zenon DEF Settled
  <2>12. \A q \in All \ {p} : Apart(q)
    <3>1. ASSUME NEW q \in All \ {p}, NEW d \in Procs, Knows(q, d)
          PROVE  (Ended(d)' => Ended(d)) /\ (d \in reaped' => d \in reaped)
      <4>1. parent_thread[d] = q
        BY <3>1, KnownChild, Zenon DEF Calls
      <4>2. d # c
        BY <2>4, <4>1, Zenon
      <4>3. ~Ended(p)'
        BY <2>9, Zenon DEF Ended
      <4> QED BY <2>6, <2>9, <4>2, <4>3, Zenon DEF Ended
    <3> QED BY <1>1, <1>2, <2>6, <2>7, <2>9, <3>1, Zenon DEF Apart, Elsewhere, Quiet, IInv, Types, Data
  <2>13. \A d \in Procs : Untouched(d)
    BY <1>1, <2>4, <2>6, Zenon DEF Untouched
  <2>14. Records(p)'
    <3>1. /\ Len(child_info_list'[p]) = Len(list)
          /\ \A i \in 1..Len(list) :
               /\ child_info_list'[p][i].tid = list[i].tid
               /\ child_info_list'[p][i].exit_status = list[i].exit_status
               /\ child_info_list'[p][i].exited = list[i].exited
               /\ list[i].tid = c => child_info_list'[p][i].waited
               /\ list[i].tid # c => child_info_list'[p][i] = list[i]
      <4>1. /\ Len(Marked(list, c)) = Len(list)
            /\ \A i \in 1..Len(list) :
                 /\ Marked(list, c)[i].tid = list[i].tid
                 /\ Marked(list, c)[i].exit_status = list[i].exit_status
                 /\ Marked(list, c)[i].exited = list[i].exited
                 /\ list[i].tid = c => Marked(list, c)[i].waited
                 /\ list[i].tid # c => Marked(list, c)[i] = list[i]
        BY <1>3, MarkedList
      <4> QED BY <2>7, <4>1, Zenon
    <3>2. ASSUME NEW i \in 1..Len(list)
          PROVE  Right(p, child_info_list[p][i])'
      <4>1. list[i] \in Info
        BY <1>3
      <4>2. list[i].tid \in Procs
        BY <4>1 DEF Info
      <4>3. Right(p, list[i])
        BY <1>2, Zenon DEF Records
      <4>4. Ended(list[i].tid) <=> pc'[list[i].tid] \in {"thread_exit", "dying", "freed"}
        <5>1. ~Ended(p) /\ ~Ended(p)'
          BY <1>1, <2>9, Zenon DEF Ended
        <5> QED BY <2>9, <4>2, <5>1, Zenon DEF Ended
      <4>5. pc'[list[i].tid] # "none"
        BY <2>9, <4>2, <4>3, Zenon DEF Right
      <4>6. CASE list[i].tid = c
        <5>1. Found(list, c) = i /\ info = list[i]
          <6>1. Found(list, c) = i
            BY <1>3, <1>6, <4>6, FoundIn, Zenon
          <6> QED BY <2>0, <6>1, Zenon DEF Chosen
        <5> QED BY <1>1, <1>6, <3>1, <4>3, <4>4, <4>5, <4>6, <5>1, Zenon DEF Right, Ended
      <4>7. CASE list[i].tid # c
        BY <1>1, <2>6, <3>1, <4>3, <4>4, <4>5, <4>7, Zenon DEF Right, Ended
      <4> QED BY <4>6, <4>7
    <3>3. Once(child_info_list[p])'
      <4>1. \A i, j \in 1..Len(list) :
              child_info_list'[p][i].tid = child_info_list'[p][j].tid => list[i].tid = list[j].tid
        BY <3>1, Zenon
      <4>2. \A i, j \in 1..Len(list) : list[i].tid = list[j].tid => i = j
        BY <1>3, Zenon DEF Once
      <4>3. \A i, j \in 1..Len(list) :
              child_info_list'[p][i].tid = child_info_list'[p][j].tid => i = j
        BY <4>1, <4>2, Zenon
      <4> QED BY <3>1, <4>3, Zenon DEF Once
    <3> QED BY <3>1, <3>2, <3>3, Zenon DEF Records
  <2>15. Caller(p)'
    <3>1. Loop(p)' /\ Starts(p)' /\ Waits(p)'
      BY <1>1, <2>6, <2>9, Zenon DEF IInv, Types, Loop, Starts, Waits, Starting, InWait, Calling
    <3>2. CASE result' = result
      <4>1. result'[p] = Nothing
        BY <1>2, <3>2, Zenon
      <4> QED BY <3>1, <4>1, NoAnswer, Zenon DEF Caller
    <3>3. CASE /\ pc' = [pc EXCEPT ![p] = "user"]
               /\ result' = [result EXCEPT ![p] = [call |-> "wait", tid |-> c, value |-> v]]
      <4>1. result'[p] = [call |-> "wait", tid |-> c, value |-> v]
        BY <1>2, <3>3, Zenon DEF Data
      <4>2. result'[p].call = "wait" /\ result'[p].tid = c /\ result'[p].value = v
        BY <4>1
      <4>3. pc'[c] \in {"thread_exit", "dying", "freed"} /\ v = exit_status'[c] /\ pc'[p] = "user"
        BY <1>1, <2>3, <2>4, <2>5, <2>9, <3>3, Zenon DEF Ended, IInv, Types
      <4>4. "wait" # "exec"
        OBVIOUS
      <4>5. Answer(p)'
        BY <4>2, <4>3, <4>4, Zenon DEF Answer, Ended
      <4> QED BY <3>1, <4>5, Zenon DEF Caller
    <3> QED BY <2>6, <3>2, <3>3, Zenon
  <2>16. ASSUME p \in Procs
         PROVE  Child(p)'
    <3>1. Child(p) /\ Untouched(p)
      BY <2>13, <2>16, Zenon DEF Calls
    <3>2. NotExiting(p)' => NotExiting(p)
      <4>1. CASE cursor[p] = NULL
        BY <1>1, <4>1, Zenon DEF NotExiting, InWait
      <4>2. CASE cursor[p] # NULL
        <5>1. pc'[p] = "next"
          BY <2>6, <4>2, Zenon DEF IInv, Types
        <5> QED BY <5>1, Zenon DEF NotExiting, InWait, Calling, Starting
      <4> QED BY <4>1, <4>2
    <3>3. ~Fresh(p)' /\ ~Gone(p) /\ pc'[p] # "none"
      BY <1>1, <2>9, Zenon DEF Fresh, Gone
    <3> QED BY <3>1, <3>2, <3>3, Zenon DEF Child, Untouched, NotExiting
  <2>17. /\ \A q \in All \cap {p} : Caller(q)' /\ Records(q)'
         /\ \A d \in Procs \cap {p} : Child(d)'
         /\ \A d \in Procs \ {p} : Untouched(d)
    BY <2>13, <2>14, <2>15, <2>16, Zenon
  <2> QED BY <2>10, <2>11, <2>12, <2>17, OthersKeep, Zenon
<1> QED BY <1>4, <1>5, <1>6, Zenon DEF WaitInfo, At, Goto, Marked

\* Steps of one process that leave child_infos and reaped alone.
LEMMA OneMoves ==
  ASSUME IInv, Calls, Data', Settled, NEW p \in All, NEW x \in Places, pc' = [pc EXCEPT ![p] = x],
         UNCHANGED child_info_list, \A q \in All : Quiet(q),
         \A q \in All \ {p} : /\ arg'[q] = arg[q] /\ temp'[q] = temp[q] /\ cursor'[q] = cursor[q]
                              /\ temp_child'[q] = temp_child[q] /\ result'[q] = result[q],
         \A c \in Procs \ {p} : Untouched(c),
         Loop(p)', Starts(p)', Waits(p)', Answer(p)', p \in Procs => Child(p)'
  PROVE  Calls'
<1>1. \A q \in All \ {p} : Apart(q)
  BY Zenon DEF Apart, Elsewhere, IInv, Types
<1>2. Records(p)'
  BY RecordsStay, Zenon DEF Calls
<1>3. Caller(p)'
  BY DEF Caller
<1>4. /\ \A q \in All \cap {p} : Caller(q)' /\ Records(q)'
      /\ \A c \in Procs \cap {p} : Child(c)'
  BY <1>2, <1>3, Zenon
<1> QED BY <1>1, <1>4, OthersKeep, Zenon

\* A process ends without having called exit: its status stays 0.
LEMMA EndsCalls ==
  ASSUME IInv, Calls, NEW p \in Procs, pc[p] = "load" \/ pc[p] = "user",
         pc' = [pc EXCEPT ![p] = "thread_exit"], result' = [result EXCEPT ![p] = Nothing],
         UNCHANGED <<parent_thread, exit_status, next, child_info_list, parent_child_sync,
                     parent_wait_sema, arg, temp, temp_child, cursor, reaped>>
  PROVE  Calls'
<1>1. Data'
  BY Zenon DEF Calls, Data
<1>2. pc'[p] = "thread_exit" /\ \A q \in All \ {p} : pc'[q] = pc[q]
  BY Zenon DEF IInv, Types
<1>3. result'[p] = Nothing /\ \A q \in All \ {p} : result'[q] = result[q]
  BY Zenon DEF Calls, Data
<1>4. Child(p)
  BY DEF Calls
<1>5. exit_status[p] = 0
  BY <1>4, Zenon DEF Child, Calling
<1>6. Settled
  BY <1>2, Zenon DEF Settled, Ended, Fresh
<1>7. \A q \in All : Quiet(q)
  BY <1>2, <1>5, Zenon DEF Quiet, Ended
<1>8. \A c \in Procs \ {p} : Untouched(c)
  BY Zenon DEF Untouched
<1>9. Loop(p)' /\ Starts(p)' /\ Waits(p)'
  BY <1>2, Zenon DEF Loop, Starts, Waits, Starting, InWait, Calling
<1>10. Answer(p)'
  BY <1>3, NoAnswer
<1>11. Child(p)'
  <2>1. ~Gone(p) /\ ~Fresh(p)' /\ pc'[p] # "none"
    BY <1>2, Zenon DEF Gone, Fresh
  <2> QED BY <1>4, <1>5, <2>1, Zenon DEF Child
<1>12. "thread_exit" \in Places
  OBVIOUS
<1> QED BY <1>1, <1>3, <1>6, <1>7, <1>8, <1>9, <1>10, <1>11, <1>12, OneMoves, Zenon

\* start_process after a failed load.
LEMMA LoadFailedCalls ==
  ASSUME IInv, Calls, NEW p \in Procs, LoadFailed(p)
  PROVE  Calls'
<1>1. /\ pc[p] = "load" /\ pc' = [pc EXCEPT ![p] = "thread_exit"] /\ result' = result
      /\ UNCHANGED <<parent_thread, exit_status, next, child_info_list, parent_child_sync,
                     parent_wait_sema, arg, temp, temp_child, cursor, reaped>>
  BY Zenon DEF LoadFailed, At, Goto, list_vars, sema_vars, local_vars
<1>2. result[p] = Nothing
  BY <1>1, Zenon DEF Calls, Caller, Answer
<1>3. result' = [result EXCEPT ![p] = Nothing]
  BY <1>1, <1>2, Zenon DEF Calls, Data
<1> QED BY <1>1, <1>3, EndsCalls, Zenon

\* kill.
LEMMA KillCalls ==
  ASSUME IInv, Calls, NEW p \in Procs, Kill(p)
  PROVE  Calls'
<1>1. /\ pc[p] = "user" /\ pc' = [pc EXCEPT ![p] = "thread_exit"]
      /\ result' = [result EXCEPT ![p] = Nothing]
      /\ UNCHANGED <<parent_thread, exit_status, next, child_info_list, parent_child_sync,
                     parent_wait_sema, arg, temp, temp_child, cursor, reaped>>
  BY Zenon DEF Kill, Forget, At, Goto, family_vars, list_vars, sema_vars
<1> QED BY <1>1, EndsCalls, Zenon

\* exit, up to its loop.
LEMMA ExitCalls ==
  ASSUME IInv, Calls, NEW p \in Procs, NEW s \in Statuses, Exit(p, s)
  PROVE  Calls'
<1> DEFINE x == IF children_thread_list[p] = <<>> THEN "post" ELSE "reap"
           e == First(children_thread_list[p])
<1>1. /\ pc[p] = "user" /\ pc' = [pc EXCEPT ![p] = x] /\ cursor' = [cursor EXCEPT ![p] = e]
      /\ exit_status' = [exit_status EXCEPT ![p] = s] /\ result' = [result EXCEPT ![p] = Nothing]
      /\ UNCHANGED <<parent_thread, next, child_info_list, parent_child_sync, parent_wait_sema,
                     arg, temp, temp_child, reaped>>
  BY Zenon DEF Exit, Forget, At, Goto, list_vars, sema_vars
<1>2. e \in Procs \cup {NULL} /\ (x = "reap" => e # NULL)
  <2>1. children_thread_list[p] \in Seq(Procs)
    BY Zenon DEF IInv, Types
  <2> QED BY <2>1 DEF First
<1>3. PICK y \in {"post", "reap"} : y = x
  BY Zenon
<1> HIDE DEF x, e
<1>4. Data'
  <2>1. s \in Nat
    BY Zenon
  <2> QED BY <1>1, <1>2, <2>1, Zenon DEF Calls, Data
<1>5. pc'[p] = y /\ \A q \in All \ {p} : pc'[q] = pc[q]
  BY <1>1, <1>3, Zenon DEF IInv, Types
<1>6. /\ result'[p] = Nothing /\ cursor'[p] = e
      /\ \A q \in All \ {p} : result'[q] = result[q] /\ cursor'[q] = cursor[q]
  BY <1>1, Zenon DEF Calls, Data
<1>7. Child(p) /\ \A c \in Procs \ {p} : exit_status'[c] = exit_status[c]
  BY <1>1, Zenon DEF Calls, Data
<1>8. ~Ended(p) /\ ~Ended(p)'
  BY <1>1, <1>5, Zenon DEF Ended
<1>9. Settled
  <2>1. \A c \in Procs : Ended(c) => Ended(c)' /\ exit_status'[c] = exit_status[c]
    BY <1>5, <1>7, <1>8, Zenon DEF Ended
  <2>2. \A c \in Procs : (~Fresh(c) => ~Fresh(c)') /\ (pc[c] # "none" => pc'[c] # "none")
    BY <1>5, Zenon DEF Fresh
  <2> QED BY <1>1, <2>1, <2>2, Zenon DEF Settled
<1>10. \A q \in All : Quiet(q)
  BY <1>1, <1>5, <1>8, Zenon DEF Quiet, Ended
<1>11. \A c \in Procs \ {p} : Untouched(c)
  BY <1>1, <1>7, Zenon DEF Untouched
<1>12. Loop(p)' /\ Starts(p)' /\ Waits(p)' /\ ~NotExiting(p)'
  BY <1>2, <1>3, <1>5, <1>6, Zenon DEF Loop, Starts, Waits, NotExiting, Starting, InWait, Calling
<1>13. Answer(p)'
  BY <1>6, NoAnswer
<1>14. Child(p)'
  <2>1. ~Gone(p) /\ ~Fresh(p)' /\ pc'[p] # "none"
    BY <1>1, <1>5, Zenon DEF Gone, Fresh
  <2> QED BY <1>1, <1>7, <1>12, <2>1, Zenon DEF Child, NotExiting
<1>15. y \in Places
  OBVIOUS
<1> QED BY <1>1, <1>3, <1>4, <1>6, <1>9, <1>10, <1>11, <1>12, <1>13, <1>14, <1>15, OneMoves, Zenon

\* The page is freed.
LEMMA DieCalls ==
  ASSUME IInv, Calls, NEW p \in Procs, Die(p)
  PROVE  Calls'
<1>1. /\ pc[p] = "dying" /\ pc' = [pc EXCEPT ![p] = "freed"]
      /\ UNCHANGED <<parent_thread, exit_status, next, child_info_list, parent_child_sync,
                     parent_wait_sema, arg, temp, temp_child, cursor, result, reaped>>
  BY Zenon DEF Die, At, Goto, family_vars, list_vars, sema_vars, local_vars
<1>2. Data'
  BY <1>1, Zenon DEF Calls, Data
<1>3. pc'[p] = "freed" /\ \A q \in All \ {p} : pc'[q] = pc[q]
  BY <1>1, Zenon DEF IInv, Types
<1>4. Child(p) /\ result[p] = Nothing
  BY <1>1, Zenon DEF Calls, Caller, Answer
<1>5. Settled
  BY <1>1, <1>3, Zenon DEF Settled, Ended, Fresh
<1>6. \A q \in All : Quiet(q)
  BY <1>1, <1>3, Zenon DEF Quiet, Ended
<1>7. \A c \in Procs \ {p} : Untouched(c)
  BY <1>1, Zenon DEF Untouched
<1>8. Loop(p)' /\ Starts(p)' /\ Waits(p)' /\ ~NotExiting(p)'
  BY <1>3, Zenon DEF Loop, Starts, Waits, NotExiting, Starting, InWait, Calling
<1>9. Answer(p)'
  BY <1>1, <1>4, NoAnswer
<1>10. Child(p)'
  <2>1. Gone(p)' /\ ~Fresh(p)' /\ pc'[p] # "none"
    BY <1>3, Zenon DEF Gone, Fresh
  <2> QED BY <1>8, <2>1, Zenon DEF Child, NotExiting
<1>11. "freed" \in Places
  OBVIOUS
<1> QED BY <1>1, <1>2, <1>5, <1>6, <1>7, <1>8, <1>9, <1>10, <1>11, OneMoves, Zenon

\* start_process after a successful load.
LEMMA LoadedCalls ==
  ASSUME IInv, Calls, NEW c \in Procs, Loaded(c)
  PROVE  Calls'
<1>0. PICK p : p = parent_thread[c]
  OBVIOUS
<1>1. /\ pc[c] = "load"
      /\ \/ /\ pc[p] = "loading" /\ arg[p] = c /\ pc' = [pc EXCEPT ![c] = "user", ![p] = "user"]
            /\ ExecReturn(p) /\ UNCHANGED parent_child_sync
         \/ /\ parent_child_sync' = [parent_child_sync EXCEPT ![c] = @ + 1]
            /\ pc' = [pc EXCEPT ![c] = "user"] /\ UNCHANGED <<arg, result>>
      /\ UNCHANGED <<parent_thread, exit_status, next, child_info_list, parent_wait_sema, temp,
                     temp_child, cursor, reaped>>
  BY <1>0, Zenon DEF Loaded, At, Goto, list_vars
<1>2. Data /\ Child(c) /\ Caller(c) /\ Records(c)
  BY Zenon DEF Calls
<1>3. p \in All
  BY <1>0, <1>1, Zenon DEF IInv, Family
<1>4. pc'[c] = "user" /\ \A q \in All \ {c} : pc'[q] = pc[q] \/ (q = p /\ pc[p] = "loading" /\ pc'[p] = "user")
  <2>1. pc[p] = "loading" => p # c
    BY <1>1, Zenon
  <2> QED BY <1>1, <1>3, <2>1, Zenon DEF IInv, Types
<1>5. Data'
  <2>1. parent_child_sync' \in [Procs -> Nat]
    <3>1. parent_child_sync \in [Procs -> Nat]
      BY <1>2, Zenon DEF Data
    <3>2. [parent_child_sync EXCEPT ![c] = @ + 1] \in [Procs -> Nat]
      BY <3>1, Upped
    <3> QED BY <1>1, <3>1, <3>2, Zenon
  <2> QED BY <1>1, <1>2, <2>1, Zenon DEF Data, ExecReturn
<1>6. Settled
  <2>1. \A d \in Procs : d # c /\ ~(pc[d] = "loading" /\ pc'[d] = "user") => pc'[d] = pc[d]
    BY <1>4, Zenon
  <2>2. \A d \in Procs : Ended(d) => Ended(d)'
    BY <1>1, <2>1, Zenon DEF Ended
  <2>3. \A d \in Procs : (~Fresh(d) => ~Fresh(d)') /\ (pc[d] # "none" => pc'[d] # "none")
    BY <1>1, <1>4, <2>1, Zenon DEF Fresh
  <2> QED BY <1>1, <2>2, <2>3, Zenon DEF Settled
<1>7. \A q \in All : Quiet(q)
  <2>1. \A d \in Procs : Ended(d)' => Ended(d)
    BY <1>1, <1>4, Zenon DEF Ended
  <2> QED BY <1>1, <2>1, Zenon DEF Quiet
<1>8. \A d \in Procs \ {c} : Untouched(d)
  <2>1. \A d \in Procs \ {c} : parent_child_sync'[d] = parent_child_sync[d]
    BY <1>1, <1>2, Zenon DEF Data
  <2> QED BY <1>1, <2>1, Zenon DEF Untouched
<1>9. Child(c)'
  <2>1. exit_status[c] = 0 /\ ~Gone(c)
    BY <1>1, <1>2, Zenon DEF Child, Calling, Gone
  <2>2. ~Fresh(c)' /\ pc'[c] # "none"
    BY <1>4, Zenon DEF Fresh
  <2> QED BY <1>1, <1>2, <2>1, <2>2, Zenon DEF Child
<1>10. cursor[c] = NULL /\ result[c] = Nothing
  BY <1>1, <1>2, Zenon DEF Caller, Loop, Calling, Answer
<1>11. CASE /\ pc[p] = "loading" /\ arg[p] = c /\ pc' = [pc EXCEPT ![c] = "user", ![p] = "user"]
            /\ ExecReturn(p) /\ UNCHANGED parent_child_sync
  <2>1. p # c
    BY <1>1, <1>11, Zenon
  <2>2. pc'[p] = "user" /\ \A q \in All \ {c, p} : pc'[q] = pc[q]
    BY <1>3, <1>11, <2>1, Zenon DEF IInv, Types
  <2>3. \A q \in All \ {p} : arg'[q] = arg[q] /\ result'[q] = result[q]
    BY <1>2, <1>11, Zenon DEF ExecReturn, Data
  <2>4. \A q \in All \ {c, p} : Apart(q)
    BY <1>1, <1>7, <2>2, <2>3, Zenon DEF Apart, Elsewhere
  <2>5. Caller(c)'
    <3>1. result'[c] = Nothing /\ cursor'[c] = NULL
      BY <1>1, <1>10, <2>1, <2>3, Zenon
    <3>2. Loop(c)' /\ Starts(c)' /\ Waits(c)'
      BY <1>4, <3>1, Zenon DEF Loop, Starts, Waits, Starting, InWait, Calling
    <3> QED BY <3>1, <3>2, NoAnswer, Zenon DEF Caller
  <2>6. Caller(p)'
    <3>1. Caller(p)
      BY <1>3, Zenon DEF Calls
    <3>2. cursor'[p] = NULL
      BY <1>1, <1>11, <3>1, Zenon DEF Caller, Loop, Calling, Starting
    <3>3. Loop(p)' /\ Starts(p)' /\ Waits(p)'
      BY <2>2, <3>2, Zenon DEF Loop, Starts, Waits, Starting, InWait, Calling
    <3>4. arg[p] # NULL => arg[p] \in Procs /\ pc'[arg[p]] \notin {"none", "load"}
      BY <1>4, <1>11, Zenon
    <3>5. Answer(p)'
      BY <1>2, <1>3, <1>11, <2>2, <3>4, ExecReturns, Zenon
    <3> QED BY <3>3, <3>5, Zenon DEF Caller
  <2>7. Records(c)' /\ Records(p)'
    BY <1>1, <1>2, <1>3, <1>6, <1>7, RecordsStay, Zenon DEF Calls
  <2>8. ASSUME p \in Procs
        PROVE  Child(p)'
    <3>1. Child(p) /\ Untouched(p)
      BY <1>8, <2>1, <2>8, Zenon DEF Calls
    <3>2. ~Gone(p) /\ ~Fresh(p)' /\ pc'[p] # "none" /\ NotExiting(p)
      BY <1>11, <2>2, Zenon DEF Gone, Fresh, NotExiting, Calling, Starting
    <3> QED BY <3>1, <3>2, Zenon DEF Child, Untouched, NotExiting
  <2>9. /\ \A q \in All \cap {c, p} : Caller(q)' /\ Records(q)'
        /\ \A d \in Procs \cap {c, p} : Child(d)'
        /\ \A d \in Procs \ {c, p} : Untouched(d)
    BY <1>8, <1>9, <2>5, <2>6, <2>7, <2>8, Zenon
  <2> QED BY <1>5, <1>6, <2>4, <2>9, OthersKeep, Zenon
<1>12. CASE pc' = [pc EXCEPT ![c] = "user"] /\ UNCHANGED <<arg, result>>
  <2>1. result'[c] = Nothing /\ cursor'[c] = NULL
    BY <1>1, <1>10, <1>12, Zenon
  <2>2. Loop(c)' /\ Starts(c)' /\ Waits(c)'
    BY <1>4, <2>1, Zenon DEF Loop, Starts, Waits, Starting, InWait, Calling
  <2>3. Answer(c)'
    BY <2>1, NoAnswer
  <2>4. "user" \in Places
    OBVIOUS
  <2> QED BY <1>1, <1>5, <1>6, <1>7, <1>8, <1>9, <1>12, <2>2, <2>3, <2>4, OneMoves, Zenon
<1> QED BY <1>1, <1>11, <1>12, Zenon

\* A child_info list after thread_create.
LEMMA Appended ==
  ASSUME NEW S, NEW list \in Seq(S), NEW e \in S
  PROVE  /\ Append(list, e) \in Seq(S) /\ Len(Append(list, e)) = Len(list) + 1
         /\ Append(list, e)[Len(list) + 1] = e
         /\ \A i \in 1..Len(list) : Append(list, e)[i] = list[i]
         /\ \A i \in 1..(Len(list) + 1) : i \in 1..Len(list) \/ i = Len(list) + 1
OBVIOUS

\* thread_create.
LEMMA ThreadCreateCalls ==
  ASSUME IInv, Calls, NEW p \in All, NEW c \in Procs, ThreadCreate(p, c)
  PROVE  Calls'
<1> DEFINE info == [tid |-> c, exit_status |-> 0, exited |-> FALSE, waited |-> FALSE]
           list == child_info_list[p]
<1>1. /\ pc[p] = "execute" /\ pc[c] = "none" /\ pc' = [pc EXCEPT ![p] = "flag", ![c] = "load"]
      /\ parent_thread' = [parent_thread EXCEPT ![c] = p] /\ arg' = [arg EXCEPT ![p] = c]
      /\ child_info_list' = [child_info_list EXCEPT ![p] = Append(@, info)]
      /\ UNCHANGED <<exit_status, next, parent_child_sync, parent_wait_sema, temp, temp_child,
                     cursor, result, reaped>>
  BY Zenon DEF ThreadCreate, At, sema_vars
<1>2. Data /\ Child(c) /\ Caller(c) /\ Caller(p) /\ Records(p) /\ Records(c) /\ p # c
  BY <1>1, Zenon DEF Calls
<1>3. info \in Info /\ info.tid = c /\ info.exit_status = 0 /\ ~info.exited
  BY DEF Info
<1> HIDE DEF info
<1>4. list \in Seq(Info)
  BY <1>2, Zenon DEF Data
<1>5. Data'
  <2>1. Append(list, info) \in Seq(Info)
    BY <1>3, <1>4, Appended
  <2>2. child_info_list' \in [All -> Seq(Info)] /\ arg' \in [All -> Procs \cup {NULL}]
    BY <1>1, <1>2, <2>1, Zenon DEF Data
  <2> QED BY <1>1, <1>2, <2>2, Zenon DEF Data
<1>6. pc'[p] = "flag" /\ pc'[c] = "load" /\ \A q \in All \ {p, c} : pc'[q] = pc[q]
  BY <1>1, <1>2, Zenon DEF IInv, Types
<1>7. parent_thread'[c] = p /\ \A d \in Procs \ {c} : parent_thread'[d] = parent_thread[d]
  BY <1>1, Zenon DEF IInv, Types
<1>8. /\ arg'[p] = c /\ \A q \in All \ {p} : arg'[q] = arg[q]
      /\ child_info_list'[p] = Append(list, info)
      /\ \A q \in All \ {p} : child_info_list'[q] = child_info_list[q]
  BY <1>1, <1>2, Zenon DEF Data
<1>9. \A d \in Procs : Ended(d)' <=> Ended(d)
  BY <1>1, <1>6, Zenon DEF Ended
<1>10. Settled
  <2>1. \A d \in Procs : (~Fresh(d) => ~Fresh(d)') /\ (pc[d] # "none" => pc'[d] # "none" /\ d # c)
    BY <1>1, <1>6, Zenon DEF Fresh
  <2> QED BY <1>1, <1>7, <1>9, <2>1, Zenon DEF Settled
<1>11. \A q \in All : Quiet(q)
  BY <1>1, <1>9, Zenon DEF Quiet
<1>12. \A d \in Procs : Untouched(d)
  BY <1>1, Zenon DEF Untouched
<1>13. \A q \in All \ {p, c} : Apart(q)
  BY <1>1, <1>6, <1>8, <1>11, Zenon DEF Apart, Elsewhere
<1>14. cursor[c] = NULL /\ cursor[p] = NULL /\ result[c] = Nothing /\ result[p] = Nothing
  BY <1>1, <1>2, Zenon DEF Caller, Loop, Calling, Answer
<1>15. Caller(c)'
  <2>1. Loop(c)' /\ Starts(c)' /\ Waits(c)'
    BY <1>1, <1>6, <1>14, Zenon DEF Loop, Starts, Waits, Starting, InWait, Calling
  <2>2. Answer(c)'
    BY <1>1, <1>14, NoAnswer
  <2> QED BY <2>1, <2>2, Zenon DEF Caller
<1>16. Caller(p)'
  <2>1. Loop(p)' /\ Waits(p)'
    BY <1>1, <1>6, <1>14, Zenon DEF Loop, Waits, InWait, Calling
  <2>2. Starts(p)'
    BY <1>6, <1>7, <1>8, Zenon DEF Starts
  <2>3. Answer(p)'
    BY <1>1, <1>14, NoAnswer
  <2> QED BY <2>1, <2>2, <2>3, Zenon DEF Caller
<1>17. Records(c)'
  BY <1>2, <1>8, <1>10, <1>11, RecordsStay, Zenon
<1>18. Records(p)'
  <2>1. /\ Len(child_info_list'[p]) = Len(list) + 1 /\ child_info_list'[p][Len(list) + 1] = info
        /\ \A i \in 1..Len(list) : child_info_list'[p][i] = list[i]
        /\ \A i \in 1..(Len(list) + 1) : i \in 1..Len(list) \/ i = Len(list) + 1
    <3>1. /\ Len(Append(list, info)) = Len(list) + 1 /\ Append(list, info)[Len(list) + 1] = info
          /\ \A i \in 1..Len(list) : Append(list, info)[i] = list[i]
          /\ \A i \in 1..(Len(list) + 1) : i \in 1..Len(list) \/ i = Len(list) + 1
      BY <1>3, <1>4, Appended
    <3> QED BY <1>8, <3>1, Zenon
  <2>2. ASSUME NEW i \in 1..Len(list)
        PROVE  list[i].tid \in Procs /\ list[i].tid # c /\ Right(p, list[i])
    <3>1. list[i] \in Info
      BY <1>4
    <3>2. Right(p, list[i])
      BY <1>2, Zenon DEF Records
    <3> QED BY <1>1, <3>1, <3>2, Zenon DEF Right, Info
  <2>3. PICK new : new = child_info_list'[p]
    OBVIOUS
  <2>0. PICK n : n = Len(list)
    BY Zenon
  <2> HIDE DEF list
  <2>4. ASSUME NEW i \in 1..n
        PROVE  Right(p, new[i])'
    <3>1. PICK e : e = list[i]
      OBVIOUS
    <3>2. e \in Info /\ Right(p, e) /\ e.tid \in Procs
      BY <1>4, <2>0, <2>2, <3>1
    <3>3. Right(p, e)'
      BY <1>1, <1>9, <1>10, <3>2, RightStays, Zenon
    <3>4. e = new[i]
      BY <2>0, <2>1, <2>3, <3>1, Zenon
    <3> QED BY <3>3, <3>4
  <2>5. Right(p, new[n + 1])'
    <3>0. PICK e : e = info
      OBVIOUS
    <3>1. c \notin reaped
      BY <1>1, <1>2, Zenon DEF Child
    <3>2. ~Ended(c)' /\ pc'[c] # "none"
      BY <1>6, Zenon DEF Ended
    <3>3. Right(p, e)'
      BY <1>1, <1>3, <1>7, <3>0, <3>1, <3>2, Zenon DEF Right
    <3>4. e = new[n + 1]
      BY <2>0, <2>1, <2>3, <3>0, Zenon
    <3> QED BY <3>3, <3>4
  <2>6. Once(new)
    <3>1. \A i \in 1..(n + 1) : i # n + 1 => new[i].tid # c
      BY <2>0, <2>1, <2>2, <2>3, Zenon
    <3>2. new[n + 1].tid = c
      BY <1>3, <2>0, <2>1, <2>3, Zenon
    <3>3. \A i, j \in 1..n : new[i].tid = new[j].tid => i = j
      BY <1>2, <2>0, <2>1, <2>3, Zenon DEF Records, Once, list
    <3>4. Len(new) = n + 1 /\ \A i \in 1..(n + 1) : i \in 1..n \/ i = n + 1
      BY <2>0, <2>1, <2>3, Zenon
    <3> SUFFICES ASSUME NEW i \in 1..(n + 1), NEW j \in 1..(n + 1), new[i].tid = new[j].tid
                 PROVE  i = j
      BY <3>4, Zenon DEF Once
    <3> QED BY <3>1, <3>2, <3>3, <3>4, Zenon
  <2>7. \A i \in 1..Len(new) : Right(p, new[i])'
    BY <2>0, <2>1, <2>3, <2>4, <2>5, Zenon
  <2> QED BY <2>3, <2>6, <2>7, RecordsAre, Zenon
<1>19. Child(c)'
  <2>1. exit_status[c] = 0 /\ Fresh(c) /\ ~Gone(c) /\ pc'[c] # "none"
    BY <1>1, <1>2, <1>6, Zenon DEF Child, Calling, Fresh, Gone
  <2> QED BY <1>1, <1>2, <2>1, Zenon DEF Child
<1>20. ASSUME p \in Procs
       PROVE  Child(p)'
  <2>1. Child(p)
    BY <1>20, Zenon DEF Calls
  <2>2. ~Gone(p) /\ ~Fresh(p)' /\ pc'[p] # "none" /\ exit_status[p] = 0
    BY <1>1, <1>6, <2>1, Zenon DEF Gone, Fresh, Child, Calling
  <2> QED BY <1>1, <2>1, <2>2, Zenon DEF Child
<1>21. /\ \A q \in All \cap {p, c} : Caller(q)' /\ Records(q)'
       /\ \A d \in Procs \cap {p, c} : Child(d)'
       /\ \A d \in Procs \ {p, c} : Untouched(d)
  BY <1>12, <1>15, <1>16, <1>17, <1>18, <1>19, <1>20, Zenon
<1> QED BY <1>5, <1>10, <1>13, <1>21, OthersKeep, Zenon

\* process_execute after thread_create, and its removal of a child_info.
LEMMA LoadFailedTestCalls ==
  ASSUME IInv, Calls, NEW p \in All, LoadFailedTest(p)
  PROVE  Calls'
<1> USE DEF At, Goto, family_vars, list_vars, sema_vars, local_vars
<1> DEFINE list == child_info_list[p]
           kept == IF list = <<>> THEN list ELSE Removed(list, Found(list, arg[p]))
<1>1. Data /\ Caller(p) /\ Records(p)
  BY Zenon DEF Calls
<1>2. pc[p] = "flag" /\ cursor[p] = NULL /\ result[p] = Nothing
  BY <1>1, Zenon DEF LoadFailedTest, Caller, Loop, Calling, Starting, Answer
<1>3. "flag" \in Middle /\ "created" \in Middle
  BY DEF Middle
<1>4. CASE /\ pc' = [pc EXCEPT ![p] = "created"]
           /\ UNCHANGED <<family_vars, list_vars, sema_vars, filesys_lock, local_vars>>
  <2>1. Data'
    BY <1>1, <1>4, Zenon DEF Data
  <2>2. pc'[p] = "created" /\ \A q \in All \ {p} : pc'[q] = pc[q]
    BY <1>4, Zenon DEF IInv, Types
  <2>3. \A c \in Procs : Untouched(c)
    BY <1>4, Zenon DEF Untouched
  <2>4. Starts(p)'
    <3>1. arg[p] # NULL => arg[p] \in All /\ parent_thread[arg[p]] = p /\ pc[arg[p]] # "none"
      BY <1>1, <1>2, Zenon DEF Data, Caller, Starts, Starting
    <3>2. arg[p] # NULL => pc'[arg[p]] # "none"
      BY <2>2, <3>1, Zenon
    <3> QED BY <1>4, <3>1, <3>2, Zenon DEF Starts
  <2>5. Loop(p)' /\ Waits(p)' /\ (NotExiting(p)' => NotExiting(p))
    BY <1>2, <1>4, <2>2, Zenon DEF Loop, Waits, NotExiting, Starting, InWait, Calling
  <2>6. Answer(p)'
    BY <1>2, <1>4, NoAnswer
  <2> QED BY <1>2, <1>3, <1>4, <2>1, <2>3, <2>4, <2>5, <2>6, LocalStep, Zenon
<1>5. CASE Halt("live thread freed")
  BY <1>5, CallsStay, Zenon DEF Halt
<1>6. CASE /\ pc' = [pc EXCEPT ![p] = "created"] /\ arg' = [arg EXCEPT ![p] = NULL]
           /\ child_info_list' = [child_info_list EXCEPT ![p] = kept]
           /\ UNCHANGED <<parent_thread, exit_status, next, sema_vars, temp, temp_child, cursor,
                          result, reaped>>
  <2>1. list \in Seq(Info) /\ Once(list) /\ \A i \in 1..Len(list) : Right(p, list[i])
    BY <1>1, Zenon DEF Data, Records
  <2>2. /\ kept \in Seq(Info) /\ Once(kept)
        /\ \A j \in 1..Len(kept) : \E i \in 1..Len(list) : kept[j] = list[i]
    <3>1. CASE list = <<>>
      BY <2>1, <3>1, Zenon
    <3>2. CASE list # <<>>
      <4>1. PICK i \in 1..Len(list) : i = Found(list, arg[p])
        BY <2>1, <3>2, FoundIn, Zenon
      <4>2. /\ kept \in Seq(Info) /\ Len(kept) = Len(list) - 1
            /\ \A j \in 1..Len(kept) : kept[j] = IF j < i THEN list[j] ELSE list[j + 1]
        BY <2>1, <3>2, <4>1, RemovedPlaces, Zenon
      <4> HIDE DEF kept, list
      <4> DEFINE at(j) == IF j < i THEN j ELSE j + 1
      <4>3. Len(list) \in Nat
        BY <2>1
      <4>4. \A j \in 1..Len(kept) : at(j) \in 1..Len(list)
        BY <4>2, <4>3
      <4>5. \A j \in 1..Len(kept) : kept[j] = list[at(j)]
        BY <4>2, Zenon
      <4>6. \A j, k \in 1..Len(kept) : at(j) = at(k) => j = k
        BY <4>2, <4>3
      <4> HIDE DEF at
      <4>7. Once(kept)
        <5> SUFFICES ASSUME NEW j \in 1..Len(kept), NEW k \in 1..Len(kept), kept[j].tid = kept[k].tid
                     PROVE  j = k
          BY Zenon DEF Once
        <5>1. list[at(j)].tid = list[at(k)].tid
          BY <4>5, Zenon
        <5>2. at(j) = at(k)
          BY <2>1, <4>4, <5>1, Zenon DEF Once
        <5> QED BY <4>6, <5>2, Zenon
      <4> QED BY <4>2, <4>4, <4>5, <4>7, Zenon
    <3> QED BY <3>1, <3>2, Zenon
  <2>3. PICK new : new = kept
    OBVIOUS
  <2> HIDE DEF kept
  <2>4. Data'
    <3>1. child_info_list' \in [All -> Seq(Info)]
      BY <1>1, <1>6, <2>2, Zenon DEF Data
    <3> QED BY <1>1, <1>6, <3>1, Zenon DEF Data
  <2>5. pc'[p] = "created" /\ \A q \in All \ {p} : pc'[q] = pc[q]
    BY <1>6, Zenon DEF IInv, Types
  <2>6. /\ child_info_list'[p] = new /\ arg'[p] = NULL
        /\ \A q \in All \ {p} : child_info_list'[q] = child_info_list[q] /\ arg'[q] = arg[q]
    BY <1>1, <1>6, <2>3, Zenon DEF Data
  <2>7. \A d \in Procs : Ended(d)' <=> Ended(d)
    BY <1>2, <2>5, Zenon DEF Ended
  <2>8. Settled
    <3>1. \A d \in Procs : (~Fresh(d) => ~Fresh(d)') /\ (pc[d] # "none" => pc'[d] # "none")
      BY <1>2, <2>5, Zenon DEF Fresh
    <3> QED BY <1>6, <2>7, <3>1, Zenon DEF Settled
  <2>9. \A q \in All \ {p} : Apart(q)
    BY <1>6, <2>5, <2>6, <2>7, Zenon DEF Apart, Elsewhere, Quiet
  <2>10. \A d \in Procs : Untouched(d)
    BY <1>6, Zenon DEF Untouched
  <2>11. Records(p)'
    <3>1. Once(new) /\ new \in Seq(Info)
      BY <2>2, <2>3, Zenon
    <3>2. ASSUME NEW j \in 1..Len(new)
          PROVE  Right(p, new[j])'
      <4>1. PICK e : e = new[j]
        OBVIOUS
      <4>2. e \in Info
        BY <3>1, <4>1
      <4>3. Right(p, e)
        BY <2>1, <2>2, <2>3, <4>1, Zenon
      <4>4. e.tid \in Procs
        BY <4>2 DEF Info
      <4>5. Right(p, e)'
        BY <1>6, <2>7, <2>8, <4>2, <4>3, <4>4, RightStays, Zenon
      <4> QED BY <4>1, <4>5
    <3> QED BY <2>6, <3>1, <3>2, RecordsAre, Zenon
  <2>12. Caller(p)'
    <3>1. Loop(p)' /\ Starts(p)' /\ Waits(p)'
      BY <1>2, <1>6, <2>5, <2>6, Zenon DEF Loop, Starts, Waits, InWait, Calling
    <3>2. Answer(p)'
      BY <1>2, <1>6, NoAnswer
    <3> QED BY <3>1, <3>2, Zenon DEF Caller
  <2>13. ASSUME p \in Procs
         PROVE  Child(p)'
    <3>1. Child(p)
      BY <2>13, Zenon DEF Calls
    <3>2. ~Gone(p) /\ ~Fresh(p)' /\ pc'[p] # "none" /\ exit_status[p] = 0
      BY <1>2, <2>5, <3>1, Zenon DEF Gone, Fresh, Child, Calling, Starting
    <3> QED BY <1>6, <3>1, <3>2, Zenon DEF Child
  <2>14. /\ \A q \in All \cap {p} : Caller(q)' /\ Records(q)'
         /\ \A d \in Procs \cap {p} : Child(d)'
         /\ \A d \in Procs \ {p} : Untouched(d)
    BY <2>10, <2>11, <2>12, <2>13, Zenon
  <2> QED BY <2>4, <2>8, <2>9, <2>14, OthersKeep, Zenon
<1> QED BY <1>4, <1>5, <1>6, Zenon DEF LoadFailedTest

\* What exit does to the parent's child_infos.
Posted(list, c, s) ==
  [i \in DOMAIN list |-> IF list[i].tid = c
                         THEN [list[i] EXCEPT !.exit_status = s, !.exited = TRUE] ELSE list[i]]
LEMMA PostedList ==
  ASSUME NEW list \in Seq(Info), NEW c, NEW s \in Nat
  PROVE  /\ Posted(list, c, s) \in Seq(Info) /\ Len(Posted(list, c, s)) = Len(list)
         /\ \A i \in 1..Len(list) :
              /\ Posted(list, c, s)[i] \in Info /\ Posted(list, c, s)[i].tid = list[i].tid
              /\ list[i].tid = c => Posted(list, c, s)[i].exited /\ Posted(list, c, s)[i].exit_status = s
              /\ Posted(list, c, s)[i].waited = list[i].waited
              /\ list[i].tid # c => Posted(list, c, s)[i] = list[i]
<1>1. DOMAIN list = 1..Len(list) /\ Len(list) \in Nat /\ \A i \in 1..Len(list) : list[i] \in Info
  OBVIOUS
<1>2. ASSUME NEW i \in 1..Len(list)
      PROVE  /\ Posted(list, c, s)[i] \in Info /\ Posted(list, c, s)[i].tid = list[i].tid
             /\ list[i].tid = c => Posted(list, c, s)[i].exited /\ Posted(list, c, s)[i].exit_status = s
             /\ Posted(list, c, s)[i].waited = list[i].waited
             /\ list[i].tid # c => Posted(list, c, s)[i] = list[i]
  <2>1. Posted(list, c, s)[i] = IF list[i].tid = c
                                THEN [list[i] EXCEPT !.exit_status = s, !.exited = TRUE] ELSE list[i]
    BY <1>1, Zenon DEF Posted
  <2>2. list[i] \in Info
    BY <1>1
  <2> QED BY <2>1, <2>2, Zenon DEF Info
<1>3. /\ Posted(list, c, s) = [i \in 1..Len(list) |-> Posted(list, c, s)[i]]
      /\ DOMAIN Posted(list, c, s) = 1..Len(list)
  BY <1>1, Zenon DEF Posted
<1>4. Posted(list, c, s) \in Seq(Info)
  BY <1>1, <1>2, <1>3
<1>5. Len(Posted(list, c, s)) = Len(list)
  BY <1>1, <1>3, <1>4
<1> QED BY <1>2, <1>4, <1>5, Zenon

\* The end of exit: the parent's child_info gets the status, and the process has ended.
LEMMA MarkExitedCalls ==
  ASSUME IInv, Calls, NEW p \in Procs, MarkExited(p)
  PROVE  Calls'
<1>0. PICK q : q = parent_thread[p]
  OBVIOUS
<1>1. pc[p] = "post"
  BY Zenon DEF MarkExited, At
<1>2. CASE Halt("freed thread")
  BY <1>2, CallsStay, Zenon DEF Halt, family_vars, list_vars
<1>3. CASE /\ child_info_list' = [child_info_list EXCEPT ![q] = Posted(@, p, exit_status[p])]
           /\ pc' = [pc EXCEPT ![p] = "thread_exit"]
           /\ UNCHANGED <<family_vars, sema_vars, local_vars>>
  <2> USE DEF family_vars, sema_vars, local_vars
  <2>1. Data /\ Caller(p) /\ Child(p) /\ q \in All
    BY <1>0, <1>1, Zenon DEF Calls, IInv, Family
  <2>2. child_info_list[q] \in Seq(Info) /\ exit_status[p] \in Nat /\ Records(q)
    BY <2>1, Zenon DEF Data, Calls
  <2>3. PICK list : list = child_info_list[q]
    OBVIOUS
  <2>4. PICK s : s = exit_status[p]
    OBVIOUS
  <2>5. PICK new : new = Posted(list, p, s)
    OBVIOUS
  <2>6. /\ list \in Seq(Info) /\ new \in Seq(Info) /\ Len(new) = Len(list)
        /\ \A i \in 1..Len(list) :
              /\ new[i] \in Info /\ new[i].tid = list[i].tid /\ list[i].tid \in Procs
              /\ list[i].tid = p => new[i].exited /\ new[i].exit_status = s
              /\ new[i].waited = list[i].waited
              /\ list[i].tid # p => new[i] = list[i]
    <3>1. \A i \in 1..Len(list) : list[i] \in Info
      BY <2>2, <2>3
    <3>2. \A i \in 1..Len(list) : list[i].tid \in Procs
      BY <3>1 DEF Info
    <3>3. list \in Seq(Info) /\ s \in Nat
      BY <2>2, <2>3, <2>4, Zenon
    <3>4. /\ Posted(list, p, s) \in Seq(Info) /\ Len(Posted(list, p, s)) = Len(list)
          /\ \A i \in 1..Len(list) :
               /\ Posted(list, p, s)[i] \in Info /\ Posted(list, p, s)[i].tid = list[i].tid
               /\ list[i].tid = p => Posted(list, p, s)[i].exited /\ Posted(list, p, s)[i].exit_status = s
               /\ Posted(list, p, s)[i].waited = list[i].waited
               /\ list[i].tid # p => Posted(list, p, s)[i] = list[i]
      BY <3>3, PostedList
    <3> QED BY <2>5, <3>2, <3>3, <3>4, Zenon
  <2>7. /\ child_info_list'[q] = new
        /\ \A r \in All \ {q} : child_info_list'[r] = child_info_list[r]
    BY <1>3, <2>1, <2>3, <2>4, <2>5, Zenon DEF Data
  <2>8. Data'
    <3>1. child_info_list' \in [All -> Seq(Info)]
      BY <1>3, <2>1, <2>3, <2>4, <2>5, <2>6, Zenon DEF Data
    <3> QED BY <1>3, <2>1, <3>1, Zenon DEF Data
  <2>9. pc'[p] = "thread_exit" /\ \A r \in All \ {p} : pc'[r] = pc[r]
    BY <1>3, Zenon DEF IInv, Types
  <2>10. Settled
    BY <1>1, <1>3, <2>9, Zenon DEF Settled, Ended, Fresh
  <2>11. \A r \in All : (\A c : Knows(r, c)' => Knows(r, c))
    <3>1. \A c : Knows(q, c)' => Knows(q, c)
      BY <2>3, <2>6, <2>7, Zenon DEF Knows
    <3>2. \A r \in All \ {q} : (\A c : Knows(r, c)' => Knows(r, c))
      BY <2>7, Zenon DEF Knows
    <3> QED BY <3>1, <3>2, Zenon
  <2>12. \A r \in All \ {p} : Caller(r)'
    <3> SUFFICES ASSUME NEW r \in All \ {p}
                 PROVE  Caller(r)'
      BY Zenon
    <3>1. Elsewhere(r)
      BY <1>3, <2>9, Zenon DEF Elsewhere
    <3>2. Caller(r)
      BY Zenon DEF Calls
    <3> QED BY <1>3, <2>1, <2>10, <2>11, <3>1, <3>2, CallerStays, Zenon
  <2>13. Caller(p)'
    <3>1. Loop(p)' /\ Starts(p)' /\ Waits(p)'
      BY <2>9, Zenon DEF Loop, Starts, Waits, Starting, InWait, Calling
    <3>2. result'[p] = Nothing
      BY <1>1, <1>3, <2>1, Zenon DEF Caller, Answer
    <3> QED BY <3>1, <3>2, NoAnswer, Zenon DEF Caller
  <2>14. ASSUME NEW r \in All \ {q}
         PROVE  Records(r)'
    <3>1. Records(r) /\ child_info_list'[r] = child_info_list[r]
      BY <2>7, Zenon DEF Calls
    <3>2. \A c \in Procs : Knows(r, c) => c # p
      BY <1>0, <2>14, <3>1, KnownChild, Zenon
    <3>3. Quiet(r)
      BY <1>3, <2>9, <3>2, Zenon DEF Quiet, Ended
    <3> QED BY <2>1, <2>10, <3>1, <3>3, RecordsStay, Zenon
  <2>15. Records(q)'
    <3>1. Once(new)
      <4>1. Once(list)
        BY <2>2, <2>3, Zenon DEF Records
      <4> QED BY <2>6, <4>1, Zenon DEF Once
    <3>2. ASSUME NEW i \in 1..Len(new)
          PROVE  Right(q, new[i])'
      <4>1. PICK e : e = new[i]
        OBVIOUS
      <4>2. e \in Info /\ e.tid \in Procs /\ e.tid = list[i].tid /\ e.waited = list[i].waited
        BY <2>6, <4>1, Zenon
      <4>3. Right(q, list[i])
        BY <2>2, <2>3, <2>6, Zenon DEF Records
      <4>4. CASE e.tid = p
        <5>1. Ended(p)' /\ ~Ended(p)
          BY <1>1, <2>9, Zenon DEF Ended
        <5>2. e.exited /\ e.exit_status = exit_status[p]
          BY <2>4, <2>6, <4>1, <4>2, <4>4, Zenon
        <5>3. p \notin reaped
          BY <4>2, <4>3, <4>4, <5>1, Zenon DEF Right
        <5>4. parent_thread'[p] = q /\ pc'[p] # "none" /\ exit_status'[p] = exit_status[p]
              /\ p \notin reaped'
          BY <1>0, <1>3, <2>9, <5>3, Zenon
        <5>5. Right(q, e)'
          BY <4>4, <5>1, <5>2, <5>4, Zenon DEF Right
        <5> QED BY <4>1, <5>5
      <4>5. CASE e.tid # p
        <5>1. Right(q, e)
          BY <2>6, <4>1, <4>2, <4>3, <4>5, Zenon
        <5>2. (Ended(e.tid)' => Ended(e.tid)) /\ (e.tid \in reaped' => e.tid \in reaped)
          BY <1>3, <2>9, <4>2, <4>5, Zenon DEF Ended
        <5>3. Right(q, e)'
          BY <2>1, <2>10, <4>2, <5>1, <5>2, RightStays, Zenon
        <5> QED BY <4>1, <5>3
      <4> QED BY <4>4, <4>5, Zenon
    <3> QED BY <2>1, <2>7, <3>1, <3>2, RecordsAre, Zenon
  <2>16. \A c \in Procs : Child(c)'
    <3>1. ASSUME NEW c \in Procs, c # p
          PROVE  Child(c)'
      <4>1. Child(c)
        BY Zenon DEF Calls
      <4>2. pc'[c] = pc[c]
        BY <2>9, <3>1, Zenon
      <4> QED BY <1>3, <4>1, <4>2, Zenon DEF Child, Fresh, Gone
    <3>2. Child(p)'
      <4>1. ~Gone(p) /\ ~Fresh(p)' /\ pc'[p] # "none" /\ ~NotExiting(p)'
        BY <1>1, <2>9, Zenon DEF Gone, Fresh, NotExiting, InWait, Calling, Starting
      <4> QED BY <1>3, <2>1, <4>1, Zenon DEF Child, NotExiting
    <3> QED BY <3>1, <3>2, Zenon
  <2> QED BY <2>8, <2>12, <2>13, <2>14, <2>15, <2>16, Zenon DEF Calls
<1> QED BY <1>0, <1>2, <1>3, Zenon DEF MarkExited, Goto, Posted

\* thread_exit: the child_infos of the process are freed, and a parent blocked on it has
\* a child that has ended.
LEMMA ThreadExitCalls ==
  ASSUME IInv, Calls, NEW p \in Procs, ThreadExit(p)
  PROVE  Calls'
<1>0. PICK q : q = parent_thread[p]
  OBVIOUS
<1>1. pc[p] = "thread_exit"
  BY Zenon DEF ThreadExit, At
<1>2. CASE Halt("freed thread")
  BY <1>2, CallsStay, Zenon DEF Halt, family_vars, list_vars
<1>3. CASE /\ next' = [next EXCEPT ![p] = Successor(children_thread_list[q], p)]
           /\ child_info_list' = [child_info_list EXCEPT ![p] = <<>>]
           /\ \/ /\ pc[q] = "waiting" /\ temp_child[q] = p
                 /\ pc' = [pc EXCEPT ![p] = "dying", ![q] = "waited"] /\ UNCHANGED parent_wait_sema
              \/ /\ parent_wait_sema' = [parent_wait_sema EXCEPT ![p] = @ + 1]
                 /\ pc' = [pc EXCEPT ![p] = "dying"]
           /\ UNCHANGED <<parent_thread, exit_status, parent_child_sync, local_vars>>
  <2> USE DEF local_vars
  <2>1. Data /\ Caller(p) /\ Child(p) /\ q \in All
    BY <1>0, <1>1, Zenon DEF Calls, IInv, Family
  <2>2. Data'
    <3>1. children_thread_list[q] \in Seq(Procs)
      BY <2>1, Zenon DEF IInv, Types
    <3>2. Contains(children_thread_list[q], p)
      BY <1>0, <1>1, <2>1, Zenon DEF IInv, Family, Alive
    <3>3. Successor(children_thread_list[q], p) \in Procs \cup {NULL}
      BY <3>1, <3>2, InRange, SuccessorIn, Zenon
    <3>4. <<>> \in Seq(Info)
      OBVIOUS
    <3> QED BY <1>3, <2>1, <3>3, <3>4, Zenon DEF Data
  <2>3. /\ child_info_list'[p] = <<>>
        /\ \A r \in All \ {p} : child_info_list'[r] = child_info_list[r]
    BY <1>3, <2>1, Zenon DEF Data
  <2>4. /\ pc'[p] = "dying"
        /\ \A r \in All \ {p} :
             pc'[r] = pc[r] \/ (r = q /\ pc[q] = "waiting" /\ temp_child[q] = p /\ pc'[q] = "waited")
    <3>1. pc[q] = "waiting" => p # q
      BY <1>1, Zenon
    <3> QED BY <1>3, <2>1, <3>1, Zenon DEF IInv, Types
  <2>5. Settled
    <3>1. \A d \in Procs : Ended(d) => Ended(d)'
      BY <1>1, <2>4, Zenon DEF Ended
    <3>2. \A d \in Procs : (~Fresh(d) => ~Fresh(d)') /\ (pc[d] # "none" => pc'[d] # "none")
      BY <1>1, <2>4, Zenon DEF Fresh
    <3> QED BY <1>3, <3>1, <3>2, Zenon DEF Settled
  <2>6. \A r \in All : Quiet(r)
    <3>1. \A d \in Procs : Ended(d)' => Ended(d)
      BY <1>1, <2>4, Zenon DEF Ended
    <3> QED BY <1>3, <3>1, Zenon DEF Quiet
  <2>7. Caller(p)'
    <3>1. Loop(p)' /\ Starts(p)' /\ Waits(p)'
      BY <2>4, Zenon DEF Loop, Starts, Waits, Starting, InWait, Calling
    <3>2. result'[p] = Nothing
      BY <1>1, <1>3, <2>1, Zenon DEF Caller, Answer
    <3> QED BY <3>1, <3>2, NoAnswer, Zenon DEF Caller
  <2>8. Records(p)'
    <3>1. PICK new : new = <<>>
      OBVIOUS
    <3>2. Once(new) /\ \A i \in 1..Len(new) : Right(p, new[i])'
      BY <3>1 DEF Once
    <3> QED BY <2>3, <3>1, <3>2, RecordsAre, Zenon
  <2>9. \A d \in Procs \ {p} : Untouched(d)
    <3>1. \A d \in Procs \ {p} : parent_wait_sema'[d] = parent_wait_sema[d]
      BY <1>3, Zenon DEF IInv, Types
    <3> QED BY <1>3, <3>1, Zenon DEF Untouched
  <2>10. Child(p)'
    <3>1. Gone(p)' /\ ~Fresh(p)' /\ pc'[p] # "none" /\ ~NotExiting(p)'
      BY <2>4, Zenon DEF Gone, Fresh, NotExiting, InWait, Calling, Starting
    <3> QED BY <3>1, Zenon DEF Child, NotExiting
  <2>11. CASE \A r \in All \ {p} : pc'[r] = pc[r]
    <3>1. \A r \in All \ {p} : Apart(r)
      BY <1>3, <2>3, <2>6, <2>11, Zenon DEF Apart, Elsewhere
    <3>2. /\ \A r \in All \cap {p} : Caller(r)' /\ Records(r)'
          /\ \A d \in Procs \cap {p} : Child(d)'
      BY <2>7, <2>8, <2>10, Zenon
    <3> QED BY <2>2, <2>5, <2>9, <3>1, <3>2, OthersKeep, Zenon
  <2>12. CASE /\ q # p /\ pc[q] = "waiting" /\ temp_child[q] = p /\ pc'[q] = "waited"
    <3>1. \A r \in All \ {p, q} : Apart(r)
      BY <1>3, <2>3, <2>4, <2>6, Zenon DEF Apart, Elsewhere
    <3>2. Caller(q) /\ Records(q)
      BY <2>1, Zenon DEF Calls
    <3>3. Records(q)'
      BY <2>1, <2>3, <2>5, <2>6, <2>12, <3>2, RecordsStay, Zenon
    <3>4. ASSUME Knows(q, arg[q])
          PROVE  temp[q] = arg[q] /\ arg[q] \notin reaped /\ pc'[arg[q]] \in {"thread_exit", "dying", "freed"}
      <4>1. temp[q] = arg[q] /\ arg[q] \notin reaped /\ (temp_child[q] = arg[q] \/ Ended(arg[q]))
        BY <2>12, <3>2, <3>4, Zenon DEF Caller, Waits, InWait
      <4>2. arg[q] \in Procs
        BY <2>1, <3>4, KnownProcs, Zenon
      <4>3. Ended(arg[q]) => pc'[arg[q]] \in {"thread_exit", "dying", "freed"}
        BY <2>5, <4>2, Zenon DEF Settled, Ended
      <4>4. temp_child[q] = arg[q] => pc'[arg[q]] = "dying"
        BY <2>4, <2>12, Zenon
      <4> QED BY <4>1, <4>3, <4>4, Zenon
    <3>5. Waits(q)'
      <4>1. Knows(q, arg[q])' => Knows(q, arg[q])
        BY <1>3, <2>1, <2>3, <2>12, Zenon DEF Knows
      <4> QED BY <1>3, <2>12, <3>4, <4>1, Zenon DEF Waits, Ended
    <3>6. Caller(q)'
      <4>1. Loop(q)' /\ Starts(q)'
        BY <2>12, Zenon DEF Loop, Starts, Starting, Calling
      <4>2. result'[q] = Nothing
        BY <1>3, <2>12, <3>2, Zenon DEF Caller, Answer
      <4>3. Answer(q)'
        BY <2>1, <4>2, NoAnswer, Zenon
      <4> QED BY <3>5, <4>1, <4>3, Zenon DEF Caller
    <3>7. ASSUME q \in Procs
          PROVE  Child(q)'
      <4>1. Child(q) /\ Untouched(q)
        BY <2>9, <2>12, <3>7, Zenon DEF Calls
      <4>2. ~Gone(q) /\ ~Fresh(q)' /\ pc'[q] # "none" /\ (NotExiting(q)' => NotExiting(q))
        BY <1>3, <2>12, Zenon DEF Gone, Fresh, NotExiting, InWait, Calling, Starting
      <4> QED BY <4>1, <4>2, Zenon DEF Child, Untouched, NotExiting
    <3>8. /\ \A r \in All \cap {p, q} : Caller(r)' /\ Records(r)'
          /\ \A d \in Procs \cap {p, q} : Child(d)'
          /\ \A d \in Procs \ {p, q} : Untouched(d)
      BY <2>7, <2>8, <2>9, <2>10, <3>3, <3>6, <3>7, Zenon
    <3> QED BY <2>2, <2>5, <3>1, <3>8, OthersKeep, Zenon
  <2> QED BY <2>4, <2>11, <2>12, Zenon
<1> QED BY <1>0, <1>2, <1>3, Zenon DEF ThreadExit, Goto

\* Initially no call has been made.
LEMMA InitCalls == Init => Calls
<1> SUFFICES ASSUME Init
             PROVE  Calls
  OBVIOUS
<1>1. Data
  <2>1. <<>> \in Seq(Info) /\ 0 \in Nat
    OBVIOUS
  <2>2. reaped \subseteq Procs
    BY DEF Init
  <2> QED BY <2>1, <2>2, Zenon DEF Init, Data
<1>2. ASSUME NEW c \in Procs
      PROVE  Child(c)
  <2>1. parent_child_sync[c] = 0 /\ parent_wait_sema[c] = 0 /\ exit_status[c] = 0 /\ c \notin reaped
    BY DEF Init
  <2> QED BY <2>1 DEF Child
<1>3. ASSUME NEW p \in All
      PROVE  Caller(p) /\ Records(p)
  <2>1. /\ arg[p] = NULL /\ cursor[p] = NULL /\ result[p] = Nothing /\ child_info_list[p] = <<>>
        /\ pc[p] \in {"user", "none"}
    BY Zenon DEF Init
  <2>2. Len(child_info_list[p]) = 0
    BY <2>1
  <2>3. Once(child_info_list[p]) /\ \A c : ~Knows(p, c)
    BY <2>2 DEF Once, Knows
  <2>4. Loop(p) /\ Starts(p) /\ Waits(p)
    BY <2>1, <2>3, Zenon DEF Loop, Starts, Waits, Calling
  <2>5. Answer(p)
    <3>1. Nothing.call = "none"
      BY DEF Nothing
    <3> QED BY <2>1, <3>1, Zenon DEF Answer
  <2>6. Records(p)
    BY <2>2, <2>3 DEF Records
  <2> QED BY <2>4, <2>5, <2>6, Zenon DEF Caller
<1> QED BY <1>1, <1>2, <1>3, Zenon DEF Calls

\* Every step keeps what is known of the calls.
LEMMA NextCalls ==
  ASSUME IInv, Calls, [Next]_vars
  PROVE  Calls'
<1>1. ASSUME NEW p \in All, Exec(p) \/ KernelStep(p)
      PROVE  Calls'
  BY <1>1, ExecCalls, ThreadCreateCalls, OutOfPagesCalls, LoadFailedTestCalls, FindLoadingCalls,
     SyncDownCalls, WaitInfoCalls, WaitFindCalls, WaitDownCalls, WaitedCalls, ReapCalls,
     ReapNextCalls, Zenon DEF KernelStep
<1>2. ASSUME NEW p \in Procs, ProcStep(p)
      PROVE  Calls'
  BY <1>2, LoadedCalls, LoadFailedCalls, WaitCalls, ExitCalls, KillCalls, MarkExitedCalls,
     ThreadExitCalls, DieCalls, Zenon DEF ProcStep
<1>3. CASE Halted \/ UNCHANGED vars
  BY <1>3, CallsStay, Zenon DEF Halted, vars, family_vars, list_vars
<1> QED BY <1>1, <1>2, <1>3, Zenon DEF Next

\* Every process has, at every moment, child_infos that are right about its children, and
\* whoever is inside exec or process_wait works on a child of its own.
THEOREM CallsInvariant == Spec => []Calls
<1>1. Init => Calls
  BY InitCalls
<1>2. IInv /\ Calls /\ [Next]_vars => Calls'
  BY NextCalls
<1> QED BY <1>1, <1>2, FamilyInvariant, PTL DEF Spec

\* process_wait: whichever semaphore it ended up waiting for, and whatever else ran in the
\* meantime, the status it returns for a child on record is the one the child ended with.
THEOREM StatusesAreDelivered == Spec => []StatusDelivered
<1>1. Calls => StatusDelivered
  <2> SUFFICES ASSUME Calls, NEW p \in All, result[p].call = "wait", result[p].value # -1,
                      \E i \in DOMAIN child_info_list[p] : child_info_list[p][i].tid = result[p].tid
               PROVE  Ended(result[p].tid) /\ result[p].value = exit_status[result[p].tid]
    BY Zenon DEF StatusDelivered
  <2>1. child_info_list[p] \in Seq(Info)
    BY Zenon DEF Calls, Data
  <2>2. DOMAIN child_info_list[p] = 1..Len(child_info_list[p])
    BY <2>1
  <2>3. Knows(p, result[p].tid)
    BY <2>2, Zenon DEF Knows
  <2> QED BY <2>3, Zenon DEF Calls, Caller, Answer
<1> QED BY <1>1, CallsInvariant, PTL

\* exec does not return the tid of a child before the child's load is over.
THEOREM ExecsReturnAfterLoad == Spec => []ExecAfterLoad
<1>1. Calls => ExecAfterLoad
  BY Zenon DEF Calls, Caller, Answer, Fresh, ExecAfterLoad
<1> QED BY <1>1, CallsInvariant, PTL

\* Only process_wait makes a wait's answer.
LEMMA OtherAnswers ==
  ASSUME Data, NEW p \in Procs, [Next]_vars, result'[p] # result[p], result'[p].call = "wait"
  PROVE  WaitInfo(p) \/ Waited(p)
<1> USE DEF At, Goto, family_vars, list_vars, sema_vars, local_vars, Forget, Halt
<1>1. Nothing.call # "wait" /\ \A c, v : [call |-> "exec", tid |-> c, value |-> v].call # "wait"
  BY DEF Nothing
<1>2. \A q \in All : ~(result' = [result EXCEPT ![q] = Nothing])
  BY <1>1, Zenon DEF Data
<1>3. \A q : ~ExecReturn(q)
  <2> SUFFICES ASSUME NEW q, ExecReturn(q)
               PROVE  FALSE
    BY Zenon
  <2> DEFINE v == IF arg[q] = NULL THEN -1 ELSE 0
  <2>1. result' = [result EXCEPT ![q] = [call |-> "exec", tid |-> arg[q], value |-> v]]
    BY Zenon DEF ExecReturn
  <2> HIDE DEF v
  <2>2. result'[p] = [call |-> "exec", tid |-> arg[q], value |-> v]
    BY <2>1, Zenon DEF Data
  <2> QED BY <1>1, <2>2
<1>4. \A q \in All : \A v : WaitReturn(q, v) => q = p
  BY Zenon DEF WaitReturn, Data
<1>5. result' # result
  BY Zenon
<1>6. ASSUME NEW q \in All, Exec(q) \/ KernelStep(q)
      PROVE  WaitInfo(p) \/ Waited(p)
  <2>1. ~Exec(q)
    BY <1>2, Zenon DEF Exec
  <2>2. ~OutOfPages(q) /\ ~LoadFailedTest(q) /\ ~(\E c \in Procs : ThreadCreate(q, c))
    BY <1>5, Zenon DEF OutOfPages, LoadFailedTest, ThreadCreate
  <2>3. ~FindLoading(q) /\ ~SyncDown(q)
    BY <1>3, <1>5, Zenon DEF FindLoading, SyncDown
  <2>4. ~WaitFind(q) /\ ~WaitDown(q)
    BY <1>5, Zenon DEF WaitFind, WaitDown
  <2>5. ~Reap(q) /\ ~ReapNext(q)
    BY <1>5, Zenon DEF Reap, ReapNext
  <2>6. (WaitInfo(q) => q = p) /\ (Waited(q) => q = p)
    BY <1>4, <1>5, Zenon DEF WaitInfo, Waited
  <2> QED BY <1>6, <2>1, <2>2, <2>3, <2>4, <2>5, <2>6, Zenon DEF KernelStep
<1>7. ASSUME NEW q \in Procs
      PROVE  ~ProcStep(q)
  <2>1. ~Loaded(q)
    BY <1>3, <1>5, Zenon DEF Loaded
  <2>2. ~Kill(q) /\ (\A c \in Procs : ~Wait(q, c)) /\ (\A s \in Statuses : ~Exit(q, s))
    BY <1>2, Zenon DEF Kill, Wait, Exit
  <2>3. ~LoadFailed(q) /\ ~MarkExited(q) /\ ~ThreadExit(q) /\ ~Die(q)
    BY <1>5, Zenon DEF LoadFailed, MarkExited, ThreadExit, Die
  <2> QED BY <2>1, <2>2, <2>3, Zenon DEF ProcStep
<1>8. ~Halted /\ ~UNCHANGED vars
  BY <1>5, Zenon DEF Halted, vars
<1> QED BY <1>6, <1>7, <1>8, Zenon DEF Next

\* process_wait: once a wait has found the child ended, no later wait for that child, as
\* long as it is on record, returns a status.
THEOREM StatusIsGivenOnce == Spec => WaitOnce
<1> DEFINE Again(p) ==
      LET r == result'[p]
      IN  r # result[p] /\ r.call = "wait" /\ r.tid \in reaped
            /\ (\E i \in DOMAIN child_info_list[p] : child_info_list[p][i].tid = r.tid)
            => r.value = -1
<1>1. Calls /\ [Next]_vars => [\A p \in Procs : Again(p)]_vars
  <2> SUFFICES ASSUME Calls, [Next]_vars, NEW p \in Procs,
                      result'[p] # result[p], result'[p].call = "wait", result'[p].tid \in reaped,
                      \E i \in DOMAIN child_info_list[p] : child_info_list[p][i].tid = result'[p].tid
               PROVE  result'[p].value = -1
    BY Zenon
  <2>1. Data /\ Caller(p) /\ Records(p)
    BY Zenon DEF Calls
  <2>2. child_info_list[p] \in Seq(Info)
    BY <2>1, Zenon DEF Data
  <2>3. DOMAIN child_info_list[p] = 1..Len(child_info_list[p])
    BY <2>2
  <2>4. Knows(p, result'[p].tid)
    BY <2>3, Zenon DEF Knows
  <2>5. ASSUME NEW v, WaitReturn(p, v)
        PROVE  result'[p].tid = arg[p] /\ result'[p].value = v
    <3>1. result' = [result EXCEPT ![p] = [call |-> "wait", tid |-> arg[p], value |-> v]]
      BY <2>5, Zenon DEF WaitReturn
    <3>2. result'[p] = [call |-> "wait", tid |-> arg[p], value |-> v]
      BY <2>1, <3>1, Zenon DEF Data
    <3> QED BY <3>2
  <2>6. CASE Waited(p)
    <3>1. PICK v : v = Chosen(child_info_list[p], temp[p]).exit_status
      OBVIOUS
    <3>2. pc[p] = "waited" /\ WaitReturn(p, v)
      BY <2>6, <3>1, Zenon DEF Waited, At
    <3>3. Knows(p, arg[p]) /\ arg[p] \in reaped
      BY <2>4, <2>5, <3>2, Zenon
    <3> QED BY <2>1, <3>2, <3>3, Zenon DEF Caller, Waits, InWait
  <2>7. CASE WaitInfo(p)
    <3>1. CASE WaitReturn(p, -1)
      <4>1. PICK v : v = -1
        OBVIOUS
      <4> QED BY <2>5, <3>1, <4>1, Zenon
    <3>2. CASE LET info == Chosen(child_info_list[p], arg[p])
               IN  ~info.waited /\ info.tid = arg[p] /\ WaitReturn(p, info.exit_status)
      <4>1. PICK v : v = Chosen(child_info_list[p], arg[p]).exit_status
        OBVIOUS
      <4>2. Knows(p, arg[p]) /\ arg[p] \in reaped
        BY <2>4, <2>5, <3>2, <4>1, Zenon
      <4>3. /\ Chosen(child_info_list[p], arg[p]).tid = arg[p]
            /\ Right(p, Chosen(child_info_list[p], arg[p]))
        BY <2>1, <4>2, ChosenRight, Zenon
      <4> QED BY <3>2, <4>2, <4>3, Zenon DEF Right
    <3> QED BY <2>7, <3>1, <3>2, Zenon DEF WaitInfo
  <2> QED BY <2>1, <2>6, <2>7, OtherAnswers, Zenon
<1> QED BY <1>1, CallsInvariant, PTL DEF Spec, WaitOnce

=============================================================================
