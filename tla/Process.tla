------------------------------ MODULE Process ------------------------------
(***************************************************************************)
(* Processes: exec, wait, exit and the handshake between a parent and its  *)
(* children (userprog/process.c, userprog/syscall.c, and thread_create and *)
(* thread_exit in threads/thread.c).                                       *)
(*                                                                         *)
(* All processes have priority PRI_DEFAULT and run in any interleaving.    *)
(* When a sema_up finds the parent blocked, it yields with interrupts off  *)
(* and the parent, ahead in the ready list, downs the semaphore before the *)
(* child goes on: that handover is one step.  A process is known by its    *)
(* tid; its struct thread is a page that schedule_tail frees.  Code that   *)
(* works on a freed or an uninitialised pointer may do anything: the model *)
(* stops there and halted says why.                                        *)
(*                                                                         *)
(*   "none"        not created        "sync"       exec, about to down     *)
(*   "load"        in load            "loading"    exec, blocked           *)
(*   "user"        in user code       "wait"       entering process_wait   *)
(*   "execute"     in process_execute "find"       looking for the child   *)
(*   "flag"        child created      "down"       about to down           *)
(*   "created"     back in exec       "waiting"    blocked                 *)
(*   "reap"        in exit's loop     "waited"     downed, about to return *)
(*   "next"        exit's list_next   "thread_exit" entering thread_exit   *)
(*   "post"        telling the parent "dying"      about to be destroyed   *)
(*   "freed"       its page has been freed                                 *)
(***************************************************************************)
EXTENDS Integers, Sequences, Functions

CONSTANTS
  Procs,     \* tids of user processes
  main,      \* the initial thread, which runs init.c:run_task
  NULL,
  Statuses   \* arguments of exit

ASSUME ProcessAssumption ==
  /\ main \notin Procs
  /\ NULL \notin Procs \cup {main}
  /\ Statuses \subseteq Nat

VARIABLES
  pc,
  parent_thread, exit_status, child_load_failed,   \* struct thread
  children_thread_list, child_info_list,           \* struct thread
  parent_child_sync, parent_wait_sema,             \* values of the semaphores
  next,             \* elem_child.next of a process no longer in the list
  filesys_lock,
  arg,              \* tid exec or process_wait works on, NULL for TID_ERROR
  temp,             \* process_wait: tid of the child_info it has chosen
  temp_child,       \* process_wait: the child whose semaphore it downs
  cursor,           \* exit: e, the child it is waiting for; NULL at the end
  result,           \* what the last exec or wait returned
  reaped,           \* history: children that a wait found ended
  halted

family_vars == <<parent_thread, exit_status, child_load_failed, next>>
list_vars == <<children_thread_list, child_info_list>>
sema_vars == <<parent_child_sync, parent_wait_sema>>
local_vars == <<arg, temp, temp_child, cursor, result, reaped>>
vars == <<pc, family_vars, list_vars, sema_vars, filesys_lock, local_vars, halted>>

All == Procs \cup {main}

Places == {"none", "load", "user", "execute", "flag", "created", "sync", "loading",
           "wait", "find", "down", "waiting", "waited", "reap", "next",
           "post", "thread_exit", "dying", "freed"}

Faults == {"none", "freed thread", "live thread freed", "uninitialised pointer"}

ChildInfo == [tid : Procs, exit_status : Statuses \cup {0}, exited : BOOLEAN,
              waited : BOOLEAN]

Nothing == [call |-> "none", tid |-> NULL, value |-> 0]

Init ==
  /\ pc = [p \in All |-> IF p = main THEN "user" ELSE "none"]
  /\ parent_thread = [p \in Procs |-> NULL]
  /\ exit_status = [p \in Procs |-> 0]
  /\ child_load_failed = [p \in All |-> FALSE]
  /\ children_thread_list = [p \in All |-> <<>>]
  /\ child_info_list = [p \in All |-> <<>>]
  /\ parent_child_sync = [p \in Procs |-> 0]
  /\ parent_wait_sema = [p \in Procs |-> 0]
  /\ next = [p \in Procs |-> NULL]
  /\ filesys_lock = NULL
  /\ arg = [p \in All |-> NULL]
  /\ temp = [p \in All |-> NULL]
  /\ temp_child = [p \in All |-> NULL]
  /\ cursor = [p \in All |-> NULL]
  /\ result = [p \in All |-> Nothing]
  /\ reaped = {}
  /\ halted = "none"

-----------------------------------------------------------------------------
\* The last call's answer is not looked at any more.
Forget(p) == result' = [result EXCEPT ![p] = Nothing]

At(p, place) == halted = "none" /\ pc[p] = place

Goto(p, place) == pc' = [pc EXCEPT ![p] = place]

Halt(why) == halted' = why /\ UNCHANGED <<pc, family_vars, list_vars, sema_vars,
                                          filesys_lock, local_vars>>

\* Where the search loops of process_execute and process_wait over a
\* child_info_list leave their cursor: at the element of tid c, or at the last one.
Found(list, c) ==
  IF \E i \in 1..Len(list) : list[i].tid = c
  THEN CHOOSE i \in 1..Len(list) : list[i].tid = c /\ \A j \in 1..i-1 : list[j].tid # c
  ELSE Len(list)
Chosen(list, c) == list[Found(list, c)]

\* Likewise for children_thread_list.
ChosenChild(list, c) == IF c \in Range(list) THEN c ELSE list[Len(list)]

\* list_remove of the element at i.
Removed(list, i) == SubSeq(list, 1, i - 1) \o SubSeq(list, i + 1, Len(list))

Position(list, c) == CHOOSE i \in 1..Len(list) : list[i] = c

\* The successor of c in list, NULL for the list's end.
Successor(list, c) ==
  LET i == Position(list, c)
  IN  IF i = Len(list) THEN NULL ELSE list[i + 1]

First(list) == IF list = <<>> THEN NULL ELSE Head(list)

-----------------------------------------------------------------------------
(* Creating a process.                                                     *)

\* exec takes filesys_lock around process_execute; run_task does not.
Exec(p) ==
  /\ At(p, "user")
  /\ IF p = main THEN UNCHANGED filesys_lock
     ELSE filesys_lock = NULL /\ filesys_lock' = p
  /\ Goto(p, "execute")
  /\ Forget(p)
  /\ UNCHANGED <<family_vars, list_vars, sema_vars, arg, temp, temp_child, cursor,
                 reaped, halted>>

\* thread_create: the child is on both lists of its parent before it runs.
ThreadCreate(p, c) ==
  /\ At(p, "execute")
  /\ pc[c] = "none"
  /\ parent_thread' = [parent_thread EXCEPT ![c] = p]
  /\ children_thread_list' = [children_thread_list EXCEPT ![p] = Append(@, c)]
  /\ child_info_list' = [child_info_list EXCEPT ![p] =
       Append(@, [tid |-> c, exit_status |-> 0, exited |-> FALSE, waited |-> FALSE])]
  /\ pc' = [pc EXCEPT ![p] = "flag", ![c] = "load"]
  /\ arg' = [arg EXCEPT ![p] = c]
  /\ UNCHANGED <<exit_status, child_load_failed, next, sema_vars, filesys_lock, temp,
                 temp_child, cursor, result, reaped, halted>>

\* process_execute finds no page for its copy of the name, or thread_create
\* none for the thread.
OutOfPages(p) ==
  /\ At(p, "execute")
  /\ arg' = [arg EXCEPT ![p] = NULL]
  /\ \/ Goto(p, "created")
     \/ Goto(p, "flag")
  /\ UNCHANGED <<family_vars, list_vars, sema_vars, filesys_lock, temp, temp_child,
                 cursor, result, reaped, halted>>

\* The rest of process_execute: if child_load_failed is set, the last thread
\* examined is freed, although every thread on the list is alive.
LoadFailedTest(p) ==
  /\ At(p, "flag")
  /\ \/ /\ ~child_load_failed[p]
        /\ Goto(p, "created")
        /\ UNCHANGED <<family_vars, list_vars, sema_vars, filesys_lock, local_vars,
                       halted>>
     \/ /\ child_load_failed[p]
        /\ children_thread_list[p] # <<>>
        /\ Halt("live thread freed")
     \/ /\ child_load_failed[p]
        /\ children_thread_list[p] = <<>>
        /\ child_info_list' = [child_info_list EXCEPT ![p] =
             IF @ = <<>> THEN @ ELSE Removed(@, Found(@, arg[p]))]
        /\ arg' = [arg EXCEPT ![p] = NULL]
        /\ Goto(p, "created")
        /\ UNCHANGED <<family_vars, children_thread_list, sema_vars, filesys_lock, temp,
                       temp_child, cursor, result, reaped, halted>>

\* exec returns its tid.
ExecReturn(p) ==
  /\ result' = [result EXCEPT ![p] = [call |-> "exec", tid |-> arg[p],
                                      value |-> IF arg[p] = NULL THEN -1 ELSE 0]]
  /\ arg' = [arg EXCEPT ![p] = NULL]

\* Mutant: exec does not wait for the child's load.
FindLoadingNoWait(p) ==
  /\ At(p, "created")
  /\ IF p = main
     THEN Goto(p, "wait") /\ UNCHANGED <<filesys_lock, arg, result>>
     ELSE filesys_lock' = NULL /\ Goto(p, "user") /\ ExecReturn(p)
  /\ UNCHANGED <<family_vars, list_vars, sema_vars, temp, temp_child, cursor, reaped,
                 halted>>

\* exec releases the lock and looks for the child it has created; run_task
\* passes the tid on to process_wait.
FindLoading(p) ==
  /\ At(p, "created")
  /\ \/ /\ p = main
        /\ Goto(p, "wait")
        /\ UNCHANGED <<filesys_lock, arg, result, halted>>
     \/ /\ p # main
        /\ filesys_lock' = NULL
        /\ \/ /\ children_thread_list[p] = <<>>
              /\ Goto(p, "user")
              /\ ExecReturn(p)
              /\ UNCHANGED halted
           \/ /\ arg[p] \in Range(children_thread_list[p])
              /\ Goto(p, "sync")
              /\ UNCHANGED <<arg, result, halted>>
           \/ /\ children_thread_list[p] # <<>>
              /\ arg[p] \notin Range(children_thread_list[p])
              /\ halted' = "uninitialised pointer"
              /\ UNCHANGED <<pc, arg, result>>
  /\ UNCHANGED <<family_vars, list_vars, sema_vars, temp, temp_child, cursor, reaped>>

\* sema_down of the child's parent_child_sync.
SyncDown(p) ==
  /\ At(p, "sync")
  /\ LET c == arg[p]
     IN  \/ /\ pc[c] = "freed"
            /\ Halt("freed thread")
         \/ /\ pc[c] # "freed"
            /\ parent_child_sync[c] = 0
            /\ Goto(p, "loading")
            /\ UNCHANGED <<family_vars, list_vars, sema_vars, filesys_lock, local_vars,
                           halted>>
         \/ /\ pc[c] # "freed"
            /\ parent_child_sync[c] > 0
            /\ parent_child_sync' = [parent_child_sync EXCEPT ![c] = @ - 1]
            /\ Goto(p, "user")
            /\ ExecReturn(p)
            /\ UNCHANGED <<family_vars, list_vars, parent_wait_sema, filesys_lock, temp,
                           temp_child, cursor, reaped, halted>>

\* start_process after a successful load.
Loaded(c) ==
  /\ At(c, "load")
  /\ LET p == parent_thread[c]
     IN  /\ child_load_failed' = [child_load_failed EXCEPT ![p] = FALSE]
         /\ IF pc[p] = "loading" /\ arg[p] = c
            THEN /\ pc' = [pc EXCEPT ![c] = "user", ![p] = "user"]
                 /\ ExecReturn(p)
                 /\ UNCHANGED parent_child_sync
            ELSE /\ parent_child_sync' = [parent_child_sync EXCEPT ![c] = @ + 1]
                 /\ Goto(c, "user")
                 /\ UNCHANGED <<arg, result>>
  /\ UNCHANGED <<parent_thread, exit_status, next, list_vars, parent_wait_sema,
                 filesys_lock, temp, temp_child, cursor, reaped, halted>>

\* start_process after a failed load.
LoadFailed(c) ==
  /\ At(c, "load")
  /\ child_load_failed' = [child_load_failed EXCEPT ![parent_thread[c]] = TRUE]
  /\ Goto(c, "thread_exit")
  /\ UNCHANGED <<parent_thread, exit_status, next, list_vars, sema_vars, filesys_lock,
                 local_vars, halted>>

-----------------------------------------------------------------------------
(* Waiting.                                                                *)

Wait(p, c) ==
  /\ At(p, "user")
  /\ p # main
  /\ arg' = [arg EXCEPT ![p] = c]
  /\ Goto(p, "wait")
  /\ Forget(p)
  /\ UNCHANGED <<family_vars, list_vars, sema_vars, filesys_lock, temp, temp_child,
                 cursor, reaped, halted>>

\* process_wait returns v, to exit if p is exiting and else to its caller;
\* its local variables are gone.
WaitReturn(p, v) ==
  /\ arg' = [arg EXCEPT ![p] = NULL]
  /\ temp' = [temp EXCEPT ![p] = NULL]
  /\ temp_child' = [temp_child EXCEPT ![p] = NULL]
  /\ IF cursor[p] # NULL
     THEN Goto(p, "next") /\ UNCHANGED <<result, reaped>>
     ELSE /\ Goto(p, "user")
          /\ result' = [result EXCEPT ![p] = [call |-> "wait", tid |-> arg[p],
                                              value |-> v]]
          /\ reaped' = IF v # -1 /\ pc[p] = "wait" THEN reaped \cup {arg[p]} ELSE reaped

\* Mutant: waited is not tested.
WaitInfoAgain(p) ==
  /\ At(p, "wait")
  /\ LET list == child_info_list[p]
         info == Chosen(list, arg[p])
     IN  \/ /\ list = <<>>
            /\ WaitReturn(p, -1)
         \/ /\ list # <<>> /\ info.tid = arg[p] /\ info.exited
            /\ WaitReturn(p, info.exit_status)
         \/ /\ list # <<>> /\ (info.tid = arg[p] => ~info.exited)
            /\ temp' = [temp EXCEPT ![p] = info.tid]
            /\ Goto(p, "find")
            /\ UNCHANGED <<arg, temp_child, result, reaped>>
  /\ UNCHANGED <<family_vars, list_vars, sema_vars, filesys_lock, cursor, halted>>

\* process_wait's first loop, over child_info_list.
WaitInfo(p) ==
  /\ At(p, "wait")
  /\ LET list == child_info_list[p]
         info == Chosen(list, arg[p])
         known == list # <<>> /\ info.tid = arg[p]
     IN  \/ /\ \/ list = <<>>
               \/ known /\ info.exited /\ info.waited
            /\ WaitReturn(p, -1)
            /\ UNCHANGED child_info_list
         \/ /\ known /\ info.exited /\ ~info.waited
            /\ child_info_list' = [child_info_list EXCEPT ![p] =
                 [i \in DOMAIN @ |-> IF @[i].tid = arg[p]
                                     THEN [@[i] EXCEPT !.waited = TRUE] ELSE @[i]]]
            /\ WaitReturn(p, info.exit_status)
         \/ /\ list # <<>>
            /\ known => ~info.exited
            /\ temp' = [temp EXCEPT ![p] = info.tid]
            /\ Goto(p, "find")
            /\ UNCHANGED <<child_info_list, arg, temp_child, result, reaped>>
  /\ UNCHANGED <<family_vars, children_thread_list, sema_vars, filesys_lock, cursor,
                 halted>>

\* process_wait's second loop, over children_thread_list; temp_child is not
\* set if the list is empty.
WaitFind(p) ==
  /\ At(p, "find")
  /\ \/ /\ children_thread_list[p] = <<>>
        /\ Halt("uninitialised pointer")
     \/ /\ children_thread_list[p] # <<>>
        /\ temp_child' = [temp_child EXCEPT ![p] =
                            ChosenChild(children_thread_list[p], arg[p])]
        /\ Goto(p, "down")
        /\ UNCHANGED <<family_vars, list_vars, sema_vars, filesys_lock, arg, temp,
                       cursor, result, reaped, halted>>

\* sema_down of the child's parent_wait_sema.
WaitDown(p) ==
  /\ At(p, "down")
  /\ LET c == temp_child[p]
     IN  \/ /\ pc[c] = "freed"
            /\ Halt("freed thread")
         \/ /\ pc[c] # "freed"
            /\ parent_wait_sema[c] = 0
            /\ Goto(p, "waiting")
            /\ UNCHANGED <<family_vars, list_vars, sema_vars, filesys_lock, local_vars,
                           halted>>
         \/ /\ pc[c] # "freed"
            /\ parent_wait_sema[c] > 0
            /\ parent_wait_sema' = [parent_wait_sema EXCEPT ![c] = @ - 1]
            /\ Goto(p, "waited")
            /\ UNCHANGED <<family_vars, list_vars, parent_child_sync, filesys_lock,
                           local_vars, halted>>

\* The end of process_wait.
Waited(p) ==
  /\ At(p, "waited")
  /\ WaitReturn(p, Chosen(child_info_list[p], temp[p]).exit_status)
  /\ UNCHANGED <<family_vars, list_vars, sema_vars, filesys_lock, cursor, halted>>

-----------------------------------------------------------------------------
(* Exiting.                                                                *)

\* exit, up to its loop over the children.
Exit(p, s) ==
  /\ At(p, "user")
  /\ p # main
  /\ exit_status' = [exit_status EXCEPT ![p] = s]
  /\ cursor' = [cursor EXCEPT ![p] = First(children_thread_list[p])]
  /\ Goto(p, IF children_thread_list[p] = <<>> THEN "post" ELSE "reap")
  /\ Forget(p)
  /\ UNCHANGED <<parent_thread, child_load_failed, next, list_vars, sema_vars,
                 filesys_lock, arg, temp, temp_child, reaped, halted>>

\* The loop's body: process_wait on the child at the cursor.
Reap(p) ==
  /\ At(p, "reap")
  /\ IF pc[cursor[p]] = "freed"
     THEN Halt("freed thread")
     ELSE /\ arg' = [arg EXCEPT ![p] = cursor[p]]
          /\ Goto(p, "wait")
          /\ UNCHANGED <<family_vars, list_vars, sema_vars, filesys_lock, temp,
                         temp_child, cursor, result, reaped, halted>>

\* list_next of the cursor, which may have left the list meanwhile.
ReapNext(p) ==
  /\ At(p, "next")
  /\ IF pc[cursor[p]] = "freed"
     THEN Halt("freed thread")
     ELSE LET e == IF cursor[p] \in Range(children_thread_list[p])
                   THEN Successor(children_thread_list[p], cursor[p])
                   ELSE next[cursor[p]]
          IN  /\ cursor' = [cursor EXCEPT ![p] = e]
              /\ Goto(p, IF e = NULL THEN "post" ELSE "reap")
              /\ UNCHANGED <<family_vars, list_vars, sema_vars, filesys_lock, arg, temp,
                             temp_child, result, reaped, halted>>

\* thread_exit has freed p's child_info elements.
Gone(p) == pc[p] \in {"dying", "freed"}

\* Mutant: the status is not passed on.
MarkExitedNoStatus(p) ==
  /\ At(p, "post")
  /\ ~Gone(parent_thread[p])
  /\ child_info_list' = [child_info_list EXCEPT ![parent_thread[p]] =
       [i \in DOMAIN @ |-> IF @[i].tid = p THEN [@[i] EXCEPT !.exited = TRUE] ELSE @[i]]]
  /\ Goto(p, "thread_exit")
  /\ UNCHANGED <<family_vars, children_thread_list, sema_vars, filesys_lock, local_vars,
                 halted>>

\* The rest of exit: the parent's child_info of this process.
MarkExited(p) ==
  /\ At(p, "post")
  /\ LET q == parent_thread[p]
     IN  IF Gone(q)
         THEN Halt("freed thread")
         ELSE /\ child_info_list' = [child_info_list EXCEPT ![q] =
                   [i \in DOMAIN @ |->
                      IF @[i].tid = p
                      THEN [@[i] EXCEPT !.exit_status = exit_status[p], !.exited = TRUE]
                      ELSE @[i]]]
              /\ Goto(p, "thread_exit")
              /\ UNCHANGED <<family_vars, children_thread_list, sema_vars, filesys_lock,
                             local_vars, halted>>

\* exception.c:kill calls thread_exit, not exit.
Kill(p) ==
  /\ At(p, "user")
  /\ p # main
  /\ Goto(p, "thread_exit")
  /\ Forget(p)
  /\ UNCHANGED <<family_vars, list_vars, sema_vars, filesys_lock, arg, temp, temp_child,
                 cursor, reaped, halted>>

\* Mutant: the waiting parent is not woken.
ThreadExitNoUp(p) ==
  /\ At(p, "thread_exit")
  /\ LET q == parent_thread[p]
     IN  /\ pc[q] # "freed"
         /\ next' = [next EXCEPT ![p] = Successor(children_thread_list[q], p)]
         /\ children_thread_list' =
              [children_thread_list EXCEPT ![q] = Removed(@, Position(@, p))]
  /\ child_info_list' = [child_info_list EXCEPT ![p] = <<>>]
  /\ Goto(p, "dying")
  /\ UNCHANGED <<parent_thread, exit_status, child_load_failed, sema_vars, filesys_lock,
                 local_vars, halted>>

\* Mutant: the process stays on its parent's list.
ThreadExitStaysListed(p) ==
  /\ At(p, "thread_exit")
  /\ child_info_list' = [child_info_list EXCEPT ![p] = <<>>]
  /\ parent_wait_sema' = [parent_wait_sema EXCEPT ![p] = @ + 1]
  /\ Goto(p, "dying")
  /\ UNCHANGED <<family_vars, children_thread_list, parent_child_sync, filesys_lock,
                 local_vars, halted>>

\* thread_exit, interrupts off, up to and including its sema_up.
ThreadExit(p) ==
  /\ At(p, "thread_exit")
  /\ LET q == parent_thread[p]
     IN  IF pc[q] = "freed"
         THEN Halt("freed thread")
         ELSE /\ next' = [next EXCEPT ![p] = Successor(children_thread_list[q], p)]
              /\ children_thread_list' =
                   [children_thread_list EXCEPT ![q] = Removed(@, Position(@, p))]
              /\ child_info_list' = [child_info_list EXCEPT ![p] = <<>>]
              /\ IF pc[q] = "waiting" /\ temp_child[q] = p
                 THEN /\ pc' = [pc EXCEPT ![p] = "dying", ![q] = "waited"]
                      /\ UNCHANGED parent_wait_sema
                 ELSE /\ parent_wait_sema' = [parent_wait_sema EXCEPT ![p] = @ + 1]
                      /\ Goto(p, "dying")
              /\ UNCHANGED <<parent_thread, exit_status, child_load_failed,
                             parent_child_sync, filesys_lock, local_vars, halted>>

\* The process is switched away from and schedule_tail frees its page.
Die(p) ==
  /\ At(p, "dying")
  /\ Goto(p, "freed")
  /\ UNCHANGED <<family_vars, list_vars, sema_vars, filesys_lock, local_vars, halted>>

-----------------------------------------------------------------------------
KernelStep(p) ==
  \/ \E c \in Procs : ThreadCreate(p, c)
  \/ OutOfPages(p) \/ LoadFailedTest(p) \/ FindLoading(p) \/ SyncDown(p)
  \/ WaitInfo(p) \/ WaitFind(p) \/ WaitDown(p) \/ Waited(p)
  \/ Reap(p) \/ ReapNext(p)

ProcStep(p) ==
  \/ Loaded(p) \/ LoadFailed(p)
  \/ \E c \in Procs : Wait(p, c)
  \/ \E s \in Statuses : Exit(p, s)
  \/ Kill(p) \/ MarkExited(p) \/ ThreadExit(p) \/ Die(p)

Ended(c) == pc[c] \in {"thread_exit", "dying", "freed"}

\* A failed load never ups parent_child_sync.
Unanswered(p) == pc[p] = "loading" /\ Ended(arg[p])

\* Nothing more need happen after a fault, or once an exec is never answered.
Halted ==
  /\ halted # "none" \/ \E p \in Procs : Unanswered(p)
  /\ UNCHANGED vars

Next ==
  \/ \E p \in All : Exec(p) \/ KernelStep(p)
  \/ \E p \in Procs : ProcStep(p)
  \/ Halted

Spec == Init /\ [][Next]_vars

-----------------------------------------------------------------------------
(* Properties.                                                             *)

\* The types of the variables.
TypeOK ==
  /\ pc \in [All -> Places]
  /\ parent_thread \in [Procs -> All \cup {NULL}]
  /\ exit_status \in [Procs -> Statuses \cup {0}]
  /\ child_load_failed \in [All -> BOOLEAN]
  /\ children_thread_list \in [All -> Seq(Procs)]
  /\ child_info_list \in [All -> Seq(ChildInfo)]
  /\ parent_child_sync \in [Procs -> 0..1]
  /\ parent_wait_sema \in [Procs -> 0..1]
  /\ next \in [Procs -> Procs \cup {NULL}]
  /\ filesys_lock \in Procs \cup {NULL}
  /\ arg \in [All -> Procs \cup {NULL}]
  /\ temp \in [All -> Procs \cup {NULL}]
  /\ temp_child \in [All -> Procs \cup {NULL}]
  /\ cursor \in [All -> Procs \cup {NULL}]
  /\ reaped \subseteq Procs \cup {NULL}
  /\ halted \in Faults

\* process_wait: the status a parent gets for a child it has a child_info of
\* is the one the child passed to exit (0 if it never called exit), and the
\* child has ended, whichever semaphore process_wait ended up waiting for.
StatusDelivered ==
  \A p \in All :
    LET r == result[p]
    IN  r.call = "wait" /\ r.value # -1
          /\ (\E i \in DOMAIN child_info_list[p] : child_info_list[p][i].tid = r.tid)
          => Ended(r.tid) /\ r.value = exit_status[r.tid]

\* exec: it does "not ... return exec before child's load is finished".
ExecAfterLoad ==
  \A p \in All \ {main} :
    result[p].call = "exec" /\ result[p].tid # NULL => pc[result[p].tid] # "load"

\* No process stays blocked in process_wait on a child that has ended.
NoLostExit ==
  \A p \in All : pc[p] = "waiting" => pc[temp_child[p]] \notin {"dying", "freed"}

\* children_thread_list holds exactly the process's children that have not
\* gone through thread_exit, in order of creation and once each.
ChildrenListed ==
  halted = "none" =>
  \A p \in All :
    /\ IsInjective(children_thread_list[p])
    /\ Range(children_thread_list[p]) =
         {c \in Procs : parent_thread[c] = p /\ pc[c] # "none" /\ ~Gone(c)}

\* tests/userprog/wait-twice.c, as far as the code keeps it: a wait that finds
\* the child already ended is the last one that returns its status.
WaitOnce ==
  [][\A p \in Procs :
       LET r == result'[p]
       IN  r # result[p] /\ r.call = "wait" /\ r.tid \in reaped
             /\ (\E i \in DOMAIN child_info_list[p] : child_info_list[p][i].tid = r.tid)
             => r.value = -1]_vars

\* tests/userprog/exec-missing.c: exec returns also when the load fails.
LoadAnswered ==
  \A p \in Procs : ~Unanswered(p)
=============================================================================
