-------------------------------- MODULE Mlfqs --------------------------------
(***************************************************************************)
(* The priorities of the multi-level feedback queue scheduler: the fixed   *)
(* point arithmetic of threads/fixed_point.h, and what thread.c computes   *)
(* with it at a timer tick and when nice changes.                          *)
(***************************************************************************)
EXTENDS Integers, FiniteSets

CONSTANTS
  Threads,      \* without the idle thread
  F,            \* 2^14 in the code
  TIMER_FREQ,   \* 100 in the code: ticks of a second
  SLICE         \* 4 in the code: ticks between two computations of priorities

PRI_MIN == 0
PRI_MAX == 63
IDLE == "idle"

\* Division of C: towards zero.
Div(x, y) == IF x >= 0 THEN x \div y ELSE -((-x) \div y)

CONVERT_N_TO_FIXED(n) == n * F
ROUND_TO_ZERO(x) == Div(x, F)
ADD_X_N(x, n) == x + n * F
SUBTRACT_X_N(x, n) == x - n * F
MULT_X_Y(x, y) == Div(x * y, F)
DIV_X_Y(x, y) == Div(x * F, y)

\* Mutant: a larger nice raises the priority.
MutCalcPriority(recent_cpu, nice) ==
  LET result == ROUND_TO_ZERO(ADD_X_N(CONVERT_N_TO_FIXED(PRI_MAX) - Div(recent_cpu, 4), 2 * nice))
  IN  IF result < PRI_MIN THEN PRI_MIN ELSE IF result > PRI_MAX THEN PRI_MAX ELSE result

calc_priority(recent_cpu, nice) ==
  LET result == ROUND_TO_ZERO(SUBTRACT_X_N(CONVERT_N_TO_FIXED(PRI_MAX) - Div(recent_cpu, 4), 2 * nice))
  IN  IF result < PRI_MIN THEN PRI_MIN ELSE IF result > PRI_MAX THEN PRI_MAX ELSE result

\* ready is the length of ready_list.
calc_load_avg(load_avg, ready, running) ==
  Div(load_avg * 59, 60) + Div(CONVERT_N_TO_FIXED(IF running = IDLE THEN ready ELSE ready + 1), 60)

calc_recent_cpu(load_avg, recent_cpu, nice) ==
  LET twice == load_avg * 2
  IN  ADD_X_N(MULT_X_Y(DIV_X_Y(twice, ADD_X_N(twice, 1)), recent_cpu), nice)

mlfqs_tick_change(s, timer_ticks, ready, running) ==
  LET ran == IF running = IDLE THEN s.recent_cpu ELSE [s.recent_cpu EXCEPT ![running] = ADD_X_N(@, 1)]
      second == timer_ticks % TIMER_FREQ = 0
      load == IF second THEN calc_load_avg(s.load_avg, ready, running) ELSE s.load_avg
      recent == IF second THEN [t \in Threads |-> calc_recent_cpu(load, ran[t], s.nice[t])] ELSE ran
  IN  [s EXCEPT !.load_avg = load, !.recent_cpu = recent,
                !.priority = IF timer_ticks % SLICE = 0
                             THEN [t \in Threads |-> calc_priority(recent[t], s.nice[t])] ELSE @]

thread_set_nice(s, t, nice) ==
  LET n == IF nice > 20 THEN 20 ELSE IF nice < -20 THEN -20 ELSE nice
      recent == calc_recent_cpu(s.load_avg, s.recent_cpu[t], n)
  IN  [s EXCEPT !.nice[t] = n, !.recent_cpu[t] = recent, !.priority[t] = calc_priority(recent, n)]

=============================================================================
