----------------------------- MODULE MCThreads -----------------------------
(***************************************************************************)
(* Instances of Threads for TLC.                                           *)
(***************************************************************************)
EXTENDS Threads, TLC

\* Threads other than the initial one, and locks, are interchangeable.
Symm == Permutations(Threads \ {initial_thread}) \cup Permutations(Locks)
=============================================================================
