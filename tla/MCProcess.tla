----------------------------- MODULE MCProcess -----------------------------
(***************************************************************************)
(* Instances of Process for TLC.                                           *)
(***************************************************************************)
EXTENDS Process, TLC

\* Processes are interchangeable.
Symm == Permutations(Procs)
=============================================================================
