-------------------------------- MODULE MCVm --------------------------------
(***************************************************************************)
(* Instances of Vm for TLC: a program that uses every kind of page, and a  *)
(* small one beside it.                                                    *)
(***************************************************************************)
EXTENDS Vm, TLC

CONSTANTS p, q, c, d1, d2, g, m1, m2

OnePage == <<m1>>
TwoPages == <<m1, m2>>
MCTouches == (p :> {d1, d2, g} \cup MapPages) @@ (q :> {c})
Symm == Permutations(Frames) \cup Permutations(Slots) \cup Permutations(DataPages)

\* Once a frame was taken from another process, behaviours are followed only
\* while an eviction or an exit is under way.
Followed == foreign => \E r \in Procs : th[r].pc \in {"save", "exit"}
=============================================================================
