------------------------------ MODULE MCInode ------------------------------
(***************************************************************************)
(* Instances of Inode for TLC.                                             *)
(***************************************************************************)
EXTENDS Inode

Symm == Permutations(Files)
=============================================================================
