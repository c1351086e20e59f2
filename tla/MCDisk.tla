------------------------------- MODULE MCDisk -------------------------------
(***************************************************************************)
(* Instances of Disk for TLC.                                              *)
(***************************************************************************)
EXTENDS Disk
=============================================================================
