------------------------------ MODULE MCFiles ------------------------------
(***************************************************************************)
(* Instances of Files for TLC.                                             *)
(***************************************************************************)
EXTENDS Files

Rel(names) == [abs |-> FALSE, names |-> names]
Abs(names) == [abs |-> TRUE, names |-> names]

MCNames == {"a", "b"}
MCMakePaths == {Rel(<<"a">>), Rel(<<"b">>), Rel(<<"a", "b">>), Abs(<<"a">>)}
MCRemovePaths == {Rel(<<"a">>), Rel(<<"..", "a">>), Rel(<<"b">>), Abs(<<"a", "b">>)}
MCPaths == {Rel(<<"a">>), Rel(<<"..">>), Rel(<<"a", "b">>)}
=============================================================================
