---------------------------- MODULE MCSequential ----------------------------
(* Constants for the sequential components that a configuration cannot      *)
(* write.                                                                  *)
EXTENDS Sequential

MCTypeSize == ("" :> 1024) @@ ("hh" :> 16) @@ ("h" :> 64) @@ ("l" :> 1024) @@ ("z" :> 1024)

=============================================================================
