----------------------------- MODULE MCTerminal -----------------------------
(***************************************************************************)
(* Instances of Terminal for TLC.                                          *)
(***************************************************************************)
EXTENDS Terminal, TLC

CONSTANTS w1, w2

\* A line of two characters with a message of the same thread in the middle (the
\* nesting that console_lock_depth is for), and a single character.
MCScript ==
  (w1 :> <<"acquire", "a", "acquire", "n", "release", "b", "release">>)
    @@ (w2 :> <<"acquire", "c", "release">>)
=============================================================================
