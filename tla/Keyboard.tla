------------------------------ MODULE Keyboard ------------------------------
(***************************************************************************)
(* devices/kbd.c: from scancodes to characters.  Characters are their      *)
(* codes; of the key maps, the entries below stand for all.                *)
(***************************************************************************)
EXTENDS Integers, Sequences

invariant_keymap == <<[first |-> 28, chars |-> <<13>>],         \* Enter
                      [first |-> 30, chars |-> <<65, 83>>]>>    \* A S
unshifted_keymap == <<[first |-> 2, chars |-> <<49, 50>>],      \* 1 2
                      [first |-> 26, chars |-> <<91>>]>>        \* [
shifted_keymap == <<[first |-> 2, chars |-> <<33, 64>>],        \* ! @
                    [first |-> 26, chars |-> <<123>>]>>         \* {

CapsLock == 58
E0 == 224 * 256
ShiftKeys == [left_shift |-> 42, right_shift |-> 54, left_alt |-> 56, right_alt |-> E0 + 56,
              left_ctrl |-> 29, right_ctrl |-> E0 + 29]
NOCHAR == -1

\* The character of a scancode in a map.
map_key(k, scancode) ==
  LET hits == {n \in 1..Len(k) : scancode \in k[n].first..k[n].first + Len(k[n].chars) - 1}
  IN  IF hits = {} THEN NOCHAR
      ELSE LET n == CHOOSE n \in hits : \A o \in hits : n <= o IN k[n].chars[scancode - k[n].first + 1]

tolower(c) == IF c \in 65..90 THEN c + 32 ELSE c

\* The scan of the table of shift keys.
SetShift(s, code, down) ==
  [s EXCEPT !.keys = [v \in DOMAIN ShiftKeys |-> IF ShiftKeys[v] = code THEN down ELSE s.keys[v]]]

\* keyboard_interrupt; s.c is the character for the input buffer.
keyboard_interrupt(s, code, release) ==
  LET shift == s.keys.left_shift \/ s.keys.right_shift
      alt == s.keys.left_alt \/ s.keys.right_alt
      ctrl == s.keys.left_ctrl \/ s.keys.right_ctrl
      same == map_key(invariant_keymap, code)
      c0 == IF same # NOCHAR THEN same
            ELSE map_key(IF shift THEN shifted_keymap ELSE unshifted_keymap, code)
      c1 == IF ctrl /\ c0 \in 64..95 THEN c0 - 64
            ELSE IF shift = s.caps_lock THEN tolower(c0) ELSE c0
      c2 == IF alt THEN (c1 + 128) % 256 ELSE c1
      none == [s EXCEPT !.c = NOCHAR]
  IN  IF code = CapsLock THEN [none EXCEPT !.caps_lock = IF release THEN @ ELSE ~@]
      ELSE IF c0 = NOCHAR THEN SetShift(none, code, ~release)
      ELSE IF release THEN none ELSE [s EXCEPT !.c = c2]

-----------------------------------------------------------------------------
(* A person at the keyboard: the keys that are held, and what a key means. *)

OrdinaryKeys == {28, 30, 31, 2, 3, 26}
AllKeys == OrdinaryKeys \cup {CapsLock, E0 + 28} \cup {ShiftKeys[v] : v \in DOMAIN ShiftKeys}
Holds(held, name1, name2) == ShiftKeys[name1] \in held \/ ShiftKeys[name2] \in held

\* The character that pressing a key means: letters are capitals if one of Shift and
\* Caps Lock is on, Ctrl makes a control character where there is one, and Alt sets
\* the high bit.
Meaning(key, held, caps) ==
  LET shift == Holds(held, "left_shift", "right_shift")
      plain == CASE key = 28 -> 13
                 [] key \in {30, 31} -> (IF key = 30 THEN 65 ELSE 83) + (IF shift # caps THEN 0 ELSE 32)
                 [] key \in {2, 3} -> IF shift THEN (IF key = 2 THEN 33 ELSE 64) ELSE 47 + key
                 [] key = 26 -> IF shift THEN 123 ELSE 91
      upper == IF key \in {30, 31} THEN (IF key = 30 THEN 65 ELSE 83) ELSE plain
      ctrl == IF Holds(held, "left_ctrl", "right_ctrl") /\ upper \in 64..95 THEN upper - 64 ELSE plain
  IN  IF Holds(held, "left_alt", "right_alt") THEN ctrl + 128 ELSE ctrl

=============================================================================
