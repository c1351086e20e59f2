------------------------------- MODULE Screen -------------------------------
(***************************************************************************)
(* The text display of devices/vga.c: the framebuffer, the cursor of the   *)
(* driver and the one of the hardware.                                     *)
(***************************************************************************)
EXTENDS Integers, Sequences

CONSTANTS ROW_CNT, COL_CNT, TAB

BLANK == "blank"
BlankRow == [x \in 0..COL_CNT-1 |-> BLANK]

clear_row(s, y) == [s EXCEPT !.fb[y] = BlankRow]
move_cursor(s) == [s EXCEPT !.cursor = s.cx + COL_CNT * s.cy]

\* init: the cursor is where the hardware says (find_cursor).
vga_init(fb, cursor) ==
  [fb |-> fb, cx |-> cursor % COL_CNT, cy |-> cursor \div COL_CNT, cursor |-> cursor]

cls(s) == move_cursor([s EXCEPT !.fb = [y \in 0..ROW_CNT-1 |-> BlankRow], !.cx = 0, !.cy = 0])

\* Mutant: the row that scrolls in is not cleared.
MutNewline(s) ==
  IF s.cy + 1 < ROW_CNT THEN [s EXCEPT !.cx = 0, !.cy = @ + 1]
  ELSE [s EXCEPT !.cx = 0, !.cy = ROW_CNT - 1,
                 !.fb = [y \in 0..ROW_CNT-1 |-> s.fb[IF y < ROW_CNT - 1 THEN y + 1 ELSE y]]]

newline(s) ==
  IF s.cy + 1 < ROW_CNT THEN [s EXCEPT !.cx = 0, !.cy = @ + 1]
  ELSE clear_row([s EXCEPT !.cx = 0, !.cy = ROW_CNT - 1,
                           !.fb = [y \in 0..ROW_CNT-1 |-> s.fb[IF y < ROW_CNT - 1 THEN y + 1 ELSE y]]],
                 ROW_CNT - 1)

\* The cursor moved to column x, on the next line if there is no such column.
MoveTo(s, x) == IF x >= COL_CNT THEN newline(s) ELSE [s EXCEPT !.cx = x]

vga_putc(s, c) ==
  move_cursor(CASE c = "nl" -> newline(s)
                [] c = "ff" -> cls(s)
                [] c = "bs" -> [s EXCEPT !.cx = IF @ > 0 THEN @ - 1 ELSE @]
                [] c = "cr" -> [s EXCEPT !.cx = 0]
                [] c = "tab" -> MoveTo(s, ((s.cx + TAB) \div TAB) * TAB)
                [] OTHER -> MoveTo([s EXCEPT !.fb[s.cy][s.cx] = c], s.cx + 1))

-----------------------------------------------------------------------------
(* The text that was written, as a roll of paper: rows without an end, the *)
(* window of the display on the last of them, and the next place in it.    *)

Paper(fb, cursor) ==
  [rows |-> [y \in 1..ROW_CNT |-> fb[y - 1]], at |-> cursor]

\* The number of the row and of the column of the next place.
Row(p) == p.at \div COL_CNT
Column(p) == p.at % COL_CNT
Unrolled(p, at) ==
  [at |-> at, rows |-> IF at \div COL_CNT < Len(p.rows) THEN p.rows ELSE Append(p.rows, BlankRow)]

Write(p, c) ==
  CASE c = "nl" -> Unrolled(p, (Row(p) + 1) * COL_CNT)
    [] c = "ff" -> Paper([y \in 0..ROW_CNT-1 |-> BlankRow], 0)
    [] c = "bs" -> [p EXCEPT !.at = IF Column(p) = 0 THEN @ ELSE @ - 1]
    [] c = "cr" -> [p EXCEPT !.at = @ - Column(p)]
    [] c = "tab" -> LET x == CHOOSE x \in Column(p)+1..Column(p)+TAB : x % TAB = 0
                    IN  Unrolled(p, IF x < COL_CNT THEN p.at + x - Column(p) ELSE (Row(p) + 1) * COL_CNT)
    [] OTHER -> Unrolled([p EXCEPT !.rows[Row(p) + 1][Column(p)] = c], p.at + 1)

\* The display shows the end of the paper, and both cursors are at the next place.
Shows(s, p) ==
  LET first == Len(p.rows) - ROW_CNT
  IN  /\ \A y \in 0..ROW_CNT-1 : s.fb[y] = p.rows[first + y + 1]
      /\ s.cx = Column(p) /\ s.cy = Row(p) - first
      /\ s.cursor = p.at - first * COL_CNT /\ s.cursor \in 0..ROW_CNT*COL_CNT-1

=============================================================================
