------------------------------ MODULE Console ------------------------------
(***************************************************************************)
(* The text screen, kernel/cga.c, as operators on a screen: its cells, row *)
(* after row, and the position at which the next character goes.  Colours  *)
(* are left out: a cell is its character, and a cleared cell is Blank.     *)
(***************************************************************************)
EXTENDS Integers, Sequences

CONSTANTS NUMBER_LINE, NUMBER_COLUMN

\* A tab moves to the last column of a group of eight.
ASSUME ScreenAssumption ==
    /\ NUMBER_LINE \in Nat \ {0} /\ NUMBER_COLUMN \in Nat \ {0}
    /\ NUMBER_COLUMN % 8 = 0

Blank == 0
BS == 8
TAB == 9
LF == 10
FF == 12
CR == 13
DEL == 127

Offsets == 0..(NUMBER_LINE * NUMBER_COLUMN - 1)

MEM_VIDEO_OFFSET(line, column) == line * NUMBER_COLUMN + column
cursor_pos(scr) == MEM_VIDEO_OFFSET(scr.line, scr.column)

Screen == [cells : [Offsets -> 0..255], line : 0..(NUMBER_LINE - 1), column : 0..(NUMBER_COLUMN - 1)]

clear_screen == [cells |-> [o \in Offsets |-> Blank], line |-> 0, column |-> 0]

scroll_screen(cells) ==
    [o \in Offsets |-> IF o + NUMBER_COLUMN \in Offsets THEN cells[o + NUMBER_COLUMN] ELSE Blank]

\* Mutated form: backing up stays on the row.
back_up_same_row(scr) ==
    [scr EXCEPT !.column = IF scr.column # 0 THEN @ - 1 ELSE @]
back_up(scr) ==
    IF scr.column # 0 THEN [scr EXCEPT !.column = @ - 1]
    ELSE IF scr.line > 0 THEN [scr EXCEPT !.line = @ - 1, !.column = NUMBER_COLUMN - 1]
    ELSE scr

\* The default case: write the character and wrap after the last column.
advance(scr, c) ==
    LET written == [scr EXCEPT !.cells[cursor_pos(scr)] = c]
    IN  IF scr.column = NUMBER_COLUMN - 1
        THEN [written EXCEPT !.line = @ + 1, !.column = 0]
        ELSE [written EXCEPT !.column = @ + 1]

\* The switch of console_putchar.
placed(scr, c) ==
    CASE c = BS  -> [scr EXCEPT !.column = IF @ # 0 THEN @ - 1 ELSE @]
      [] c = TAB -> [scr EXCEPT !.column = @ - (@ % 8) + 7]
      [] c = LF  -> [scr EXCEPT !.line = @ + 1, !.column = 0]
      [] c = FF  -> clear_screen
      [] c = CR  -> [scr EXCEPT !.column = 0]
      [] c = DEL -> LET b == back_up(scr) IN [b EXCEPT !.cells[cursor_pos(b)] = Blank]
      [] OTHER   -> advance(scr, c)

console_putchar(scr, c) ==
    LET s == placed(scr, c)
    IN  IF s.line = NUMBER_LINE
        THEN [s EXCEPT !.cells = scroll_screen(@), !.line = @ - 1]
        ELSE s

\* What op makes of v; v is evaluated once.
apply(op(_), v) == CHOOSE result \in {op(x) : x \in {v}} : TRUE
\* What v becomes by op for each element of seq in turn.
through(op(_, _), v, seq) ==
    LET after[i \in 0..Len(seq)] ==
            IF i = 0 THEN v ELSE apply(LAMBDA x : op(x, seq[i]), after[i - 1])
    IN  after[Len(seq)]

\* A string that holds a NUL is not written at all.
cons_write(scr, str) ==
    IF \E i \in DOMAIN str : str[i] = 0 THEN scr ELSE through(console_putchar, scr, str)
=============================================================================
