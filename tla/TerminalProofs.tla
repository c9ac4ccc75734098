--------------------------- MODULE TerminalProofs ---------------------------
(***************************************************************************)
(* From the keys to the programs: no modifier sticks, no character is lost, *)
(* programs get the line that was on the screen, and the screen shows it,  *)
(* for every value of the constants of Terminal.  First the screen, then   *)
(* the ring, what is typed, the loop of cons_read, the bytes of the        *)
(* keyboard; at the end the steps of Terminal.                             *)
(***************************************************************************)
EXTENDS Terminal, KeyboardProofs, PrioQueueProofs

-----------------------------------------------------------------------------
(* Definitions by recursion on the turns of a loop *)

\* A loop of n turns, the i-th of which makes F[<<i, s>>] of s.
Turns(g, S, s0, n, F) ==
    g \in [0..n -> S] /\ g[0] = s0 /\ \A i \in 1..n : g[i] = F[<<i, g[i - 1]>>]

\* Such a loop can be defined by recursion on its turns.
LEMMA Unfold ==
    ASSUME NEW S, NEW s0 \in S, NEW n \in Nat, NEW F \in [(1..n) \X S -> S]
    PROVE  \E g : Turns(g, S, s0, n, F)
<1> DEFINE E == [x \in Nat \X S |-> IF x[1] < n THEN F[<<x[1] + 1, x[2]>>] ELSE x[2]]
<1>1. E \in [Nat \X S -> S]
  <2>1. ASSUME NEW i \in Nat, NEW s \in S PROVE (IF i < n THEN F[<<i + 1, s>>] ELSE s) \in S
    <3>1. CASE i < n
      <4>1. <<i + 1, s>> \in (1..n) \X S
        BY <3>1
      <4>2. QED
        BY <3>1, <4>1
    <3>2. CASE ~(i < n)
      BY <3>2
    <3>3. QED
      BY <3>1, <3>2
  <2>2. QED
    BY <2>1
<1>2. PICK G : Follows(G, S, s0, E)
  <2> HIDE DEF E
  <2> QED BY <1>1, Recursion
<1> DEFINE g == [i \in 0..n |-> G[i]]
<1>3. g \in [0..n -> S]
  BY <1>2 DEF Follows
<1>4. g[0] = s0
  BY <1>2 DEF Follows
<1>5. ASSUME NEW i \in 1..n PROVE g[i] = F[<<i, g[i - 1]>>]
  <2>1. i - 1 \in Nat /\ i - 1 \in 0..n /\ (i - 1) + 1 = i /\ i - 1 < n
    OBVIOUS
  <2>2. G[i - 1] \in S
    BY <1>2, <2>1 DEF Follows
  <2>3. G[(i - 1) + 1] = E[<<i - 1, G[i - 1]>>]
    <3> HIDE DEF E
    <3> QED BY <1>2, <2>1 DEF Follows
  <2>4. <<i - 1, G[i - 1]>> \in Nat \X S
    BY <2>1, <2>2
  <2>5. E[<<i - 1, G[i - 1]>>] = F[<<(i - 1) + 1, G[i - 1]>>]
    BY <2>1, <2>4
  <2>6. QED
    BY <2>1, <2>3, <2>5
<1>6. QED
  <2> HIDE DEF g
  <2> QED BY <1>3, <1>4, <1>5 DEF Turns

-----------------------------------------------------------------------------
\* The states of kbd.c.
TtySet == [keyboard_buffer : [Ring -> 0..255], index_write : Ring, index_read : Ring,
           nb_write : Nat, echo : BOOLEAN, screen : Screen]

\* c[i] is what the first i characters of str make of t.
Receives(c, t, str) ==
    c[0] = t /\ \A i \in 1..Len(str) : c[i] = receive(c[i - 1], str[i])

\* keyboard_data takes one character after the other.
LEMMA DataFollows ==
    ASSUME NEW t \in TtySet, NEW str \in Seq(Chars),
           \A u \in TtySet, c \in Chars : receive(u, c) \in TtySet
    PROVE  \E c : Receives(c, t, str) /\ keyboard_data(t, str) = c[Len(str)]
<1> DEFINE n == Len(str)
           F == [x \in (1..n) \X TtySet |-> receive(x[2], str[x[1]])]
           Body(f, i) == IF i = 0 THEN t ELSE apply(LAMBDA x : receive(x, str[i]), f[i - 1])
<1>0. n \in Nat /\ \A i \in 1..n : str[i] \in Chars
  OBVIOUS
<1>1. F \in [(1..n) \X TtySet -> TtySet]
  <2> HIDE DEF n
  <2> QED BY <1>0
<1>2. PICK g \in [0..n -> TtySet] : g[0] = t /\ \A i \in 1..n : g[i] = F[<<i, g[i - 1]>>]
  <2> HIDE DEF F, n
  <2>1. \E g : Turns(g, TtySet, t, n, F)
    BY <1>0, <1>1, Unfold
  <2>2. QED
    BY <2>1 DEF Turns
<1>a. ASSUME NEW f PROVE Body(f, 0) = t /\ \A i \in 1..n : Body(f, i) = receive(f[i - 1], str[i])
  BY DEF apply
<1>b. 0 \in 0..n /\ \A i \in 1..n : i \in 0..n /\ i - 1 \in 0..n
  BY <1>0
<1>4. ASSUME NEW i \in 0..n PROVE g[i] = Body(g, i)
  <2>1. CASE i = 0
    <3> HIDE DEF Body
    <3> QED BY <1>2, <1>a, <2>1
  <2>2. CASE i # 0
    <3>1. i - 1 \in 0..n /\ i \in 1..n
      BY <2>2, <1>0
    <3>2. <<i, g[i - 1]>> \in (1..n) \X TtySet
      BY <3>1
    <3>3. F[<<i, g[i - 1]>>] = receive(g[i - 1], str[i])
      BY <3>2
    <3> HIDE DEF F, n, Body
    <3>4. QED
      BY <1>2, <1>a, <3>1, <3>3
  <2>3. QED
    BY <2>1, <2>2
<1>5. g = [i \in 0..n |-> Body(g, i)]
  <2> HIDE DEF n, Body
  <2>1. g = [i \in 0..n |-> g[i]]
    OBVIOUS
  <2>2. QED
    BY <1>4, <2>1
<1>6. PICK c : c = CHOOSE f : f = [i \in 0..n |-> Body(f, i)]
  OBVIOUS
<1>7. c = [i \in 0..n |-> Body(c, i)]
  <2> HIDE DEF n, Body
  <2> QED BY <1>5, <1>6
<1>8. keyboard_data(t, str) = c[n]
  BY <1>6 DEF keyboard_data, through
<1>9. ASSUME NEW i \in 0..n PROVE c[i] = Body(c, i)
  <2> HIDE DEF n, Body
  <2> QED BY <1>7
<1>10. Receives(c, t, str)
  <2> HIDE DEF Body
  <2>1. c[0] = t
    BY <1>a, <1>b, <1>9
  <2>2. ASSUME NEW i \in 1..n PROVE c[i] = receive(c[i - 1], str[i])
    BY <1>a, <1>b, <1>9
  <2>3. QED
    BY <2>1, <2>2 DEF Receives
<1>11. QED
  BY <1>8, <1>10

-----------------------------------------------------------------------------
(* The screen *)

\* The elements of a sequence over S are in S.
LEMMA Elements ==
    ASSUME NEW S, NEW s \in Seq(S)
    PROVE  Len(s) \in Nat /\ \A i \in 1..Len(s) : s[i] \in S
  OBVIOUS

\* A screen before it is scrolled.
Unscrolled == [cells : [Offsets -> 0..255], line : 0..NUMBER_LINE, column : 0..(NUMBER_COLUMN - 1)]

\* Positions are rows of columns.
LEMMA Position ==
    ASSUME NEW l \in 0..(NUMBER_LINE - 1), NEW k \in 0..(NUMBER_COLUMN - 1)
    PROVE  /\ MEM_VIDEO_OFFSET(l, k) \in Offsets /\ MEM_VIDEO_OFFSET(l, k) \in Nat
           /\ MEM_VIDEO_OFFSET(l + 1, 0) = MEM_VIDEO_OFFSET(l, 0) + NUMBER_COLUMN
           /\ MEM_VIDEO_OFFSET(l, k) = MEM_VIDEO_OFFSET(l, 0) + k
<1>1. NUMBER_LINE \in Nat /\ NUMBER_COLUMN \in Nat /\ l \in Nat /\ k \in Nat
  BY ScreenAssumption
<1>2. PICK m \in Nat : NUMBER_LINE = l + 1 + m
  <2>1. NUMBER_LINE - (l + 1) \in Nat /\ NUMBER_LINE = l + 1 + (NUMBER_LINE - (l + 1))
    BY <1>1
  <2>2. QED
    BY <2>1
<1>3. /\ l * NUMBER_COLUMN \in Nat /\ m * NUMBER_COLUMN \in Nat
      /\ (l + 1) * NUMBER_COLUMN = l * NUMBER_COLUMN + NUMBER_COLUMN
      /\ (l + 1 + m) * NUMBER_COLUMN = l * NUMBER_COLUMN + NUMBER_COLUMN + m * NUMBER_COLUMN
  BY <1>1, <1>2
<1>4. QED
  BY <1>1, <1>2, <1>3 DEF MEM_VIDEO_OFFSET, Offsets

\* A character is written wherever it goes.
LEMMA CellWritten ==
    ASSUME NEW cells \in [Offsets -> 0..255], NEW o, NEW c \in 0..255
    PROVE  [cells EXCEPT ![o] = c] \in [Offsets -> 0..255]
  OBVIOUS

\* A tab stays on its row.
LEMMA TabStop ==
    ASSUME NEW k \in 0..(NUMBER_COLUMN - 1)
    PROVE  k - (k % 8) + 7 \in 0..(NUMBER_COLUMN - 1)
  BY ScreenAssumption

\* Every character leaves a screen.
LEMMA PlacedType ==
    ASSUME NEW scr \in Screen, NEW c \in 0..255
    PROVE  placed(scr, c) \in Unscrolled
<1>1. /\ scr.cells \in [Offsets -> 0..255] /\ scr.line \in 0..(NUMBER_LINE - 1)
      /\ scr.column \in 0..(NUMBER_COLUMN - 1) /\ NUMBER_LINE \in Nat \ {0}
      /\ NUMBER_COLUMN \in Nat \ {0} /\ scr \in Unscrolled
  BY ScreenAssumption DEF Screen, Unscrolled
<1>2. clear_screen \in Unscrolled
  BY <1>1 DEF clear_screen, Unscrolled, Blank
<1>3. scr.column # 0 => scr.column - 1 \in 0..(NUMBER_COLUMN - 1)
  BY <1>1
<1>4. scr.line + 1 \in 0..NUMBER_LINE /\ 0 \in 0..(NUMBER_COLUMN - 1)
  BY <1>1
<1>5. back_up(scr) \in Unscrolled
  <2>1. scr.line > 0 => scr.line - 1 \in 0..NUMBER_LINE /\ NUMBER_COLUMN - 1 \in 0..(NUMBER_COLUMN - 1)
    BY <1>1
  <2>2. QED
    BY <1>1, <1>3, <2>1 DEF back_up, Unscrolled
<1>6. ASSUME NEW b \in Unscrolled PROVE [b EXCEPT !.cells[cursor_pos(b)] = Blank] \in Unscrolled
  <2>1. b.cells \in [Offsets -> 0..255] /\ Blank \in 0..255
    BY DEF Blank, Unscrolled
  <2>2. [b.cells EXCEPT ![cursor_pos(b)] = Blank] \in [Offsets -> 0..255]
    BY <2>1, CellWritten
  <2>3. QED
    BY <2>2 DEF Unscrolled
<1>7. advance(scr, c) \in Unscrolled
  <2>1. [scr.cells EXCEPT ![cursor_pos(scr)] = c] \in [Offsets -> 0..255]
    BY <1>1, CellWritten
  <2>2. scr.column # NUMBER_COLUMN - 1 => scr.column + 1 \in 0..(NUMBER_COLUMN - 1)
    BY <1>1
  <2>3. QED
    BY <1>1, <1>4, <2>1, <2>2 DEF advance, Unscrolled
<1>8. [scr EXCEPT !.column = IF @ # 0 THEN @ - 1 ELSE @] \in Unscrolled
  BY <1>1, <1>3 DEF Unscrolled
<1>9. [scr EXCEPT !.column = @ - (@ % 8) + 7] \in Unscrolled
  BY <1>1, TabStop DEF Unscrolled
<1>10. [scr EXCEPT !.line = @ + 1, !.column = 0] \in Unscrolled /\ [scr EXCEPT !.column = 0] \in Unscrolled
  BY <1>1, <1>4 DEF Unscrolled
<1>11. QED
  BY <1>2, <1>5, <1>6, <1>7, <1>8, <1>9, <1>10 DEF placed

\* So does every character, with the scrolling it causes.
LEMMA PutcharType ==
    ASSUME NEW scr \in Screen, NEW c \in 0..255
    PROVE  console_putchar(scr, c) \in Screen
<1>1. PICK s \in Unscrolled : s = placed(scr, c)
  BY PlacedType
<1>2. s.cells \in [Offsets -> 0..255] /\ s.line \in 0..NUMBER_LINE /\ s.column \in 0..(NUMBER_COLUMN - 1)
  BY DEF Unscrolled
<1>3. scroll_screen(s.cells) \in [Offsets -> 0..255]
  BY <1>2 DEF scroll_screen, Blank
<1>4. s.line # NUMBER_LINE => s.line \in 0..(NUMBER_LINE - 1)
  BY <1>2, ScreenAssumption
<1>5. s.line = NUMBER_LINE => s.line - 1 \in 0..(NUMBER_LINE - 1)
  BY <1>2, ScreenAssumption
<1>6. QED
  BY <1>1, <1>2, <1>3, <1>4, <1>5 DEF console_putchar, Screen, Unscrolled

\* c[i] is what the first i characters of str make of scr.
Writes(c, scr, str) ==
    c[0] = scr /\ \A i \in 1..Len(str) : c[i] = console_putchar(c[i - 1], str[i])

\* cons_write puts one character after the other.
LEMMA WriteFollows ==
    ASSUME NEW scr \in Screen, NEW str \in Seq(0..255)
    PROVE  \E c : Writes(c, scr, str) /\ through(console_putchar, scr, str) = c[Len(str)]
<1> DEFINE n == Len(str)
           F == [x \in (1..n) \X Screen |-> console_putchar(x[2], str[x[1]])]
           Body(f, i) == IF i = 0 THEN scr ELSE apply(LAMBDA x : console_putchar(x, str[i]), f[i - 1])
<1>1. n \in Nat /\ \A i \in 1..n : str[i] \in 0..255
  BY Elements
<1>2. 0 \in 0..n /\ \A i \in 1..n : i \in 0..n /\ i - 1 \in 0..n
  BY <1>1
<1>3. F \in [(1..n) \X Screen -> Screen]
  <2>1. \A u \in Screen, c \in 0..255 : console_putchar(u, c) \in Screen
    BY PutcharType
  <2> HIDE DEF n
  <2>2. QED
    BY <1>1, <2>1
<1>4. PICK g : g \in [0..n -> Screen] /\ g[0] = scr /\ \A i \in 1..n : g[i] = F[<<i, g[i - 1]>>]
  <2> HIDE DEF F, n
  <2>1. \E g : Turns(g, Screen, scr, n, F)
    BY <1>1, <1>3, Unfold
  <2>2. QED
    BY <2>1 DEF Turns
<1>5. ASSUME NEW f
      PROVE  Body(f, 0) = scr /\ \A i \in 1..n : Body(f, i) = console_putchar(f[i - 1], str[i])
  BY DEF apply
<1>6. ASSUME NEW i \in 0..n PROVE g[i] = Body(g, i)
  <2>1. CASE i = 0
    <3> HIDE DEF Body, F
    <3> QED BY <1>4, <1>5, <2>1
  <2>2. CASE i # 0
    <3>1. i - 1 \in 0..n /\ i \in 1..n
      BY <2>2, <1>1
    <3>2. <<i, g[i - 1]>> \in (1..n) \X Screen
      BY <1>4, <3>1
    <3>3. F[<<i, g[i - 1]>>] = console_putchar(g[i - 1], str[i])
      BY <3>2
    <3> HIDE DEF F, n, Body
    <3>4. QED
      BY <1>4, <1>5, <3>1, <3>3
  <2>3. QED
    BY <2>1, <2>2
<1>7. g = [i \in 0..n |-> Body(g, i)]
  <2> HIDE DEF n, Body, F
  <2>1. g = [i \in 0..n |-> g[i]]
    BY <1>4
  <2>2. QED
    BY <1>6, <2>1
<1>8. PICK c : c = CHOOSE f : f = [i \in 0..n |-> Body(f, i)]
  OBVIOUS
<1>9. c = [i \in 0..n |-> Body(c, i)]
  <2> HIDE DEF n, Body
  <2> QED BY <1>7, <1>8
<1>10. through(console_putchar, scr, str) = c[n]
  BY <1>8 DEF through
<1>11. ASSUME NEW i \in 0..n PROVE c[i] = Body(c, i)
  <2> HIDE DEF n, Body
  <2> QED BY <1>9
<1>12. Writes(c, scr, str)
  <2> HIDE DEF Body
  <2>1. c[0] = scr
    BY <1>2, <1>5, <1>11
  <2>2. ASSUME NEW i \in 1..n PROVE c[i] = console_putchar(c[i - 1], str[i])
    BY <1>2, <1>5, <1>11
  <2>3. QED
    BY <2>1, <2>2 DEF Writes
<1>13. QED
  BY <1>10, <1>12

\* What programs write leaves a screen.
LEMMA WriteType ==
    ASSUME NEW scr \in Screen, NEW str \in Seq(0..255)
    PROVE  cons_write(scr, str) \in Screen
<1>1. PICK c : Writes(c, scr, str) /\ through(console_putchar, scr, str) = c[Len(str)]
  BY WriteFollows
<1> DEFINE T == {i \in Nat : i <= Len(str) => c[i] \in Screen}
<1>2. 0 \in T
  BY <1>1 DEF Writes
<1>3. ASSUME NEW i \in Nat, i \in T PROVE i + 1 \in T
  <2>1. SUFFICES ASSUME i + 1 <= Len(str) PROVE c[i + 1] \in Screen
    OBVIOUS
  <2>2. c[i] \in Screen /\ i + 1 \in 1..Len(str) /\ (i + 1) - 1 = i
    BY <1>3, <2>1
  <2>3. c[i + 1] = console_putchar(c[i], str[i + 1]) /\ str[i + 1] \in 0..255
    BY <1>1, <2>2, Elements DEF Writes
  <2>4. QED
    BY <2>2, <2>3, PutcharType
<1>4. Nat \subseteq T
  <2> HIDE DEF T
  <2> QED BY <1>2, <1>3, Induction
<1>5. c[Len(str)] \in Screen
  BY <1>4
<1>6. QED
  BY <1>1, <1>5 DEF cons_write

\* Writing one character.
LEMMA WriteOne ==
    ASSUME NEW scr \in Screen, NEW c \in 1..255
    PROVE  cons_write(scr, <<c>>) = console_putchar(scr, c)
<1>1. <<c>> \in Seq(0..255) /\ Len(<<c>>) = 1 /\ <<c>>[1] = c /\ DOMAIN <<c>> = {1}
  OBVIOUS
<1>2. PICK w : Writes(w, scr, <<c>>) /\ through(console_putchar, scr, <<c>>) = w[1]
  BY <1>1, WriteFollows
<1>3. w[1] = console_putchar(w[1 - 1], c) /\ w[0] = scr
  BY <1>1, <1>2 DEF Writes
<1>4. ~\E i \in DOMAIN <<c>> : <<c>>[i] = 0
  BY <1>1
<1>5. QED
  BY <1>2, <1>3, <1>4 DEF cons_write

-----------------------------------------------------------------------------
(* The line before the cursor *)

\* line stands before the cursor, as far as the screen reaches back.
Shown(scr, line) ==
    \A i \in 1..Len(line) : Len(line) - i < cursor_pos(scr) =>
        scr.cells[cursor_pos(scr) - 1 - (Len(line) - i)] = line[i]

\* Characters that take a cell.
Plain == Chars \ {BS, TAB, LF, FF, CR, DEL}

\* The cursor is on the screen.
LEMMA Cursor ==
    ASSUME NEW scr \in Screen
    PROVE  /\ cursor_pos(scr) \in Offsets /\ cursor_pos(scr) \in Nat
           /\ Offsets = 0..(NUMBER_LINE * NUMBER_COLUMN - 1) /\ NUMBER_LINE * NUMBER_COLUMN \in Nat
           /\ scr.cells \in [Offsets -> 0..255]
           /\ scr.line \in 0..(NUMBER_LINE - 1) /\ scr.column \in 0..(NUMBER_COLUMN - 1)
<1>1. scr.line \in 0..(NUMBER_LINE - 1) /\ scr.column \in 0..(NUMBER_COLUMN - 1)
  BY DEF Screen
<1>2. QED
  BY <1>1, Position, ScreenAssumption DEF Screen, cursor_pos, Offsets

\* A character is put at the cursor, which moves on by one; if it leaves the screen all
\* rows move up.
LEMMA Advances ==
    ASSUME NEW scr \in Screen, NEW c \in Plain, NEW p, p = cursor_pos(scr)
    PROVE  LET s == console_putchar(scr, c)
               w == [scr.cells EXCEPT ![p] = c]
           IN  \/ cursor_pos(s) = p + 1 /\ s.cells = w
               \/ /\ cursor_pos(s) = p + 1 - NUMBER_COLUMN
                  /\ \A o \in Offsets : o + NUMBER_COLUMN \in Offsets => s.cells[o] = w[o + NUMBER_COLUMN]
<1> DEFINE a == placed(scr, c)
           s == console_putchar(scr, c)
           w == [scr.cells EXCEPT ![p] = c]
<1>1. /\ scr.line \in 0..(NUMBER_LINE - 1) /\ scr.column \in 0..(NUMBER_COLUMN - 1)
      /\ NUMBER_LINE \in Nat \ {0} /\ NUMBER_COLUMN \in Nat \ {0}
      /\ scr.cells \in [Offsets -> 0..255]
  BY Cursor, ScreenAssumption
<1>2. a = advance(scr, c)
  BY DEF placed, Plain
<1>3. PICK l \in 0..(NUMBER_LINE - 1), k \in 0..(NUMBER_COLUMN - 1) : l = scr.line /\ k = scr.column
  BY <1>1
<1>4. PICK z \in Nat : /\ z = MEM_VIDEO_OFFSET(l, 0) /\ MEM_VIDEO_OFFSET(l, k) = z + k
                       /\ MEM_VIDEO_OFFSET(l + 1, 0) = z + NUMBER_COLUMN
                       /\ k + 1 \in 0..(NUMBER_COLUMN - 1) => MEM_VIDEO_OFFSET(l, k + 1) = z + (k + 1)
  BY <1>1, Position
<1>5. p = z + k
  BY <1>3, <1>4 DEF cursor_pos
<1>6. a.cells = w
  BY <1>2 DEF advance, Screen
<1>7. CASE k # NUMBER_COLUMN - 1
  <2>1. a.line = l /\ a.column = k + 1
    BY <1>2, <1>3, <1>7 DEF advance, Screen
  <2>2. k + 1 \in 0..(NUMBER_COLUMN - 1) /\ l # NUMBER_LINE
    BY <1>1, <1>7
  <2>3. s = a
    BY <2>1, <2>2 DEF console_putchar
  <2>4. cursor_pos(a) = z + (k + 1)
    BY <1>4, <2>1, <2>2 DEF cursor_pos
  <2>5. cursor_pos(s) = p + 1 /\ s.cells = w
    BY <1>1, <1>4, <1>5, <1>6, <2>3, <2>4
  <2>6. QED
    BY <2>5
<1>8. CASE k = NUMBER_COLUMN - 1
  <2>1. a.line = l + 1 /\ a.column = 0
    BY <1>2, <1>3, <1>8 DEF advance, Screen
  <2>2. CASE l + 1 # NUMBER_LINE
    <3>1. s = a
      BY <2>1, <2>2 DEF console_putchar
    <3>2. cursor_pos(a) = z + NUMBER_COLUMN
      BY <1>4, <2>1 DEF cursor_pos
    <3>3. cursor_pos(s) = p + 1 /\ s.cells = w
      BY <1>1, <1>4, <1>5, <1>6, <1>8, <3>1, <3>2
    <3>4. QED
      BY <3>3
  <2>3. CASE l + 1 = NUMBER_LINE
    <3>1. a \in Unscrolled
      BY PlacedType DEF Plain, Chars
    <3>2. s.cells = scroll_screen(w) /\ s.line = l /\ s.column = 0
      BY <1>3, <1>6, <2>1, <2>3, <3>1 DEF console_putchar, Unscrolled
    <3>3. cursor_pos(s) = z
      BY <1>4, <3>2 DEF cursor_pos
    <3>4. cursor_pos(s) = p + 1 - NUMBER_COLUMN
      BY <1>1, <1>4, <1>5, <1>8, <3>3
    <3>5. \A o \in Offsets : o + NUMBER_COLUMN \in Offsets => s.cells[o] = w[o + NUMBER_COLUMN]
      BY <3>2 DEF scroll_screen
    <3>6. QED
      BY <3>4, <3>5
  <2>4. QED
    BY <2>2, <2>3
<1>9. QED
  BY <1>7, <1>8

\* The echo of a character continues the line.
LEMMA ShownAppend ==
    ASSUME NEW scr \in Screen, NEW c \in Plain, NEW line \in Seq(Chars), Shown(scr, line)
    PROVE  Shown(console_putchar(scr, c), Append(line, c))
<1>1. PICK p \in Nat : p = cursor_pos(scr) /\ p \in Offsets
  BY Cursor
<1>2. PICK s : s = console_putchar(scr, c)
  OBVIOUS
<1>3. PICK w : w = [scr.cells EXCEPT ![p] = c]
  OBVIOUS
<1>4. PICK n \in Nat : n = Len(line)
  BY Elements
<1>5. PICK l2 : l2 = Append(line, c)
  OBVIOUS
<1>6. Len(l2) = n + 1 /\ l2[n + 1] = c /\ \A i \in 1..n : l2[i] = line[i]
  BY <1>4, <1>5
<1>7. scr.cells \in [Offsets -> 0..255] /\ \A o \in Nat : o < p => o \in Offsets
  <2>1. PICK m \in Nat : Offsets = 0..(m - 1)
    BY Cursor
  <2>2. QED
    BY <1>1, <2>1, Cursor
<1>8. ASSUME NEW i \in 1..(n + 1), (n + 1) - i < p + 1
      PROVE  w[p - ((n + 1) - i)] = l2[i]
  <2>1. CASE i = n + 1
    BY <1>1, <1>3, <1>4, <1>6, <1>7, <2>1
  <2>2. CASE i # n + 1
    <3>1. i \in 1..n /\ n - i < p /\ p - 1 - (n - i) = p - ((n + 1) - i)
          /\ p - 1 - (n - i) \in Nat /\ p - 1 - (n - i) < p
      BY <1>1, <1>4, <1>8, <2>2
    <3>2. scr.cells[p - 1 - (n - i)] = line[i]
      BY <1>1, <1>4, <3>1 DEF Shown
    <3>3. w[p - 1 - (n - i)] = scr.cells[p - 1 - (n - i)]
      BY <1>3, <1>7, <3>1
    <3>4. QED
      BY <1>6, <3>1, <3>2, <3>3
  <2>3. QED
    BY <2>1, <2>2
<1>9. CASE cursor_pos(s) = p + 1 /\ s.cells = w
  <2>1. ASSUME NEW i \in 1..(n + 1), (n + 1) - i < p + 1
        PROVE  s.cells[(p + 1) - 1 - ((n + 1) - i)] = l2[i]
    <3>1. (p + 1) - 1 - ((n + 1) - i) = p - ((n + 1) - i)
      BY <1>1, <1>4
    <3>2. QED
      BY <1>8, <1>9, <2>1, <3>1
  <2>2. QED
    BY <1>2, <1>5, <1>6, <1>9, <2>1 DEF Shown
<1>10. CASE /\ cursor_pos(s) = p + 1 - NUMBER_COLUMN
            /\ \A o \in Offsets : o + NUMBER_COLUMN \in Offsets => s.cells[o] = w[o + NUMBER_COLUMN]
  <2>0. NUMBER_COLUMN \in Nat
    BY ScreenAssumption
  <2>1. ASSUME NEW i \in 1..(n + 1), (n + 1) - i < p + 1 - NUMBER_COLUMN
        PROVE  s.cells[(p + 1 - NUMBER_COLUMN) - 1 - ((n + 1) - i)] = l2[i]
    <3>0. (p + 1 - NUMBER_COLUMN) - 1 - ((n + 1) - i) \in Nat
      BY <2>0, <2>1
    <3>1. PICK o \in Nat : o = (p + 1 - NUMBER_COLUMN) - 1 - ((n + 1) - i)
      BY <3>0
    <3>a. PICK x \in Nat : x = (n + 1) - i
      BY <2>1
    <3>b. x < p + 1 - NUMBER_COLUMN /\ o = (p + 1 - NUMBER_COLUMN) - 1 - x
      BY <2>1, <3>1, <3>a
    <3>c. PICK m \in Nat : m = NUMBER_COLUMN
      BY <2>0
    <3>d. x < p + 1 - m /\ o = (p + 1 - m) - 1 - x
      BY <3>b, <3>c
    <3>e. o + m = p - x /\ x < p + 1 /\ o + m \in Nat /\ (o + m < p \/ o + m = p)
      BY <1>1, <3>1, <3>a, <3>c, <3>d
    <3>f. o < p \/ o = p
      BY <1>1, <3>1, <3>a, <3>c, <3>d
    <3>2. o + NUMBER_COLUMN = p - ((n + 1) - i) /\ (n + 1) - i < p + 1 /\ o + NUMBER_COLUMN \in Nat
          /\ (o + NUMBER_COLUMN < p \/ o + NUMBER_COLUMN = p) /\ (o < p \/ o = p)
      BY <3>a, <3>c, <3>e, <3>f
    <3>3. o \in Offsets /\ o + NUMBER_COLUMN \in Offsets
      BY <1>1, <1>7, <3>2
    <3>4. s.cells[o] = w[o + NUMBER_COLUMN]
      BY <1>10, <3>3
    <3>5. QED
      BY <1>8, <3>1, <3>2, <3>4
  <2>2. QED
    BY <1>2, <1>5, <1>6, <1>10, <2>1 DEF Shown
<1>11. QED
  BY <1>1, <1>2, <1>3, <1>9, <1>10, Advances

\* The echo of a deletion takes the last character of the line off the screen.
LEMMA ShownDelete ==
    ASSUME NEW scr \in Screen, NEW line \in Seq(Chars), line # <<>>, Shown(scr, line)
    PROVE  Shown(console_putchar(scr, DEL), SubSeq(line, 1, Len(line) - 1))
<1>1. PICK p \in Nat : p = cursor_pos(scr) /\ p \in Offsets
  BY Cursor
<1>2. PICK b : b = back_up(scr)
  OBVIOUS
<1>3. /\ scr.line \in 0..(NUMBER_LINE - 1) /\ scr.column \in 0..(NUMBER_COLUMN - 1)
      /\ NUMBER_LINE \in Nat \ {0} /\ NUMBER_COLUMN \in Nat \ {0}
      /\ scr.cells \in [Offsets -> 0..255]
  BY Cursor, ScreenAssumption
<1>0. 0 \in 0..(NUMBER_COLUMN - 1)
  BY <1>3
<1>4. b.cells = scr.cells /\ b.line # NUMBER_LINE /\ b.line \in 0..(NUMBER_LINE - 1)
  BY <1>2, <1>3 DEF back_up, Screen
<1>5. (p = 0 /\ cursor_pos(b) = 0) \/ (p > 0 /\ cursor_pos(b) = p - 1)
  <2>1. CASE scr.column # 0
    <3>1. b.line = scr.line /\ b.column = scr.column - 1 /\ scr.column - 1 \in 0..(NUMBER_COLUMN - 1)
      BY <1>2, <1>3, <2>1 DEF back_up, Screen
    <3>2. PICK z \in Nat : z = MEM_VIDEO_OFFSET(scr.line, 0)
      BY <1>0, <1>3, Position
    <3>3. p = z + scr.column /\ cursor_pos(b) = z + (scr.column - 1)
      BY <1>1, <1>3, <3>1, <3>2, Position DEF cursor_pos
    <3>4. QED
      BY <1>3, <2>1, <3>2, <3>3
  <2>2. CASE scr.column = 0 /\ scr.line > 0
    <3>1. b.line = scr.line - 1 /\ b.column = NUMBER_COLUMN - 1
      BY <1>2, <1>3, <2>2 DEF back_up, Screen
    <3>2. PICK l \in 0..(NUMBER_LINE - 1) : l = scr.line - 1 /\ l + 1 = scr.line
      BY <1>3, <2>2
    <3>3. NUMBER_COLUMN - 1 \in 0..(NUMBER_COLUMN - 1)
      BY <1>3
    <3>4. PICK z \in Nat : z = MEM_VIDEO_OFFSET(l, 0)
      BY <1>0, <3>2, Position
    <3>a. p = z + NUMBER_COLUMN
      BY <1>0, <1>1, <2>2, <3>2, <3>4, Position DEF cursor_pos
    <3>b. cursor_pos(b) = z + (NUMBER_COLUMN - 1)
      BY <3>1, <3>2, <3>3, <3>4, Position DEF cursor_pos
    <3>5. p = z + NUMBER_COLUMN /\ cursor_pos(b) = z + (NUMBER_COLUMN - 1)
      BY <3>a, <3>b
    <3>6. QED
      BY <1>3, <3>4, <3>5
  <2>3. CASE scr.column = 0 /\ ~(scr.line > 0)
    <3>1. scr.line = 0 /\ b = scr
      BY <1>2, <1>3, <2>3 DEF back_up
    <3>2. p = 0
      BY <1>1, <1>3, <2>3, <3>1 DEF cursor_pos, MEM_VIDEO_OFFSET
    <3>3. QED
      BY <1>1, <3>1, <3>2
  <2>4. QED
    BY <1>3, <2>1, <2>2, <2>3
<1>6. PICK q \in Nat : q = cursor_pos(b)
  BY <1>1, <1>5
<1>7. PICK s : s = console_putchar(scr, DEL)
  OBVIOUS
<1>8. b \in [cells : [Offsets -> 0..255], line : 0..(NUMBER_LINE - 1), column : {b.column}]
  BY <1>2, <1>3, <1>4 DEF back_up, Screen
<1>9. s.cells = [scr.cells EXCEPT ![q] = Blank] /\ cursor_pos(s) = q
  <2>1. placed(scr, DEL) = [b EXCEPT !.cells[cursor_pos(b)] = Blank]
    BY <1>2 DEF placed, BS, TAB, LF, FF, CR, DEL
  <2>2. PICK a : a = [b EXCEPT !.cells[cursor_pos(b)] = Blank]
    OBVIOUS
  <2>3. a.cells = [scr.cells EXCEPT ![q] = Blank] /\ a.line = b.line /\ a.column = b.column
    BY <1>4, <1>6, <1>8, <2>2
  <2>4. s = a
    BY <1>4, <1>7, <2>1, <2>2, <2>3 DEF console_putchar
  <2>5. QED
    BY <1>6, <2>3, <2>4 DEF cursor_pos
<1>10. PICK n \in Nat : n = Len(line) /\ n # 0
  BY Elements
<1>11. PICK l2 : l2 = SubSeq(line, 1, Len(line) - 1)
  OBVIOUS
<1>12. Len(l2) = n - 1 /\ \A i \in 1..(n - 1) : l2[i] = line[i]
  BY <1>10, <1>11
<1>13. ASSUME NEW i \in 1..(n - 1), (n - 1) - i < q
       PROVE  s.cells[q - 1 - ((n - 1) - i)] = l2[i]
  <2>1. q = p - 1
    BY <1>1, <1>5, <1>6, <1>10, <1>13
  <2>2. i \in 1..n /\ n - i < p /\ p - 1 - (n - i) = q - 1 - ((n - 1) - i)
        /\ p - 1 - (n - i) # q
    BY <1>1, <1>6, <1>10, <1>13, <2>1
  <2>3. scr.cells[p - 1 - (n - i)] = line[i]
    BY <1>1, <1>10, <2>2 DEF Shown
  <2>4. s.cells[p - 1 - (n - i)] = scr.cells[p - 1 - (n - i)]
    <3>1. p - 1 - (n - i) \in Offsets
      BY <1>1, <1>10, <2>2, Cursor
    <3>2. QED
      BY <1>3, <1>9, <2>2, <3>1
  <2>5. QED
    BY <1>12, <2>2, <2>3, <2>4
<1>14. QED
  BY <1>7, <1>9, <1>11, <1>12, <1>13 DEF Shown

-----------------------------------------------------------------------------
(* The ring *)

\* The slot j places after i.
slot(i, j) == IF i + j < BUFFER_SIZE THEN i + j ELSE i + j - BUFFER_SIZE

\* The slots after i, as the ring goes around.
LEMMA Slots ==
    ASSUME NEW i \in Ring, NEW j \in 0..BUFFER_SIZE
    PROVE  /\ slot(i, j) \in Ring /\ next(i) \in Ring /\ slot(i, 0) = i /\ slot(i, BUFFER_SIZE) = i
           /\ j < BUFFER_SIZE => /\ next(slot(i, j)) = slot(i, j + 1)
                                 /\ slot(next(i), j) = slot(i, j + 1)
           /\ \A k \in 0..BUFFER_SIZE : slot(i, j) = slot(i, k) /\ j < BUFFER_SIZE /\ k < BUFFER_SIZE => j = k
  BY TerminalAssumption DEF slot, next, Ring

\* The slots after i are all there are.
LEMMA SlotOnto ==
    ASSUME NEW i \in Ring, NEW x \in Ring
    PROVE  \E j \in 0..(BUFFER_SIZE - 1) : slot(i, j) = x
<1>0. BUFFER_SIZE \in Nat /\ i \in 0..(BUFFER_SIZE - 1) /\ x \in 0..(BUFFER_SIZE - 1)
  BY TerminalAssumption DEF Ring
<1>1. CASE i <= x
  <2>1. x - i \in 0..(BUFFER_SIZE - 1) /\ slot(i, x - i) = x
    BY <1>0, <1>1 DEF slot
  <2>2. QED
    BY <2>1
<1>2. CASE ~(i <= x)
  <2>1. x + BUFFER_SIZE - i \in 0..(BUFFER_SIZE - 1) /\ slot(i, x + BUFFER_SIZE - i) = x
    BY <1>0, <1>2 DEF slot
  <2>2. QED
    BY <2>1
<1>3. QED
  BY <1>1, <1>2

\* The ring is the numbers modulo its size.
LEMMA SlotMod ==
    ASSUME NEW i \in Ring, NEW j \in 0..BUFFER_SIZE
    PROVE  (i + j) % BUFFER_SIZE = slot(i, j)
<1>1. PICK n \in Nat : n = BUFFER_SIZE /\ n >= 1
  BY TerminalAssumption
<1>2. PICK a \in Nat : a = i + j /\ a < 2 * n
  BY <1>1 DEF Ring
<1>3. a % n \in 0..(n - 1) /\ a \div n \in Nat /\ a = (a % n) + n * (a \div n)
  BY <1>1
<1>4. PICK q \in Nat : q = a \div n
  BY <1>3
<1>a. PICK m \in 0..(n - 1) : m = a % n
  BY <1>3
<1>b. a = m + n * q
  BY <1>3, <1>4, <1>a
<1>5. CASE q = 0
  BY <1>1, <1>2, <1>a, <1>b, <1>5 DEF slot
<1>6. CASE q = 1
  <2>1. a = m + n
    BY <1>1, <1>a, <1>b, <1>6
  <2>2. QED
    <3>1. i \in Nat /\ j \in Nat /\ ~(i + j < BUFFER_SIZE) /\ i + j - BUFFER_SIZE = m
      BY <1>1, <1>2, <1>a, <2>1 DEF Ring
    <3>2. slot(i, j) = m
      BY <3>1 DEF slot
    <3>3. QED
      BY <1>1, <1>2, <1>a, <3>2
<1>7. CASE q # 0 /\ q # 1
  <2>1. PICK k \in Nat : q = 2 + k
    <3>1. q - 2 \in Nat /\ q = 2 + (q - 2)
      BY <1>7
    <3>2. QED
      BY <3>1
  <2>2. n * q = n * 2 + n * k /\ n * k \in Nat
    BY <2>1
  <2>3. QED
    BY <1>1, <1>2, <1>a, <1>b, <2>1, <2>2
<1>8. QED
  BY <1>5, <1>6, <1>7

-----------------------------------------------------------------------------
(* Typing a character *)

\* What the user may know.
SeenSet == [line : Seq(Chars), clean : BOOLEAN, unread : Seq(Chars), lines : Seq(Seq(Chars)),
            owner : Reader \union {"none", "several"}, deleted : BOOLEAN,
            lost : {"no", "overrun", "phantom"}]

\* The ring holds the characters not read, and otherwise nothing or deletions.
RingOK(b, ir, iw, s) ==
    s.lost = "no" =>
        /\ Len(s.unread) <= BUFFER_SIZE
        /\ iw = slot(ir, Len(s.unread))
        /\ \A j \in 0..(Len(s.unread) - 1) : b[slot(ir, j)] = s.unread[j + 1]
        /\ \A j \in Len(s.unread)..(BUFFER_SIZE - 1) : b[slot(ir, j)] \in {0, DEL}

\* Deletions in the ring were typed.
DeletionsOK(b, s) ==
    /\ (\E i \in Ring : b[i] = DEL) => s.deleted
    /\ s.lost = "phantom" => s.deleted

\* nb characters are in the line, and the line is on the screen if only it was echoed.
EchoOK(nb, scr, s) == nb = Len(s.line) /\ (s.clean => Shown(scr, s.line))

\* What the user knows, part by part.
LEMMA SeenFields ==
    ASSUME NEW s \in SeenSet
    PROVE  /\ s.line \in Seq(Chars) /\ s.clean \in BOOLEAN /\ s.unread \in Seq(Chars)
           /\ s.lines \in Seq(Seq(Chars)) /\ s.owner \in Reader \union {"none", "several"}
           /\ s.deleted \in BOOLEAN /\ s.lost \in {"no", "overrun", "phantom"}
  BY DEF SeenSet

\* The line typed is known when what is not read is lost.
LEMMA LosesType ==
    ASSUME NEW s \in SeenSet, NEW why \in {"no", "overrun", "phantom"}
    PROVE  /\ loses(s, why) \in SeenSet /\ loses(s, why).lost = why /\ loses(s, why).line = s.line
           /\ loses(s, why).clean = s.clean /\ loses(s, why).deleted = s.deleted
<1>1. <<>> \in Seq(Chars) /\ <<>> \in Seq(Seq(Chars))
  OBVIOUS
<1>2. QED
  BY <1>1 DEF loses, SeenSet

\* A character queued does not change the line.
LEMMA QueuedType ==
    ASSUME NEW s \in SeenSet, NEW c \in Chars
    PROVE  /\ queued(s, c) \in SeenSet /\ queued(s, c).line = s.line
           /\ queued(s, c).clean = s.clean /\ queued(s, c).deleted = s.deleted
<1>1. CASE s.lost # "no"
  BY <1>1 DEF queued
<1>2. CASE s.lost = "no" /\ Len(s.unread) = BUFFER_SIZE
  BY <1>2, LosesType DEF queued
<1>3. CASE s.lost = "no" /\ Len(s.unread) # BUFFER_SIZE
  <2>1. Append(s.unread, c) \in Seq(Chars) /\ Append(s.lines, s.line) \in Seq(Seq(Chars))
    BY SeenFields
  <2>2. QED
    BY <1>3, <2>1 DEF queued, SeenSet
<1>4. QED
  BY <1>1, <1>2, <1>3

\* What a character makes of a line.
edited(l, c) ==
    IF c = CR THEN <<>>
    ELSE IF c = DEL THEN IF l = <<>> THEN l ELSE SubSeq(l, 1, Len(l) - 1)
    ELSE Append(l, c)

\* Editing a line leaves a line.
LEMMA EditedType ==
    ASSUME NEW l \in Seq(Chars), NEW c \in Chars
    PROVE  edited(l, c) \in Seq(Chars)
<1>1. l # <<>> => SubSeq(l, 1, Len(l) - 1) \in Seq(Chars)
  BY Elements
<1>2. QED
  BY <1>1 DEF edited

\* What a character typed changes.
LEMMA TypedFields ==
    ASSUME NEW s \in SeenSet, NEW c \in Chars, NEW echo \in BOOLEAN
    PROVE  LET q == queued(s, c)
               t == typed(s, c, echo)
           IN  /\ t \in SeenSet
               /\ t.unread = q.unread /\ t.lines = q.lines /\ t.lost = q.lost /\ t.owner = q.owner
               /\ t.line = edited(s.line, c)
               /\ t.deleted = (s.deleted \/ c = DEL)
               /\ t.clean => \/ c = CR
                             \/ c = DEL /\ s.clean /\ (echo \/ s.line = <<>>)
                             \/ c \in Plain /\ s.clean /\ echo
<1>1. PICK q \in SeenSet : /\ q = queued(s, c) /\ q.line = s.line
                           /\ q.clean = s.clean /\ q.deleted = s.deleted
  BY QueuedType
<1>2. CR # DEL
  BY DEF CR, DEL
<1>3. edited(s.line, c) \in Seq(Chars)
  BY SeenFields, EditedType
<1>4. CASE c = CR
  <2>1. typed(s, c, echo) = [q EXCEPT !.line = <<>>, !.clean = TRUE]
    BY <1>1, <1>2, <1>4 DEF typed
  <2>2. QED
    BY <1>1, <1>2, <1>3, <1>4, <2>1 DEF SeenSet, edited
<1>5. CASE c = DEL
  <2>1. typed(s, c, echo) = [q EXCEPT !.deleted = TRUE, !.line = IF @ = <<>> THEN @ ELSE SubSeq(@, 1, Len(@) - 1),
                                      !.clean = @ /\ (echo \/ s.line = <<>>)]
    BY <1>1, <1>2, <1>5 DEF typed
  <2>2. (IF q.line = <<>> THEN q.line ELSE SubSeq(q.line, 1, Len(q.line) - 1)) = edited(s.line, c)
    BY <1>1, <1>2, <1>5 DEF edited
  <2>3. typed(s, c, echo) = [q EXCEPT !.deleted = TRUE, !.line = edited(s.line, c),
                                      !.clean = q.clean /\ (echo \/ s.line = <<>>)]
    BY <2>1, <2>2 DEF SeenSet
  <2>4. (q.clean /\ (echo \/ s.line = <<>>)) \in BOOLEAN
    OBVIOUS
  <2>5. QED
    BY <1>1, <1>2, <1>3, <1>5, <2>3, <2>4 DEF SeenSet
<1>6. CASE c # CR /\ c # DEL
  <2>1. typed(s, c, echo) = [q EXCEPT !.line = Append(@, c), !.clean = @ /\ echo /\ c \notin {BS, TAB, LF, FF}]
    BY <1>1, <1>6 DEF typed
  <2>2. typed(s, c, echo) = [q EXCEPT !.line = edited(s.line, c), !.clean = q.clean /\ echo /\ c \notin {BS, TAB, LF, FF}]
    BY <1>1, <1>6, <2>1 DEF SeenSet, edited
  <2>3. (q.clean /\ echo /\ c \notin {BS, TAB, LF, FF}) \in BOOLEAN
    OBVIOUS
  <2>4. QED
    BY <1>1, <1>3, <1>6, <2>2, <2>3 DEF SeenSet, Plain
<1>7. QED
  BY <1>4, <1>5, <1>6

-----------------------------------------------------------------------------
(* keyboard_data *)

\* The state of kbd.c, part by part.
LEMMA TtyFields ==
    ASSUME NEW t \in TtySet
    PROVE  /\ t.keyboard_buffer \in [Ring -> 0..255] /\ t.index_write \in Ring /\ t.index_read \in Ring
           /\ t.nb_write \in Nat /\ t.echo \in BOOLEAN /\ t.screen \in Screen
  BY DEF TtySet

\* A line of n characters, on a screen.
echoing(t, n, scr) == [t EXCEPT !.nb_write = n, !.screen = scr]

\* The echo does not touch the ring.
LEMMA TtyUpdate ==
    ASSUME NEW t \in TtySet, NEW n \in Nat, NEW scr \in Screen
    PROVE  LET u == echoing(t, n, scr)
           IN  /\ u \in TtySet /\ u.nb_write = n /\ u.screen = scr
               /\ u.keyboard_buffer = t.keyboard_buffer /\ u.index_write = t.index_write
               /\ u.index_read = t.index_read /\ u.echo = t.echo
  BY DEF TtySet, echoing

\* What one turn of the loop of keyboard_data does.
LEMMA ReceiveFields ==
    ASSUME NEW t \in TtySet, NEW c \in Chars
    PROVE  LET u == receive(t, c)
           IN  /\ u \in TtySet
               /\ u.keyboard_buffer = [t.keyboard_buffer EXCEPT ![t.index_write] = c]
               /\ u.index_write = next(t.index_write) /\ u.index_read = t.index_read
               /\ u.echo = t.echo
               /\ c = CR => u.nb_write = 0
               /\ c = DEL => IF t.nb_write = 0 THEN u.nb_write = 0 /\ u.screen = t.screen
                             ELSE u.nb_write = t.nb_write - 1 /\ u.screen = echoed(t, <<c>>)
               /\ c # CR /\ c # DEL => u.nb_write = t.nb_write + 1 /\ u.screen = echoed(t, <<c>>)
<1> DEFINE stored == [t EXCEPT !.keyboard_buffer[t.index_write] = c, !.index_write = next(@)]
<1>1. /\ t.keyboard_buffer \in [Ring -> 0..255] /\ t.index_write \in Ring /\ t.index_read \in Ring
      /\ t.nb_write \in Nat /\ t.echo \in BOOLEAN /\ t.screen \in Screen
  BY TtyFields
<1>2. next(t.index_write) \in Ring /\ [t.keyboard_buffer EXCEPT ![t.index_write] = c] \in [Ring -> 0..255]
  <2>1. 0 \in 0..BUFFER_SIZE
    BY TerminalAssumption
  <2>2. QED
    BY <1>1, <2>1, Slots DEF Chars
<1>3. /\ stored \in TtySet
      /\ stored.keyboard_buffer = [t.keyboard_buffer EXCEPT ![t.index_write] = c]
      /\ stored.index_write = next(t.index_write) /\ stored.index_read = t.index_read
      /\ stored.echo = t.echo /\ stored.nb_write = t.nb_write /\ stored.screen = t.screen
  BY <1>1, <1>2 DEF TtySet
<1>4. echoed(t, <<CR, LF>>) \in Screen /\ echoed(t, <<DEL>>) \in Screen /\ echoed(t, <<c>>) \in Screen
  <2>1. <<CR, LF>> \in Seq(0..255) /\ <<DEL>> \in Seq(0..255) /\ <<c>> \in Seq(0..255)
    BY DEF CR, LF, DEL, Chars
  <2>2. QED
    BY <1>1, <2>1, WriteType DEF echoed
<1>5. CR # DEL
  BY DEF CR, DEL
<1>6. CASE c = CR
  <2>1. receive(t, c) = echoing(stored, 0, echoed(t, <<CR, LF>>))
    BY <1>5, <1>6 DEF receive, echoing
  <2> HIDE DEF stored
  <2>a. PICK scr \in Screen : scr = echoed(t, <<CR, LF>>)
    BY <1>4
  <2>2. PICK u : u = echoing(stored, 0, scr)
    OBVIOUS
  <2>3. /\ u \in TtySet /\ u.nb_write = 0
        /\ u.keyboard_buffer = stored.keyboard_buffer /\ u.index_write = stored.index_write
        /\ u.index_read = stored.index_read /\ u.echo = stored.echo
    BY <1>3, <2>a, <2>2, TtyUpdate
  <2>4. QED
    BY <1>3, <1>5, <1>6, <2>1, <2>a, <2>2, <2>3
<1>7. CASE c = DEL
  <2>1. CASE t.nb_write = 0
    <3>1. receive(t, c) = stored
      BY <1>5, <1>7, <2>1 DEF receive
    <3> HIDE DEF stored
    <3>2. QED
      BY <1>3, <1>5, <1>7, <2>1, <3>1
  <2>2. CASE t.nb_write # 0
    <3>1. receive(t, c) = echoing(stored, t.nb_write - 1, echoed(t, <<DEL>>))
      BY <1>1, <1>2, <1>3, <1>5, <1>7, <2>2 DEF receive, echoing
    <3>2. t.nb_write - 1 \in Nat
      BY <1>1, <2>2
    <3> HIDE DEF stored
    <3>a. PICK scr \in Screen : scr = echoed(t, <<DEL>>)
      BY <1>4
    <3>3. PICK u : u = echoing(stored, t.nb_write - 1, scr)
      OBVIOUS
    <3>4. /\ u \in TtySet /\ u.nb_write = t.nb_write - 1 /\ u.screen = scr
          /\ u.keyboard_buffer = stored.keyboard_buffer /\ u.index_write = stored.index_write
          /\ u.index_read = stored.index_read /\ u.echo = stored.echo
      BY <1>3, <3>a, <3>2, <3>3, TtyUpdate
    <3>5. QED
      BY <1>3, <1>5, <1>7, <2>2, <3>1, <3>a, <3>3, <3>4
  <2>3. QED
    BY <2>1, <2>2
<1>8. CASE c # CR /\ c # DEL
  <2>1. receive(t, c) = echoing(stored, t.nb_write + 1, echoed(t, <<c>>))
    BY <1>8, <1>3 DEF receive, echoing
  <2>a. t.nb_write + 1 \in Nat
    BY <1>1
  <2> HIDE DEF stored
  <2>2. PICK u : u = echoing(stored, t.nb_write + 1, echoed(t, <<c>>))
    OBVIOUS
  <2>3. /\ u \in TtySet /\ u.nb_write = t.nb_write + 1 /\ u.screen = echoed(t, <<c>>)
        /\ u.keyboard_buffer = stored.keyboard_buffer /\ u.index_write = stored.index_write
        /\ u.index_read = stored.index_read /\ u.echo = stored.echo
    <3>1. PICK n \in Nat : n = t.nb_write + 1
      BY <2>a
    <3>2. PICK scr \in Screen : scr = echoed(t, <<c>>)
      BY <1>4
    <3>3. u = echoing(stored, n, scr)
      BY <2>2, <3>1, <3>2
    <3>4. /\ u \in TtySet /\ u.nb_write = n /\ u.screen = scr
          /\ u.keyboard_buffer = stored.keyboard_buffer /\ u.index_write = stored.index_write
          /\ u.index_read = stored.index_read /\ u.echo = stored.echo
      BY <1>3, <3>3, TtyUpdate
    <3>5. QED
      BY <3>1, <3>2, <3>4
  <2>4. QED
    BY <1>3, <1>8, <2>1, <2>2, <2>3
<1>9. QED
  BY <1>6, <1>7, <1>8

\* A character that arrives goes behind those not read, or runs over them.
LEMMA RingTyped ==
    ASSUME NEW b \in [Ring -> 0..255], NEW ir \in Ring, NEW iw \in Ring, NEW s \in SeenSet,
           NEW c \in Chars, NEW z \in SeenSet, RingOK(b, ir, iw, s),
           z.unread = queued(s, c).unread, z.lost = queued(s, c).lost
    PROVE  RingOK([b EXCEPT ![iw] = c], ir, next(iw), z)
<1>1. SUFFICES ASSUME z.lost = "no"
               PROVE  RingOK([b EXCEPT ![iw] = c], ir, next(iw), z)
  BY DEF RingOK
<1>2. s.lost = "no"
  BY <1>1 DEF queued
<1>3. Len(s.unread) # BUFFER_SIZE
  BY <1>1, <1>2, LosesType DEF queued
<1>4. PICK n \in Nat : n = Len(s.unread) /\ n < BUFFER_SIZE
  BY <1>2, <1>3, SeenFields, TerminalAssumption DEF RingOK
<1>5. z.unread = Append(s.unread, c)
  BY <1>2, <1>3 DEF queued, SeenSet
<1>6. s.unread \in Seq(Chars)
  BY SeenFields
<1>7. Len(z.unread) = n + 1 /\ z.unread[n + 1] = c /\ \A j \in 1..n : z.unread[j] = s.unread[j]
  BY <1>4, <1>5, <1>6
<1>8. PICK d : d = [b EXCEPT ![iw] = c]
  OBVIOUS
<1>9. iw = slot(ir, n) /\ n \in 0..BUFFER_SIZE /\ BUFFER_SIZE \in Nat
  BY <1>2, <1>4, TerminalAssumption DEF RingOK
<1>10. next(iw) = slot(ir, n + 1)
  BY <1>4, <1>9, Slots
<1>11. ASSUME NEW j \in 0..(BUFFER_SIZE - 1)
       PROVE  d[slot(ir, j)] = IF j = n THEN c ELSE b[slot(ir, j)]
  <2>1. j \in 0..BUFFER_SIZE /\ j < BUFFER_SIZE
    BY <1>9
  <2>2. slot(ir, j) \in Ring /\ (slot(ir, j) = iw => j = n)
    BY <1>4, <1>9, <2>1, Slots
  <2>3. QED
    BY <1>8, <1>9, <2>2
<1>12. ASSUME NEW j \in 0..n PROVE d[slot(ir, j)] = z.unread[j + 1]
  <2>1. CASE j = n
    BY <1>4, <1>7, <1>9, <1>11, <2>1
  <2>2. CASE j # n
    <3>1. j \in 0..(n - 1) /\ j \in 0..(BUFFER_SIZE - 1) /\ j + 1 \in 1..n
      BY <1>4, <1>9, <2>2
    <3>2. b[slot(ir, j)] = s.unread[j + 1]
      BY <1>2, <1>4, <3>1 DEF RingOK
    <3>3. QED
      BY <1>7, <1>11, <2>2, <3>1, <3>2
  <2>3. QED
    BY <2>1, <2>2
<1>13. ASSUME NEW j \in (n + 1)..(BUFFER_SIZE - 1) PROVE d[slot(ir, j)] \in {0, DEL}
  <2>1. j \in n..(BUFFER_SIZE - 1) /\ j \in 0..(BUFFER_SIZE - 1) /\ j # n
    BY <1>4, <1>9
  <2>2. QED
    BY <1>2, <1>4, <1>11, <2>1 DEF RingOK
<1>14. n + 1 <= BUFFER_SIZE /\ (n + 1) - 1 = n
  BY <1>4, <1>9
<1>15. QED
  BY <1>7, <1>8, <1>10, <1>12, <1>13, <1>14 DEF RingOK

\* A deletion in the ring was typed, now or before.
LEMMA DeletionsTyped ==
    ASSUME NEW b \in [Ring -> 0..255], NEW iw \in Ring, NEW s \in SeenSet, NEW c \in Chars,
           NEW echo \in BOOLEAN, DeletionsOK(b, s)
    PROVE  DeletionsOK([b EXCEPT ![iw] = c], typed(s, c, echo))
<1>1. PICK z \in SeenSet : z = typed(s, c, echo) /\ z.deleted = (s.deleted \/ c = DEL) /\ z.lost = queued(s, c).lost
  BY TypedFields
<1>2. z.lost = "phantom" => s.lost = "phantom"
  BY <1>1, LosesType DEF queued
<1>3. ASSUME NEW i \in Ring, [b EXCEPT ![iw] = c][i] = DEL PROVE z.deleted
  BY <1>1, <1>3 DEF DeletionsOK
<1>4. QED
  BY <1>1, <1>2, <1>3 DEF DeletionsOK

\* The echo keeps up with the line.
LEMMA EchoTyped ==
    ASSUME NEW t \in TtySet, NEW s \in SeenSet, NEW c \in Chars, EchoOK(t.nb_write, t.screen, s)
    PROVE  EchoOK(receive(t, c).nb_write, receive(t, c).screen, typed(s, c, t.echo))
<1>1. t.nb_write = Len(s.line) /\ (s.clean => Shown(t.screen, s.line))
  BY DEF EchoOK
<1>2. t.screen \in Screen /\ t.echo \in BOOLEAN /\ s.line \in Seq(Chars) /\ Len(s.line) \in Nat
  BY TtyFields, SeenFields
<1>3. PICK u \in TtySet :
         /\ u = receive(t, c)
         /\ c = CR => u.nb_write = 0
         /\ c = DEL => IF t.nb_write = 0 THEN u.nb_write = 0 /\ u.screen = t.screen
                       ELSE u.nb_write = t.nb_write - 1 /\ u.screen = echoed(t, <<c>>)
         /\ c # CR /\ c # DEL => u.nb_write = t.nb_write + 1 /\ u.screen = echoed(t, <<c>>)
  BY ReceiveFields
<1>4. PICK z \in SeenSet :
         /\ z = typed(s, c, t.echo) /\ z.line = edited(s.line, c)
         /\ z.clean => \/ c = CR
                       \/ c = DEL /\ s.clean /\ (t.echo \/ s.line = <<>>)
                       \/ c \in Plain /\ s.clean /\ t.echo
  BY <1>2, TypedFields
<1>5. t.echo => echoed(t, <<c>>) = console_putchar(t.screen, c)
  BY <1>2, WriteOne DEF echoed, Chars
<1>6. CR # DEL
  BY DEF CR, DEL
<1>7. CASE c = CR
  <2>1. z.line = <<>> /\ u.nb_write = 0
    BY <1>3, <1>4, <1>7 DEF edited
  <2>2. Shown(u.screen, <<>>)
    BY DEF Shown
  <2>3. QED
    BY <1>3, <1>4, <2>1, <2>2 DEF EchoOK
<1>8. CASE c = DEL /\ s.line = <<>>
  <2>1. z.line = s.line /\ t.nb_write = 0 /\ u.nb_write = 0 /\ u.screen = t.screen
    BY <1>1, <1>3, <1>4, <1>6, <1>8 DEF edited
  <2>2. z.clean => s.clean
    BY <1>4, <1>6, <1>8 DEF Plain
  <2>3. QED
    BY <1>1, <1>3, <1>4, <2>1, <2>2 DEF EchoOK
<1>9. CASE c = DEL /\ s.line # <<>>
  <2>1. z.line = SubSeq(s.line, 1, Len(s.line) - 1)
    BY <1>4, <1>6, <1>9 DEF edited
  <2>2. Len(s.line) # 0 /\ Len(z.line) = Len(s.line) - 1
    BY <1>2, <1>9, <2>1
  <2>3. u.nb_write = t.nb_write - 1 /\ u.screen = echoed(t, <<c>>)
    BY <1>1, <1>3, <1>9, <2>2
  <2>4. z.clean => t.echo /\ s.clean
    BY <1>4, <1>6, <1>9 DEF Plain
  <2>5. z.clean => Shown(u.screen, z.line)
    BY <1>1, <1>2, <1>5, <1>9, <2>1, <2>3, <2>4, ShownDelete
  <2>6. QED
    BY <1>1, <1>3, <1>4, <2>2, <2>3, <2>5 DEF EchoOK
<1>10. CASE c # CR /\ c # DEL
  <2>1. z.line = Append(s.line, c) /\ Len(z.line) = Len(s.line) + 1
    BY <1>2, <1>4, <1>10 DEF edited
  <2>2. u.nb_write = t.nb_write + 1 /\ u.screen = echoed(t, <<c>>)
    BY <1>3, <1>10
  <2>3. z.clean => t.echo /\ s.clean /\ c \in Plain
    BY <1>4, <1>10
  <2>4. z.clean => Shown(u.screen, z.line)
    BY <1>1, <1>2, <1>5, <2>1, <2>2, <2>3, ShownAppend
  <2>5. QED
    BY <1>1, <1>3, <1>4, <2>1, <2>2, <2>4 DEF EchoOK
<1>11. QED
  BY <1>7, <1>8, <1>9, <1>10

-----------------------------------------------------------------------------
(* Lines that are not read *)

\* From p, the characters u make line after line, those of ls, and then the line l.
LinesBy(e, q, p, u, ls, l) ==
    /\ e \in [0..Len(u) -> Seq(Chars)] /\ q \in [0..Len(u) -> Seq(Seq(Chars))]
    /\ e[0] = p /\ e[Len(u)] = l /\ q[0] = ls /\ q[Len(u)] = <<>>
    /\ \A i \in 1..Len(u) :
          /\ e[i] = edited(e[i - 1], u[i])
          /\ IF u[i] = CR THEN q[i - 1] # <<>> /\ Head(q[i - 1]) = e[i - 1] /\ q[i] = Tail(q[i - 1])
             ELSE q[i] = q[i - 1]

\* There is such a way from p to l.
Lines(p, u, ls, l) == \E e, q : LinesBy(e, q, p, u, ls, l)

\* The elements, the head and the tail of a sequence with one more element.
LEMMA Appended ==
    ASSUME NEW S, NEW s \in Seq(S), NEW c \in S
    PROVE  /\ Append(s, c) \in Seq(S) /\ Append(s, c) # <<>> /\ Len(Append(s, c)) = Len(s) + 1
           /\ \A i \in 1..Len(s) : Append(s, c)[i] = s[i]
           /\ Append(s, c)[Len(s) + 1] = c
           /\ s # <<>> => Head(Append(s, c)) = Head(s) /\ Tail(Append(s, c)) = Append(Tail(s), c)
           /\ s = <<>> => Head(Append(s, c)) = c /\ Tail(Append(s, c)) = <<>>
<1>1. /\ Append(s, c) \in Seq(S) /\ Append(s, c) # <<>> /\ Len(Append(s, c)) = Len(s) + 1
      /\ \A i \in 1..Len(s) : Append(s, c)[i] = s[i]
      /\ Append(s, c)[Len(s) + 1] = c
  OBVIOUS
<1>2. ASSUME s # <<>> PROVE Head(Append(s, c)) = Head(s) /\ Tail(Append(s, c)) = Append(Tail(s), c)
  BY <1>2, AppendProperties, HeadTailProperties
<1>3. ASSUME s = <<>> PROVE Head(Append(s, c)) = c /\ Tail(Append(s, c)) = <<>>
  BY <1>3
<1>4. QED
  BY <1>1, <1>2, <1>3

\* An element is appended behind the head.
LEMMA AppendedTail ==
    ASSUME NEW S, NEW s \in Seq(S), NEW c \in S, s # <<>>
    PROVE  Append(s, c) # <<>> /\ Head(Append(s, c)) = Head(s) /\ Tail(Append(s, c)) = Append(Tail(s), c)
  BY Appended

\* The head and the tail of a sequence.
LEMMA Tails ==
    ASSUME NEW S, NEW s \in Seq(S), s # <<>>
    PROVE  /\ Tail(s) \in Seq(S) /\ Len(Tail(s)) = Len(s) - 1 /\ Len(s) \in Nat \ {0}
           /\ Head(s) = s[1] /\ s[1] \in S
           /\ \A i \in 1..(Len(s) - 1) : Tail(s)[i] = s[i + 1]
  OBVIOUS

\* Nothing makes no line.
LEMMA NoLines ==
    ASSUME NEW p \in Seq(Chars) PROVE Lines(p, <<>>, <<>>, p)
<1>1. Len(<<>>) = 0 /\ <<>> \in Seq(Seq(Chars)) /\ 1..0 = {}
  OBVIOUS
<1>2. LinesBy([i \in 0..0 |-> p], [i \in 0..0 |-> <<>>], p, <<>>, <<>>, p)
  BY <1>1 DEF LinesBy
<1>3. QED
  BY <1>2 DEF Lines

\* One more character extends the way.
LEMMA LinesAppend ==
    ASSUME NEW p, NEW u \in Seq(Chars), NEW ls \in Seq(Seq(Chars)), NEW l \in Seq(Chars),
           NEW c \in Chars, Lines(p, u, ls, l)
    PROVE  Lines(p, Append(u, c), IF c = CR THEN Append(ls, l) ELSE ls, edited(l, c))
<1>1. PICK e, q : LinesBy(e, q, p, u, ls, l)
  BY DEF Lines
<1>2. PICK n \in Nat : n = Len(u)
  BY Elements
<1>3. /\ e \in [0..n -> Seq(Chars)] /\ q \in [0..n -> Seq(Seq(Chars))]
      /\ e[0] = p /\ e[n] = l /\ q[0] = ls /\ q[n] = <<>>
      /\ \A i \in 1..n :
          /\ e[i] = edited(e[i - 1], u[i])
          /\ IF u[i] = CR THEN q[i - 1] # <<>> /\ Head(q[i - 1]) = e[i - 1] /\ q[i] = Tail(q[i - 1])
             ELSE q[i] = q[i - 1]
  BY <1>1, <1>2 DEF LinesBy
<1>4. PICK u2 : /\ u2 = Append(u, c) /\ Len(u2) = n + 1 /\ u2[n + 1] = c
                /\ \A i \in 1..n : u2[i] = u[i]
  <2>1. /\ Len(Append(u, c)) = Len(u) + 1 /\ Append(u, c)[Len(u) + 1] = c
        /\ \A i \in 1..Len(u) : Append(u, c)[i] = u[i]
    BY Appended
  <2>2. QED
    BY <1>2, <2>1
<1>5. PICK l2 \in Seq(Chars) : l2 = edited(l, c)
  BY EditedType
<1> DEFINE more(s) == IF c = CR THEN Append(s, l) ELSE s
           e2 == [i \in 0..(n + 1) |-> IF i = n + 1 THEN l2 ELSE e[i]]
           q2 == [i \in 0..(n + 1) |-> IF i = n + 1 THEN <<>> ELSE more(q[i])]
<1>6. e2 \in [0..(n + 1) -> Seq(Chars)]
  BY <1>3, <1>5
<1>7. q2 \in [0..(n + 1) -> Seq(Seq(Chars))]
  <2>1. \A s \in Seq(Seq(Chars)) : more(s) \in Seq(Seq(Chars))
    BY Appended
  <2>2. <<>> \in Seq(Seq(Chars))
    OBVIOUS
  <2> HIDE DEF more
  <2>3. QED
    BY <1>3, <2>1, <2>2
<1>8. e2[0] = p /\ e2[n + 1] = l2 /\ q2[0] = more(ls) /\ q2[n + 1] = <<>>
  <2> HIDE DEF more
  <2> QED BY <1>3
<1>9. ASSUME NEW i \in 1..(n + 1)
      PROVE  /\ e2[i] = edited(e2[i - 1], u2[i])
             /\ IF u2[i] = CR THEN q2[i - 1] # <<>> /\ Head(q2[i - 1]) = e2[i - 1] /\ q2[i] = Tail(q2[i - 1])
                ELSE q2[i] = q2[i - 1]
  <2>1. CASE i = n + 1
    <3>1. e2[i - 1] = l /\ e2[i] = l2 /\ q2[i] = <<>> /\ q2[i - 1] = more(<<>>) /\ u2[i] = c
      <4> HIDE DEF more
      <4> QED BY <1>3, <1>4, <2>1
    <3>2. <<>> \in Seq(Seq(Chars))
      OBVIOUS
    <3>3. c = CR => more(<<>>) # <<>> /\ Head(more(<<>>)) = l /\ Tail(more(<<>>)) = <<>>
      BY <3>2, Appended
    <3>4. c # CR => more(<<>>) = <<>>
      OBVIOUS
    <3> HIDE DEF e2, q2, more
    <3>5. QED
      BY <1>5, <3>1, <3>3, <3>4
  <2>2. CASE i # n + 1
    <3>1. i \in 1..n /\ i - 1 \in 0..n /\ i \in 0..n /\ i - 1 # n + 1
      BY <2>2
    <3>2. e2[i - 1] = e[i - 1] /\ e2[i] = e[i] /\ u2[i] = u[i]
          /\ q2[i - 1] = more(q[i - 1]) /\ q2[i] = more(q[i])
      <4> HIDE DEF more
      <4> QED BY <1>4, <3>1
    <3>3. q[i - 1] \in Seq(Seq(Chars))
      BY <1>3, <3>1
    <3>4. q[i - 1] # <<>> => /\ more(q[i - 1]) # <<>> /\ Head(more(q[i - 1])) = Head(q[i - 1])
                             /\ Tail(more(q[i - 1])) = more(Tail(q[i - 1]))
      <4>1. CASE c = CR
        <5>1. more(q[i - 1]) = Append(q[i - 1], l) /\ more(Tail(q[i - 1])) = Append(Tail(q[i - 1]), l)
          BY <4>1
        <5> HIDE DEF more
        <5>2. l \in Seq(Chars)
          OBVIOUS
        <5>3. PICK z \in Seq(Seq(Chars)) : z = q[i - 1]
          BY <3>3
        <5>4. ASSUME z # <<>>
              PROVE  /\ Append(z, l) # <<>> /\ Head(Append(z, l)) = Head(z)
                     /\ Tail(Append(z, l)) = Append(Tail(z), l)
          BY <5>2, <5>4, AppendedTail
        <5>5. QED
          BY <5>1, <5>3, <5>4
      <4>2. CASE c # CR
        BY <4>2
      <4>3. QED
        BY <4>1, <4>2
    <3> HIDE DEF e2, q2, more
    <3>5. QED
      BY <1>3, <3>1, <3>2, <3>4
  <2>3. QED
    BY <2>1, <2>2
<1>10. LinesBy(e2, q2, p, u2, more(ls), l2)
  <2> HIDE DEF e2, q2, more
  <2> QED BY <1>4, <1>6, <1>7, <1>8, <1>9 DEF LinesBy
<1>11. Lines(p, u2, more(ls), l2)
  <2> HIDE DEF e2, q2, more
  <2> QED BY <1>10 DEF Lines
<1>12. QED
  BY <1>4, <1>5, <1>11

\* The first character taken, the way goes on from the line it edits.
LEMMA LinesTake ==
    ASSUME NEW p, NEW u \in Seq(Chars), NEW ls, NEW l, u # <<>>, Lines(p, u, ls, l)
    PROVE  /\ Lines(edited(p, u[1]), Tail(u), IF u[1] = CR THEN Tail(ls) ELSE ls, l)
           /\ u[1] = CR => ls # <<>> /\ Head(ls) = p
<1>1. PICK e, q : LinesBy(e, q, p, u, ls, l)
  BY DEF Lines
<1>2. PICK n \in Nat : n + 1 = Len(u)
  <2>1. Len(u) - 1 \in Nat /\ (Len(u) - 1) + 1 = Len(u)
    BY Tails
  <2>2. QED
    BY <2>1
<1>3. /\ e \in [0..(n + 1) -> Seq(Chars)] /\ q \in [0..(n + 1) -> Seq(Seq(Chars))]
      /\ e[0] = p /\ e[n + 1] = l /\ q[0] = ls /\ q[n + 1] = <<>>
      /\ \A i \in 1..(n + 1) :
          /\ e[i] = edited(e[i - 1], u[i])
          /\ IF u[i] = CR THEN q[i - 1] # <<>> /\ Head(q[i - 1]) = e[i - 1] /\ q[i] = Tail(q[i - 1])
             ELSE q[i] = q[i - 1]
  BY <1>1, <1>2 DEF LinesBy
<1>4. PICK t : t = Tail(u) /\ Len(t) = n /\ \A i \in 1..n : t[i] = u[i + 1]
  <2>1. Len(Tail(u)) = Len(u) - 1 /\ \A i \in 1..(Len(u) - 1) : Tail(u)[i] = u[i + 1]
    BY Tails
  <2>2. Len(u) - 1 = n
    BY <1>2
  <2>3. QED
    BY <2>1, <2>2
<1> DEFINE e2 == [i \in 0..n |-> e[i + 1]]
           q2 == [i \in 0..n |-> q[i + 1]]
<1>5. 1 \in 1..(n + 1) /\ 1 - 1 = 0
  BY <1>2
<1>6. e[1] = edited(p, u[1]) /\ (IF u[1] = CR THEN ls # <<>> /\ Head(ls) = p /\ q[1] = Tail(ls)
                                 ELSE q[1] = ls)
  BY <1>3, <1>5
<1>7. /\ e2 \in [0..n -> Seq(Chars)] /\ q2 \in [0..n -> Seq(Seq(Chars))]
      /\ e2[0] = e[1] /\ e2[n] = l /\ q2[0] = q[1] /\ q2[n] = <<>>
  <2>1. \A i \in 0..n : i + 1 \in 0..(n + 1)
    OBVIOUS
  <2>2. e2 \in [0..n -> Seq(Chars)] /\ q2 \in [0..n -> Seq(Seq(Chars))]
    BY <1>3, <2>1
  <2>3. 0 \in 0..n /\ n \in 0..n /\ 0 + 1 = 1
    OBVIOUS
  <2>4. e2[0] = e[1] /\ e2[n] = e[n + 1] /\ q2[0] = q[1] /\ q2[n] = q[n + 1]
    BY <2>3
  <2>5. QED
    BY <1>3, <2>2, <2>4
<1>8. ASSUME NEW i \in 1..n
      PROVE  /\ e2[i] = edited(e2[i - 1], t[i])
             /\ IF t[i] = CR THEN q2[i - 1] # <<>> /\ Head(q2[i - 1]) = e2[i - 1] /\ q2[i] = Tail(q2[i - 1])
                ELSE q2[i] = q2[i - 1]
  <2>1. i + 1 \in 1..(n + 1) /\ (i + 1) - 1 = i
    OBVIOUS
  <2>2. e2[i] = e[i + 1] /\ e2[i - 1] = e[i] /\ q2[i] = q[i + 1] /\ q2[i - 1] = q[i] /\ t[i] = u[i + 1]
    BY <1>4
  <2> HIDE DEF e2, q2
  <2>3. QED
    BY <1>3, <2>1, <2>2
<1>9. LinesBy(e2, q2, e[1], t, q[1], l)
  <2> HIDE DEF e2, q2
  <2> QED BY <1>4, <1>7, <1>8 DEF LinesBy
<1>10. Lines(e[1], t, q[1], l)
  <2> HIDE DEF e2, q2
  <2> QED BY <1>9 DEF Lines
<1>11. QED
  BY <1>4, <1>6, <1>10

\* c[i] is what the user knows after i characters.
Types(c, s, echo, str) ==
    c[0] = s /\ \A i \in 1..Len(str) : c[i] = typed(c[i - 1], str[i], echo)

\* What the user knows follows the characters one by one.
LEMMA TypedFollows ==
    ASSUME NEW s \in SeenSet, NEW echo \in BOOLEAN, NEW str \in Seq(Chars)
    PROVE  \E c : Types(c, s, echo, str) /\ all_typed(s, str, echo) = c[Len(str)]
<1> DEFINE n == Len(str)
           F == [x \in (1..n) \X SeenSet |-> typed(x[2], str[x[1]], echo)]
           Body(f, i) == IF i = 0 THEN s ELSE apply(LAMBDA x : typed(x, str[i], echo), f[i - 1])
<1>1. n \in Nat /\ \A i \in 1..n : str[i] \in Chars
  BY Elements
<1>2. 0 \in 0..n /\ \A i \in 1..n : i \in 0..n /\ i - 1 \in 0..n
  BY <1>1
<1>3. F \in [(1..n) \X SeenSet -> SeenSet]
  <2>1. \A u \in SeenSet, c \in Chars : typed(u, c, echo) \in SeenSet
    BY TypedFields
  <2> HIDE DEF n
  <2>2. QED
    BY <1>1, <2>1
<1>4. PICK g : g \in [0..n -> SeenSet] /\ g[0] = s /\ \A i \in 1..n : g[i] = F[<<i, g[i - 1]>>]
  <2> HIDE DEF F, n
  <2>1. \E g : Turns(g, SeenSet, s, n, F)
    BY <1>1, <1>3, Unfold
  <2>2. QED
    BY <2>1 DEF Turns
<1>5. ASSUME NEW f
      PROVE  Body(f, 0) = s /\ \A i \in 1..n : Body(f, i) = typed(f[i - 1], str[i], echo)
  BY DEF apply
<1>6. ASSUME NEW i \in 0..n PROVE g[i] = Body(g, i)
  <2>1. CASE i = 0
    <3> HIDE DEF Body, F
    <3> QED BY <1>4, <1>5, <2>1
  <2>2. CASE i # 0
    <3>1. i - 1 \in 0..n /\ i \in 1..n
      BY <2>2, <1>1
    <3>2. <<i, g[i - 1]>> \in (1..n) \X SeenSet
      BY <1>4, <3>1
    <3>3. F[<<i, g[i - 1]>>] = typed(g[i - 1], str[i], echo)
      BY <3>2
    <3> HIDE DEF F, n, Body
    <3>4. QED
      BY <1>4, <1>5, <3>1, <3>3
  <2>3. QED
    BY <2>1, <2>2
<1>7. g = [i \in 0..n |-> Body(g, i)]
  <2> HIDE DEF n, Body, F
  <2>1. g = [i \in 0..n |-> g[i]]
    BY <1>4
  <2>2. QED
    BY <1>6, <2>1
<1>8. PICK c : c = CHOOSE f : f = [i \in 0..n |-> Body(f, i)]
  OBVIOUS
<1>9. c = [i \in 0..n |-> Body(c, i)]
  <2> HIDE DEF n, Body
  <2> QED BY <1>7, <1>8
<1>10. all_typed(s, str, echo) = c[n]
  BY <1>8 DEF all_typed, through
<1>11. ASSUME NEW i \in 0..n PROVE c[i] = Body(c, i)
  <2> HIDE DEF n, Body
  <2> QED BY <1>9
<1>12. Types(c, s, echo, str)
  <2> HIDE DEF Body
  <2>1. c[0] = s
    BY <1>2, <1>5, <1>11
  <2>2. ASSUME NEW i \in 1..n PROVE c[i] = typed(c[i - 1], str[i], echo)
    BY <1>2, <1>5, <1>11
  <2>3. QED
    BY <2>1, <2>2 DEF Types
<1>13. QED
  <2> HIDE DEF n
  <2>1. Len(str) = n
    BY DEF n
  <2>2. QED
    BY <1>10, <1>12, <2>1

\* A character that is not lost extends the lines that are not read.
LEMMA LinesTyped ==
    ASSUME NEW s \in SeenSet, NEW c \in Chars, NEW echo \in BOOLEAN, NEW z, z = typed(s, c, echo),
           z.lost = "no"
    PROVE  /\ s.lost = "no" /\ z.owner = s.owner
           /\ \A p : Lines(p, s.unread, s.lines, s.line) => Lines(p, z.unread, z.lines, z.line)
<1>1. /\ z.unread = queued(s, c).unread /\ z.lines = queued(s, c).lines
      /\ z.lost = queued(s, c).lost /\ z.owner = queued(s, c).owner /\ z.line = edited(s.line, c)
  BY TypedFields
<1>2. s.lost = "no"
  BY <1>1 DEF queued
<1>3. Len(s.unread) # BUFFER_SIZE
  BY <1>1, <1>2, LosesType DEF queued
<1>4. queued(s, c) = [s EXCEPT !.unread = Append(@, c), !.lines = IF c = CR THEN Append(@, s.line) ELSE @]
  BY <1>2, <1>3 DEF queued
<1>5. z.owner = s.owner /\ z.unread = Append(s.unread, c)
      /\ z.lines = IF c = CR THEN Append(s.lines, s.line) ELSE s.lines
  BY <1>1, <1>4 DEF SeenSet
<1>6. s.unread \in Seq(Chars) /\ s.lines \in Seq(Seq(Chars)) /\ s.line \in Seq(Chars)
  BY SeenFields
<1>7. ASSUME NEW p, Lines(p, s.unread, s.lines, s.line) PROVE Lines(p, z.unread, z.lines, z.line)
  BY <1>1, <1>5, <1>6, <1>7, LinesAppend
<1>8. QED
  BY <1>2, <1>5, <1>7

\* The ring, the deletions in it and the echo agree with what was typed.
Agrees(t, s) ==
    /\ t \in TtySet /\ s \in SeenSet
    /\ RingOK(t.keyboard_buffer, t.index_read, t.index_write, s)
    /\ DeletionsOK(t.keyboard_buffer, s)
    /\ EchoOK(t.nb_write, t.screen, s)

\* What is not read of s continues what is not read of s0.
Continues(s0, s) ==
    s.lost = "no" =>
        /\ s0.lost = "no" /\ s.owner = s0.owner
        /\ \A p : Lines(p, s0.unread, s0.lines, s0.line) => Lines(p, s.unread, s.lines, s.line)

\* A character keeps the agreement and what was not read.
LEMMA CharacterArrives ==
    ASSUME NEW t, NEW s, Agrees(t, s), NEW c \in Chars
    PROVE  LET u == receive(t, c)
               z == typed(s, c, t.echo)
           IN  Agrees(u, z) /\ Continues(s, z) /\ u.echo = t.echo /\ u.index_read = t.index_read
<1>1. t \in TtySet /\ s \in SeenSet
  BY DEF Agrees
<1>2. PICK u \in TtySet :
         /\ u = receive(t, c)
         /\ u.keyboard_buffer = [t.keyboard_buffer EXCEPT ![t.index_write] = c]
         /\ u.index_write = next(t.index_write) /\ u.index_read = t.index_read
         /\ u.echo = t.echo
  BY <1>1, ReceiveFields
<1>3. PICK echo \in BOOLEAN : echo = t.echo
  BY <1>1, TtyFields
<1>4. PICK z \in SeenSet : /\ z = typed(s, c, echo)
                           /\ z.unread = queued(s, c).unread /\ z.lost = queued(s, c).lost
  BY <1>1, TypedFields
<1>5. t.keyboard_buffer \in [Ring -> 0..255] /\ t.index_write \in Ring /\ t.index_read \in Ring
  BY <1>1, TtyFields
<1>6. RingOK(u.keyboard_buffer, u.index_read, u.index_write, z)
  BY <1>1, <1>2, <1>4, <1>5, RingTyped DEF Agrees
<1>7. DeletionsOK(u.keyboard_buffer, z)
  BY <1>1, <1>2, <1>4, <1>5, DeletionsTyped DEF Agrees
<1>8. EchoOK(u.nb_write, u.screen, z)
  BY <1>1, <1>2, <1>3, <1>4, EchoTyped DEF Agrees
<1>9. Continues(s, z)
  BY <1>1, <1>4, LinesTyped DEF Continues
<1>10. QED
  BY <1>2, <1>3, <1>4, <1>6, <1>7, <1>8, <1>9 DEF Agrees

\* So do all characters that a scancode sends.
LEMMA StringArrives ==
    ASSUME NEW t, NEW s, Agrees(t, s), NEW str \in Seq(Chars)
    PROVE  LET u == keyboard_data(t, str)
               z == all_typed(s, str, t.echo)
           IN  Agrees(u, z) /\ Continues(s, z)
<1>1. t \in TtySet /\ s \in SeenSet
  BY DEF Agrees
<1>2. PICK echo \in BOOLEAN : echo = t.echo
  BY <1>1, TtyFields
<1>3. PICK a : Receives(a, t, str) /\ keyboard_data(t, str) = a[Len(str)]
  <2>1. \A u \in TtySet, c \in Chars : receive(u, c) \in TtySet
    BY ReceiveFields
  <2>2. QED
    BY <1>1, <2>1, DataFollows
<1>4. PICK b : Types(b, s, echo, str)
               /\ all_typed(s, str, echo) = b[Len(str)]
  BY <1>1, <1>2, TypedFollows
<1> DEFINE T == {i \in Nat : i <= Len(str) => /\ Agrees(a[i], b[i]) /\ Continues(s, b[i])
                                              /\ a[i].echo = t.echo}
<1>5. 0 \in T
  BY <1>3, <1>4 DEF Receives, Types, Continues
<1>6. ASSUME NEW i \in Nat, i \in T PROVE i + 1 \in T
  <2>1. SUFFICES ASSUME i + 1 <= Len(str)
                 PROVE  /\ Agrees(a[i + 1], b[i + 1]) /\ Continues(s, b[i + 1])
                        /\ a[i + 1].echo = t.echo
    OBVIOUS
  <2>2. i <= Len(str) /\ i + 1 \in 1..Len(str) /\ (i + 1) - 1 = i
    BY <2>1, Elements
  <2>3. Agrees(a[i], b[i]) /\ Continues(s, b[i]) /\ a[i].echo = t.echo
    BY <1>6, <2>2
  <2>4. PICK c \in Chars : c = str[i + 1]
    BY <2>2, Elements
  <2>5. a[i + 1] = receive(a[i], c) /\ b[i + 1] = typed(b[i], c, a[i].echo)
    BY <1>2, <1>3, <1>4, <2>2, <2>3, <2>4 DEF Receives, Types
  <2> HIDE DEF T
  <2>6. Agrees(a[i + 1], b[i + 1]) /\ Continues(b[i], b[i + 1]) /\ a[i + 1].echo = a[i].echo
    BY <2>3, <2>5, CharacterArrives
  <2>7. QED
    BY <2>3, <2>6 DEF Continues
<1>7. Nat \subseteq T
  <2> HIDE DEF T
  <2> QED BY <1>5, <1>6, Induction
<1>8. Agrees(a[Len(str)], b[Len(str)]) /\ Continues(s, b[Len(str)])
  <2>1. Len(str) \in T /\ Len(str) <= Len(str)
    BY <1>7, Elements
  <2>2. QED
    BY <2>1
<1>9. QED
  BY <1>2, <1>3, <1>4, <1>8

-----------------------------------------------------------------------------
(* One turn of cons_read *)

\* Why a turn of cons_read is the last.
Outcome == {"reads", "wait", "full", "line", "forever"}

\* What a call of cons_read holds.
call(b, i, str, n, z, o) ==
    [buffer |-> b, index |-> i, string |-> str, n |-> n, seen |-> z, outcome |-> o]

\* The calls of cons_read.
CallSet == [buffer : [Ring -> 0..255], index : Ring, string : Seq(0..255), n : Nat,
            seen : SeenSet, outcome : Outcome]

\* A call, part by part.
LEMMA CallFields ==
    ASSUME NEW b, NEW i, NEW str, NEW n, NEW z, NEW o
    PROVE  LET u == call(b, i, str, n, z, o)
           IN  u.buffer = b /\ u.index = i /\ u.string = str /\ u.n = n /\ u.seen = z /\ u.outcome = o
  BY DEF call

\* What a call holds makes it a call.
LEMMA CallIn ==
    ASSUME NEW b \in [Ring -> 0..255], NEW i \in Ring, NEW str \in Seq(0..255), NEW n \in Nat,
           NEW z \in SeenSet, NEW o \in Outcome
    PROVE  call(b, i, str, n, z, o) \in CallSet
  BY DEF call, CallSet

\* The types of the parts of a call.
LEMMA CallTyped ==
    ASSUME NEW u \in CallSet
    PROVE  /\ u.buffer \in [Ring -> 0..255] /\ u.index \in Ring /\ u.string \in Seq(0..255) /\ u.n \in Nat
           /\ u.seen \in SeenSet /\ u.outcome \in Outcome
           /\ Len(u.string) \in Nat /\ u.buffer[u.index] \in 0..255
<1>1. /\ u.buffer \in [Ring -> 0..255] /\ u.index \in Ring /\ u.string \in Seq(0..255) /\ u.n \in Nat
      /\ u.seen \in SeenSet /\ u.outcome \in Outcome
  BY DEF CallSet
<1>2. QED
  BY <1>1

\* The string of the call is full.
Full(st, u) == st.n = Len(st.string) /\ u = call(st.buffer, st.index, st.string, st.n, st.seen, "full")
\* There is no character.
Waits(st, u) == st.buffer[st.index] = 0 /\ u = call(st.buffer, st.index, st.string, st.n, st.seen, "wait")
\* The line ends.
EndsLine(st, r, u) ==
    /\ st.buffer[st.index] = CR
    /\ u = call([st.buffer EXCEPT ![st.index] = 0], next(st.index), st.string, st.n,
                taken(st.seen, r, st.n, CR), "line")
\* The ring is full of deletions.
GoesAround(st, u) ==
    /\ \A i \in Ring : st.buffer[i] = DEL
    /\ u = call(st.buffer, st.index, st.string, st.n, loses(st.seen, "phantom"), "forever")
\* The last character is deleted.
Deletes(st, r, u) ==
    /\ st.buffer[st.index] = DEL /\ (\E i \in Ring : st.buffer[i] # DEL) /\ st.n # Len(st.string)
    /\ u = call(st.buffer, next(st.index), [st.string EXCEPT ![st.n + 1] = 0],
                IF st.n > 0 THEN st.n - 1 ELSE st.n, taken(st.seen, r, st.n, DEL), "reads")
\* A character is stored.
Stores(st, r, u) ==
    LET c == st.buffer[st.index]
    IN  /\ c \notin {0, CR, DEL} /\ st.n # Len(st.string)
        /\ u = call([st.buffer EXCEPT ![st.index] = 0], next(st.index),
                    [st.string EXCEPT ![st.n + 1] = c], st.n + 1, taken(st.seen, r, st.n, c), "reads")

\* A turn ends the call or takes one character.
LEMMA Turn ==
    ASSUME NEW st \in CallSet, NEW r, st.outcome = "reads", NEW u, u = read_on(st, r)
    PROVE  Full(st, u) \/ Waits(st, u) \/ EndsLine(st, r, u) \/ GoesAround(st, u)
           \/ Deletes(st, r, u) \/ Stores(st, r, u)
<1>1. u = read_char(st, r)
  BY DEF read_on
<1>2. st = [buffer |-> st.buffer, index |-> st.index, string |-> st.string, n |-> st.n,
            seen |-> st.seen, outcome |-> "reads"]
  BY DEF CallSet
<1>3. PICK c : c = st.buffer[st.index]
  OBVIOUS
<1>4. PICK b, i, str, n, z : b = st.buffer /\ i = st.index /\ str = st.string /\ n = st.n /\ z = st.seen
  OBVIOUS
<1>5. st = [buffer |-> b, index |-> i, string |-> str, n |-> n, seen |-> z, outcome |-> "reads"]
  BY <1>2, <1>4
<1>6. CASE n = Len(str)
  <2>1. u = [st EXCEPT !.outcome = "full"]
    BY <1>1, <1>4, <1>6 DEF read_char
  <2>2. QED
    BY <1>4, <1>5, <1>6, <2>1 DEF Full, call
<1>7. CASE n # Len(str) /\ c = 0
  <2>1. u = [st EXCEPT !.outcome = "wait"]
    BY <1>1, <1>3, <1>4, <1>7 DEF read_char
  <2>2. QED
    BY <1>3, <1>4, <1>5, <1>7, <2>1 DEF Waits, call
<1>8. CASE n # Len(str) /\ c = CR
  <2>1. u = end_line(st, r)
    BY <1>1, <1>3, <1>4, <1>8 DEF read_char, CR
  <2>2. u = call([b EXCEPT ![i] = 0], next(i), str, n, taken(z, r, n, CR), "line")
    BY <1>5, <2>1 DEF end_line, passes, call
  <2>3. QED
    BY <1>3, <1>4, <1>8, <2>2 DEF EndsLine
<1>9. CASE n # Len(str) /\ c = DEL
  <2>1. u = delete(st, r)
    BY <1>1, <1>3, <1>4, <1>9 DEF read_char, CR, DEL
  <2>2. CASE \A j \in Ring : b[j] = DEL
    <3>1. u = [st EXCEPT !.outcome = "forever", !.seen = loses(@, "phantom")]
      BY <1>4, <2>1, <2>2 DEF delete
    <3>2. QED
      BY <1>4, <1>5, <2>2, <3>1 DEF GoesAround, call
  <2>3. CASE ~\A j \in Ring : b[j] = DEL
    <3>1. u = [passes(st, r, DEL) EXCEPT !.string[st.n + 1] = 0, !.n = IF @ > 0 THEN @ - 1 ELSE @]
      BY <1>4, <2>1, <2>3 DEF delete
    <3>2. u = call(b, next(i), [str EXCEPT ![n + 1] = 0], IF n > 0 THEN n - 1 ELSE n, taken(z, r, n, DEL), "reads")
      BY <1>5, <3>1 DEF passes, call
    <3>3. QED
      BY <1>3, <1>4, <1>9, <2>3, <3>2 DEF Deletes
  <2>4. QED
    BY <2>2, <2>3
<1>10. CASE n # Len(str) /\ c \notin {0, CR, DEL}
  <2>1. u = store(st, r, c)
    BY <1>1, <1>3, <1>4, <1>10 DEF read_char
  <2>2. u = call([b EXCEPT ![i] = 0], next(i), [str EXCEPT ![n + 1] = c], n + 1, taken(z, r, n, c), "reads")
    BY <1>5, <2>1 DEF store, passes, call
  <2>3. QED
    BY <1>3, <1>4, <1>10, <2>2 DEF Stores
<1>11. QED
  BY <1>6, <1>7, <1>8, <1>9, <1>10

-----------------------------------------------------------------------------
(* What a reader has of its line *)

\* The beginning of a string, one character longer or shorter.
LEMMA First ==
    ASSUME NEW S, NEW str \in Seq(S), NEW n \in Nat, n <= Len(str)
    PROVE  /\ SubSeq(str, 1, n) \in Seq(S) /\ Len(SubSeq(str, 1, n)) = n
           /\ \A i \in 1..n : SubSeq(str, 1, n)[i] = str[i]
  OBVIOUS

\* A character that is stored is appended to what was read.
LEMMA FirstStored ==
    ASSUME NEW S, NEW str \in Seq(S), NEW n \in Nat, n < Len(str), NEW c \in S
    PROVE  /\ [str EXCEPT ![n + 1] = c] \in Seq(S)
           /\ Len([str EXCEPT ![n + 1] = c]) = Len(str)
           /\ SubSeq([str EXCEPT ![n + 1] = c], 1, n + 1) = Append(SubSeq(str, 1, n), c)
<1>1. n + 1 \in 1..Len(str) /\ n <= Len(str) /\ n + 1 <= Len(str) /\ n + 1 \in Nat
  BY Elements
<1>2. PICK w : w = [str EXCEPT ![n + 1] = c]
  OBVIOUS
<1>3. w \in Seq(S) /\ Len(w) = Len(str) /\ \A j \in 1..Len(str) : w[j] = IF j = n + 1 THEN c ELSE str[j]
  BY <1>1, <1>2, ExceptSeq
<1>4. PICK a \in Seq(S) : a = SubSeq(w, 1, n + 1) /\ Len(a) = n + 1 /\ \A i \in 1..(n + 1) : a[i] = w[i]
  <2>1. /\ SubSeq(w, 1, n + 1) \in Seq(S) /\ Len(SubSeq(w, 1, n + 1)) = n + 1
        /\ \A i \in 1..(n + 1) : SubSeq(w, 1, n + 1)[i] = w[i]
    BY <1>1, <1>3, First
  <2>2. QED
    BY <2>1
<1>5. PICK b \in Seq(S) : b = SubSeq(str, 1, n) /\ Len(b) = n /\ \A i \in 1..n : b[i] = str[i]
  <2>1. /\ SubSeq(str, 1, n) \in Seq(S) /\ Len(SubSeq(str, 1, n)) = n
        /\ \A i \in 1..n : SubSeq(str, 1, n)[i] = str[i]
    BY <1>1, First
  <2>2. QED
    BY <2>1
<1>6. PICK d \in Seq(S) : /\ d = Append(b, c) /\ Len(d) = n + 1 /\ d[n + 1] = c
                          /\ \A i \in 1..n : d[i] = b[i]
  <2>1. /\ Append(b, c) \in Seq(S) /\ Len(Append(b, c)) = Len(b) + 1
        /\ \A i \in 1..Len(b) : Append(b, c)[i] = b[i]
        /\ Append(b, c)[Len(b) + 1] = c
    BY AppendProperties
  <2>2. QED
    BY <1>5, <2>1
<1>7. ASSUME NEW i \in 1..(n + 1) PROVE a[i] = d[i]
  <2>1. i \in 1..Len(str)
    BY <1>1
  <2>2. CASE i = n + 1
    BY <1>3, <1>4, <1>6, <2>1, <2>2
  <2>3. CASE i # n + 1
    <3>1. i \in 1..n
      BY <2>3
    <3>2. QED
      BY <1>3, <1>4, <1>5, <1>6, <2>1, <2>3, <3>1
  <2>4. QED
    BY <2>2, <2>3
<1>8. a = d
  BY <1>4, <1>6, <1>7, SeqEqual
<1>9. QED
  BY <1>2, <1>3, <1>4, <1>5, <1>6, <1>8

\* A deletion takes back what was read last.
LEMMA FirstDeleted ==
    ASSUME NEW S, NEW str \in Seq(S), NEW n \in Nat, n < Len(str), NEW z \in S,
           NEW m, m = IF n > 0 THEN n - 1 ELSE n
    PROVE  /\ [str EXCEPT ![n + 1] = z] \in Seq(S)
           /\ Len([str EXCEPT ![n + 1] = z]) = Len(str) /\ m \in Nat /\ m <= Len(str)
           /\ SubSeq([str EXCEPT ![n + 1] = z], 1, m) = edited(SubSeq(str, 1, n), DEL)
<1>1. n + 1 \in 1..Len(str) /\ n <= Len(str) /\ m <= Len(str) /\ m \in Nat /\ m <= n
  BY Elements
<1>2. PICK w : w = [str EXCEPT ![n + 1] = z]
  OBVIOUS
<1>3. w \in Seq(S) /\ Len(w) = Len(str) /\ \A j \in 1..Len(str) : w[j] = IF j = n + 1 THEN z ELSE str[j]
  BY <1>1, <1>2, ExceptSeq
<1>4. PICK a \in Seq(S) : a = SubSeq(w, 1, m) /\ Len(a) = m /\ \A i \in 1..m : a[i] = w[i]
  <2>1. /\ SubSeq(w, 1, m) \in Seq(S) /\ Len(SubSeq(w, 1, m)) = m
        /\ \A i \in 1..m : SubSeq(w, 1, m)[i] = w[i]
    BY <1>1, <1>3, First
  <2>2. QED
    BY <2>1
<1>5. PICK b \in Seq(S) : b = SubSeq(str, 1, n) /\ Len(b) = n /\ \A i \in 1..n : b[i] = str[i]
  <2>1. /\ SubSeq(str, 1, n) \in Seq(S) /\ Len(SubSeq(str, 1, n)) = n
        /\ \A i \in 1..n : SubSeq(str, 1, n)[i] = str[i]
    BY <1>1, First
  <2>2. QED
    BY <2>1
<1>6. \A i \in 1..m : a[i] = b[i]
  <2>1. \A i \in 1..m : i \in 1..n /\ i \in 1..Len(str) /\ i # n + 1
    BY <1>1
  <2>2. QED
    BY <1>3, <1>4, <1>5, <2>1
<1>7. CR # DEL
  BY DEF CR, DEL
<1>8. CASE b = <<>>
  <2>1. n = 0 /\ m = 0
    BY <1>5, <1>8
  <2>2. a = <<>>
    BY <1>4, <2>1
  <2>3. QED
    BY <1>1, <1>2, <1>3, <1>4, <1>5, <1>7, <1>8, <2>2 DEF edited
<1>9. CASE b # <<>>
  <2>1. n # 0 /\ m = n - 1
    BY <1>5, <1>9
  <2>2. PICK d \in Seq(S) : d = SubSeq(b, 1, m) /\ Len(d) = m /\ \A i \in 1..m : d[i] = b[i]
    <3>1. m <= Len(b)
      BY <1>1, <1>5
    <3>2. /\ SubSeq(b, 1, m) \in Seq(S) /\ Len(SubSeq(b, 1, m)) = m
          /\ \A i \in 1..m : SubSeq(b, 1, m)[i] = b[i]
      BY <1>1, <3>1, First
    <3>3. QED
      BY <3>2
  <2>3. a = d
    BY <1>4, <1>6, <2>2, SeqEqual
  <2>4. edited(b, DEL) = d
    BY <1>5, <1>7, <1>9, <2>1, <2>2 DEF edited
  <2>5. QED
    BY <1>1, <1>2, <1>3, <1>4, <1>5, <2>3, <2>4
<1>10. QED
  BY <1>8, <1>9

-----------------------------------------------------------------------------
(* Taking a character out of the ring *)

\* The character at the index is the first that was not read, unless there is none and it
\* is a deletion.
LEMMA FirstUnread ==
    ASSUME NEW b \in [Ring -> 0..255], NEW ir \in Ring, NEW iw, NEW s \in SeenSet,
           RingOK(b, ir, iw, s), s.lost = "no", b[ir] # 0
    PROVE  IF s.unread = <<>> THEN b[ir] = DEL
           ELSE b[ir] = s.unread[1] /\ s.unread[1] \in Chars
<1>1. BUFFER_SIZE \in Nat \ {0} /\ s.unread \in Seq(Chars)
  BY TerminalAssumption, SeenFields
<1>2. 0 \in 0..BUFFER_SIZE
  BY <1>1
<1>3. slot(ir, 0) = ir
  BY <1>2, Slots
<1>4. CASE s.unread = <<>>
  <2>1. 0 \in Len(s.unread)..(BUFFER_SIZE - 1)
    BY <1>1, <1>4
  <2>2. b[ir] \in {0, DEL}
    BY <1>3, <2>1 DEF RingOK
  <2>3. QED
    BY <1>4, <2>2
<1>5. CASE s.unread # <<>>
  <2>1. Len(s.unread) \in Nat \ {0}
    BY <1>1, <1>5
  <2>2. 0 \in 0..(Len(s.unread) - 1) /\ 0 + 1 = 1 /\ 1 \in 1..Len(s.unread)
    BY <2>1
  <2>3. b[ir] = s.unread[1]
    BY <1>3, <2>2 DEF RingOK
  <2>4. QED
    BY <1>1, <1>5, <2>2, <2>3, Elements
<1>6. QED
  BY <1>4, <1>5

\* Taking the first character leaves a ring for the others.
LEMMA RingTaken ==
    ASSUME NEW b \in [Ring -> 0..255], NEW ir \in Ring, NEW iw, NEW s \in SeenSet,
           RingOK(b, ir, iw, s), s.lost = "no", s.unread # <<>>,
           NEW v \in {0, DEL}, NEW z, z.unread = Tail(s.unread)
    PROVE  RingOK([b EXCEPT ![ir] = v], next(ir), iw, z)
<1>1. BUFFER_SIZE \in Nat \ {0} /\ s.unread \in Seq(Chars)
  BY TerminalAssumption, SeenFields
<1>2. PICK n \in Nat : n = Len(Tail(s.unread)) /\ n + 1 = Len(s.unread)
                       /\ \A i \in 1..n : Tail(s.unread)[i] = s.unread[i + 1]
  <2>1. /\ Len(Tail(s.unread)) = Len(s.unread) - 1 /\ Len(s.unread) \in Nat \ {0}
        /\ \A i \in 1..(Len(s.unread) - 1) : Tail(s.unread)[i] = s.unread[i + 1]
    BY <1>1, Tails
  <2>2. PICK t, l : t = Tail(s.unread) /\ l = Len(s.unread)
    OBVIOUS
  <2>3. Len(t) \in Nat /\ Len(t) = Len(t) /\ Len(t) + 1 = l
    BY <2>1, <2>2
  <2>4. QED
    BY <2>1, <2>2, <2>3
<1>3. n + 1 <= BUFFER_SIZE /\ iw = slot(ir, n + 1) /\ n < BUFFER_SIZE
  BY <1>1, <1>2 DEF RingOK
<1>4. PICK d : d = [b EXCEPT ![ir] = v]
  OBVIOUS
<1>5. ASSUME NEW j \in 0..(BUFFER_SIZE - 1)
      PROVE  /\ slot(next(ir), j) = slot(ir, j + 1)
             /\ j + 1 < BUFFER_SIZE => d[slot(next(ir), j)] = b[slot(ir, j + 1)]
             /\ j + 1 = BUFFER_SIZE => d[slot(next(ir), j)] = v
  <2>1. j \in 0..BUFFER_SIZE /\ j < BUFFER_SIZE /\ j + 1 \in 0..BUFFER_SIZE /\ 0 \in 0..BUFFER_SIZE
        /\ BUFFER_SIZE \in 0..BUFFER_SIZE /\ 0 < BUFFER_SIZE
    BY <1>1
  <2>2. slot(next(ir), j) = slot(ir, j + 1) /\ slot(ir, BUFFER_SIZE) = ir /\ slot(ir, 0) = ir
        /\ slot(ir, j + 1) \in Ring
    BY <2>1, Slots
  <2>3. ASSUME j + 1 < BUFFER_SIZE PROVE slot(ir, j + 1) # ir
    <3>1. j + 1 # 0
      OBVIOUS
    <3>2. slot(ir, j + 1) = slot(ir, 0) => j + 1 = 0
      BY <2>1, <2>3, Slots
    <3>3. QED
      BY <2>2, <3>1, <3>2
  <2>4. QED
    BY <1>4, <2>2, <2>3
<1>6. ASSUME NEW j \in 0..(n - 1) PROVE d[slot(next(ir), j)] = Tail(s.unread)[j + 1]
  <2>1. j \in 0..(BUFFER_SIZE - 1) /\ j + 1 < BUFFER_SIZE /\ j + 1 \in 0..(Len(s.unread) - 1)
        /\ j + 1 \in 1..n
    BY <1>1, <1>2, <1>3
  <2>2. b[slot(ir, j + 1)] = s.unread[(j + 1) + 1]
    BY <2>1 DEF RingOK
  <2>3. QED
    BY <1>2, <1>5, <2>1, <2>2
<1>7. ASSUME NEW j \in n..(BUFFER_SIZE - 1) PROVE d[slot(next(ir), j)] \in {0, DEL}
  <2>1. j \in 0..(BUFFER_SIZE - 1)
    BY <1>2, <1>3
  <2>2. CASE j + 1 = BUFFER_SIZE
    BY <1>5, <2>1, <2>2
  <2>3. CASE j + 1 # BUFFER_SIZE
    <3>1. j + 1 < BUFFER_SIZE /\ j + 1 \in Len(s.unread)..(BUFFER_SIZE - 1)
      BY <1>1, <1>2, <2>1, <2>3
    <3>2. b[slot(ir, j + 1)] \in {0, DEL}
      BY <3>1 DEF RingOK
    <3>3. QED
      BY <1>5, <2>1, <3>1, <3>2
  <2>4. QED
    BY <2>2, <2>3
<1>8. iw = slot(next(ir), n)
  <2>1. n \in 0..(BUFFER_SIZE - 1)
    BY <1>1, <1>3
  <2>2. QED
    BY <1>3, <1>5, <2>1
<1>9. n <= BUFFER_SIZE
  BY <1>1, <1>3
<1>10. QED
  BY <1>2, <1>4, <1>6, <1>7, <1>8, <1>9 DEF RingOK

\* What the user knows of a character that is read.
LEMMA TakenFields ==
    ASSUME NEW s \in SeenSet, NEW r \in Reader, NEW n, NEW c \in Chars, s.lost = "no",
           s.unread # <<>>, c = CR => s.lines # <<>>
    PROVE  LET z == taken(s, r, n, c)
           IN  /\ z \in SeenSet /\ z.lost = "no" /\ z.unread = Tail(s.unread)
               /\ z.lines = (IF c = CR THEN Tail(s.lines) ELSE s.lines)
               /\ z.owner = (IF c = CR THEN "none"
                             ELSE IF s.owner = r \/ (s.owner = "none" /\ n = 0) THEN r ELSE "several")
               /\ z.line = s.line /\ z.clean = s.clean /\ z.deleted = s.deleted
<1>1. /\ s.line \in Seq(Chars) /\ s.clean \in BOOLEAN /\ s.unread \in Seq(Chars)
      /\ s.lines \in Seq(Seq(Chars)) /\ s.owner \in Reader \union {"none", "several"}
      /\ s.deleted \in BOOLEAN
  BY SeenFields
<1>2. PICK u \in Seq(Chars) : u = Tail(s.unread)
  BY <1>1, Tails
<1>3. PICK ls \in Seq(Seq(Chars)) : ls = IF c = CR THEN Tail(s.lines) ELSE s.lines
  <2>1. c = CR => Tail(s.lines) \in Seq(Seq(Chars))
    BY <1>1, Tails
  <2>2. QED
    BY <1>1, <2>1
<1>4. PICK o \in Reader \union {"none", "several"} :
         o = IF c = CR THEN "none"
             ELSE IF s.owner = r \/ (s.owner = "none" /\ n = 0) THEN r ELSE "several"
  OBVIOUS
<1>5. taken(s, r, n, c) = [s EXCEPT !.unread = u, !.lines = ls, !.owner = o]
  <2>1. taken(s, r, n, c) = [s EXCEPT !.unread = Tail(@), !.lines = IF c = CR THEN Tail(@) ELSE @,
                   !.owner = CASE c = CR -> "none"
                               [] c # CR /\ (@ = r \/ (@ = "none" /\ n = 0)) -> r
                               [] OTHER -> "several"]
    BY DEF taken
  <2>2. (CASE c = CR -> "none"
           [] c # CR /\ (s.owner = r \/ (s.owner = "none" /\ n = 0)) -> r
           [] OTHER -> "several") = o
    BY <1>4
  <2>3. QED
    BY <1>2, <1>3, <2>1, <2>2 DEF SeenSet
<1>6. QED
  BY <1>1, <1>2, <1>3, <1>4, <1>5 DEF SeenSet

-----------------------------------------------------------------------------
(* The loop of cons_read *)

\* Reader r, which has n characters, reads the first of the lines.
Own(s, r, n) == s.owner = r \/ (s.owner = "none" /\ n = 0)

\* r has what p was typed of its line; or it reads in the middle of another's.
Open(st, p, s0, n0, r) ==
    \/ /\ Own(s0, r, n0) /\ Own(st.seen, r, st.n)
       /\ p = SubSeq(st.string, 1, st.n) /\ st.seen.lines = s0.lines
    \/ ~Own(s0, r, n0) /\ st.seen = s0 /\ st.n = n0
    \/ ~Own(s0, r, n0) /\ st.seen.owner = "several"

\* Between two turns of the loop of cons_read, which r started with n0 characters.
LoopOK(st, iw, s0, n0, r) ==
    /\ st \in CallSet /\ st.n <= Len(st.string)
    /\ RingOK(st.buffer, st.index, iw, st.seen) /\ DeletionsOK(st.buffer, st.seen)
    /\ st.seen.line = s0.line /\ st.seen.clean = s0.clean
    /\ st.outcome = "forever" => st.seen.lost # "no"
    /\ st.seen.lost = "no" /\ st.outcome \in {"reads", "wait", "full"} =>
          \E p \in Seq(Chars) : /\ Lines(p, st.seen.unread, st.seen.lines, st.seen.line)
                                /\ Open(st, p, s0, n0, r)
    /\ st.seen.lost = "no" /\ st.outcome = "line" =>
          /\ Lines(<<>>, st.seen.unread, st.seen.lines, st.seen.line)
          /\ st.seen.owner = "none"
          /\ Own(s0, r, n0) => SubSeq(st.string, 1, st.n) = Head(s0.lines)

\* Reader r took c, after p, and the user knows z.
Took(st, z, p, c, r) ==
    /\ Lines(edited(p, c), z.unread, z.lines, z.line)
    /\ IF c = CR THEN st.seen.lines # <<>> /\ Head(st.seen.lines) = p /\ z.owner = "none"
       ELSE z.lines = st.seen.lines /\ z.owner = IF Own(st.seen, r, st.n) THEN r ELSE "several"

\* A deletion stays in the ring.
left(c) == IF c = DEL THEN DEL ELSE 0

\* c is taken out of the ring, which becomes d, and the user knows z.
Takes(st, iw, s0, n0, r, c, d, z) ==
    /\ c \in Chars /\ z \in SeenSet /\ d \in [Ring -> 0..255] /\ next(st.index) \in Ring
    /\ RingOK(d, next(st.index), iw, z) /\ DeletionsOK(d, z)
    /\ z.line = s0.line /\ z.clean = s0.clean
    /\ z.lost = "no" =>
          \E p \in Seq(Chars) : Open(st, p, s0, n0, r) /\ Took(st, z, p, c, r)

\* What a turn takes out of the ring.
LEMMA LoopTakes ==
    ASSUME NEW st, NEW iw, NEW s0, NEW n0, NEW r \in Reader, LoopOK(st, iw, s0, n0, r),
           st.outcome = "reads", NEW c, c = st.buffer[st.index], c # 0,
           NEW d, d = [st.buffer EXCEPT ![st.index] = left(c)],
           NEW z, z = taken(st.seen, r, st.n, c)
    PROVE  Takes(st, iw, s0, n0, r, c, d, z)
<1>1. PICK s \in SeenSet : s = st.seen
  BY CallTyped DEF LoopOK
<1>2. PICK b \in [Ring -> 0..255] : b = st.buffer
  BY CallTyped DEF LoopOK
<1>3. PICK ir \in Ring : ir = st.index
  BY CallTyped DEF LoopOK
<1>4. PICK n \in Nat : n = st.n
  BY CallTyped DEF LoopOK
<1>5. RingOK(b, ir, iw, s) /\ DeletionsOK(b, s) /\ s.line = s0.line /\ s.clean = s0.clean
  BY <1>1, <1>2, <1>3 DEF LoopOK
<1>6. b[ir] = c /\ c \in Chars
  BY <1>2, <1>3 DEF Chars
<1>a. PICK v \in {0, DEL} : v = left(c) /\ (c = DEL \/ v = 0)
  BY DEF left
<1>7. d \in [Ring -> 0..255] /\ d = [b EXCEPT ![ir] = v]
  <2>1. v \in 0..255
    BY <1>a DEF DEL
  <2>2. QED
    BY <1>2, <1>3, <1>a, <2>1
<1>8. z = taken(s, r, n, c)
  BY <1>1, <1>4
<1>9. next(ir) \in Ring
  <2>1. 0 \in 0..BUFFER_SIZE
    BY TerminalAssumption
  <2>2. QED
    BY <2>1, Slots
<1>10. \A i \in Ring : d[i] = DEL => \E j \in Ring : b[j] = DEL
  <2>1. ASSUME NEW i \in Ring, d[i] = DEL PROVE \E j \in Ring : b[j] = DEL
    <3>1. CASE i = ir
      <4>1. d[i] = v
        BY <1>2, <1>3, <1>7, <3>1
      <4>2. b[ir] = DEL
        BY <1>6, <1>a, <2>1, <4>1 DEF DEL
      <4>3. QED
        BY <1>3, <4>2
    <3>2. CASE i # ir
      BY <1>2, <1>7, <2>1, <3>2
    <3>3. QED
      BY <3>1, <3>2
  <2>2. QED
    BY <2>1
<1>11. CASE s.lost # "no"
  <2>1. z = s
    BY <1>8, <1>11 DEF taken
  <2>2. DeletionsOK(d, z)
    BY <1>5, <1>10, <2>1 DEF DeletionsOK
  <2>3. RingOK(d, next(ir), iw, z)
    BY <1>11, <2>1 DEF RingOK
  <2>4. QED
    BY <1>1, <1>2, <1>3, <1>4, <1>5, <1>6, <1>7, <1>8, <1>9, <1>11, <2>1, <2>2, <2>3 DEF Takes
<1>12. CASE s.lost = "no" /\ s.unread = <<>>
  <2>1. z = loses(s, "phantom")
    BY <1>8, <1>12 DEF taken
  <2>2. z \in SeenSet /\ z.lost = "phantom" /\ z.line = s.line /\ z.clean = s.clean /\ z.deleted = s.deleted
    BY <2>1, LosesType
  <2>3. b[ir] = DEL
    BY <1>5, <1>6, <1>12, FirstUnread
  <2>4. DeletionsOK(d, z)
    BY <1>5, <2>2, <2>3 DEF DeletionsOK
  <2>5. RingOK(d, next(ir), iw, z)
    BY <2>2 DEF RingOK
  <2>6. QED
    BY <1>1, <1>2, <1>3, <1>4, <1>5, <1>6, <1>7, <1>8, <1>9, <2>2, <2>4, <2>5 DEF Takes
<1>13. CASE s.lost = "no" /\ s.unread # <<>>
  <2>1. c = s.unread[1]
    BY <1>5, <1>6, <1>13, FirstUnread
  <2>2. PICK p \in Seq(Chars) : Lines(p, s.unread, s.lines, s.line) /\ Open(st, p, s0, n0, r)
    BY <1>1, <1>13 DEF LoopOK
  <2>3. /\ Lines(edited(p, c), Tail(s.unread), IF c = CR THEN Tail(s.lines) ELSE s.lines, s.line)
        /\ c = CR => s.lines # <<>> /\ Head(s.lines) = p
    <3>1. s.unread \in Seq(Chars)
      BY SeenFields
    <3>2. QED
      BY <1>13, <2>1, <2>2, <3>1, LinesTake
  <2>4. /\ z \in SeenSet /\ z.lost = "no" /\ z.unread = Tail(s.unread)
        /\ z.lines = (IF c = CR THEN Tail(s.lines) ELSE s.lines)
        /\ z.owner = (IF c = CR THEN "none"
                      ELSE IF s.owner = r \/ (s.owner = "none" /\ n = 0) THEN r ELSE "several")
        /\ z.line = s.line /\ z.clean = s.clean /\ z.deleted = s.deleted
    BY <1>6, <1>8, <1>13, <2>3, TakenFields
  <2>5. RingOK(d, next(ir), iw, z)
    <3>1. z.unread = Tail(s.unread) /\ RingOK(b, ir, iw, s) /\ s.lost = "no" /\ s.unread # <<>>
      BY <1>5, <1>13, <2>4
    <3>2. RingOK([b EXCEPT ![ir] = v], next(ir), iw, z)
      BY <1>1, <1>2, <1>3, <1>a, <3>1, RingTaken
    <3>3. QED
      BY <1>7, <3>2
  <2>6. DeletionsOK(d, z)
    BY <1>5, <1>10, <2>4 DEF DeletionsOK
  <2>7. Lines(edited(p, c), z.unread, z.lines, z.line)
    BY <2>3, <2>4
  <2>8. IF c = CR THEN s.lines # <<>> /\ Head(s.lines) = p /\ z.owner = "none"
        ELSE z.lines = s.lines /\ z.owner = IF Own(s, r, n) THEN r ELSE "several"
    BY <2>3, <2>4 DEF Own
  <2>9. Took(st, z, p, c, r)
    BY <1>1, <1>4, <2>7, <2>8 DEF Took
  <2>10. QED
    BY <1>1, <1>2, <1>3, <1>4, <1>5, <1>6, <1>7, <1>8, <1>9, <2>2, <2>4, <2>5, <2>6, <2>9 DEF Takes
<1>14. QED
  BY <1>11, <1>12, <1>13

\* A turn of cons_read keeps its invariant.
LEMMA LoopTurn ==
    ASSUME NEW st, NEW iw, NEW s0, NEW n0, NEW r \in Reader, LoopOK(st, iw, s0, n0, r)
    PROVE  LoopOK(read_on(st, r), iw, s0, n0, r)
<1>0. CASE st.outcome # "reads"
  BY <1>0 DEF read_on
<1>1. CASE st.outcome = "reads"
  <2>1. PICK u : u = read_on(st, r)
    OBVIOUS
  <2>2. Full(st, u) \/ Waits(st, u) \/ EndsLine(st, r, u) \/ GoesAround(st, u)
        \/ Deletes(st, r, u) \/ Stores(st, r, u)
    BY <1>1, <2>1, Turn DEF LoopOK
  <2>3. /\ st.buffer \in [Ring -> 0..255] /\ st.index \in Ring /\ st.string \in Seq(0..255) /\ st.n \in Nat
        /\ st.seen \in SeenSet /\ Len(st.string) \in Nat /\ st.buffer[st.index] \in 0..255
    BY CallTyped DEF LoopOK
  <2>4. CASE Full(st, u) \/ Waits(st, u)
    <3>0. PICK o \in {"full", "wait"} : u = call(st.buffer, st.index, st.string, st.n, st.seen, o)
      BY <2>4 DEF Full, Waits
    <3>a. o \in Outcome
      BY <3>0 DEF Outcome
    <3>b. u \in CallSet
      BY <2>3, <3>0, <3>a, CallIn
    <3>1. /\ u.buffer = st.buffer /\ u.index = st.index /\ u.string = st.string /\ u.n = st.n
          /\ u.seen = st.seen /\ u.outcome \in {"full", "wait"} /\ u \in CallSet
      BY <3>0, <3>b, CallFields
    <3>2. \A p : Open(st, p, s0, n0, r) => Open(u, p, s0, n0, r)
      BY <3>1 DEF Open
    <3>3. QED
      BY <1>1, <2>1, <3>1, <3>2 DEF LoopOK
  <2>5. CASE GoesAround(st, u)
    <3>1. PICK z \in SeenSet : /\ z = loses(st.seen, "phantom") /\ z.lost = "phantom" /\ z.line = st.seen.line
                               /\ z.clean = st.seen.clean /\ z.deleted = st.seen.deleted
      BY <2>3, LosesType
    <3>2. /\ u.buffer = st.buffer /\ u.index = st.index /\ u.string = st.string /\ u.n = st.n
          /\ u.seen = z /\ u.outcome = "forever" /\ u \in CallSet
      <4>1. u = call(st.buffer, st.index, st.string, st.n, z, "forever")
        BY <2>5, <3>1 DEF GoesAround
      <4>2. "forever" \in Outcome
        BY DEF Outcome
      <4>3. u \in CallSet
        BY <2>3, <3>1, <4>1, <4>2, CallIn
      <4>4. QED
        BY <4>1, <4>3, CallFields
    <3>3. DeletionsOK(u.buffer, z)
      BY <2>3, <2>5, <3>1, <3>2 DEF LoopOK, DeletionsOK, GoesAround
    <3>4. RingOK(u.buffer, u.index, iw, z)
      BY <3>1 DEF RingOK
    <3>5. QED
      BY <2>1, <3>1, <3>2, <3>3, <3>4 DEF LoopOK
  <2>6. CASE EndsLine(st, r, u)
    <3>1. PICK z : z = taken(st.seen, r, st.n, CR)
      OBVIOUS
    <3>2. PICK d : d = [st.buffer EXCEPT ![st.index] = left(CR)]
      OBVIOUS
    <3>3. st.buffer[st.index] = CR /\ CR # 0 /\ u = call(d, next(st.index), st.string, st.n, z, "line")
      <4>1. left(CR) = 0 /\ CR # 0
        BY DEF left, CR, DEL
      <4>2. QED
        BY <2>6, <3>1, <3>2, <4>1 DEF EndsLine
    <3>a. Takes(st, iw, s0, n0, r, CR, d, z)
      BY <1>1, <3>1, <3>2, <3>3, LoopTakes
    <3>4. /\ z \in SeenSet /\ d \in [Ring -> 0..255] /\ next(st.index) \in Ring
          /\ RingOK(d, next(st.index), iw, z) /\ DeletionsOK(d, z)
          /\ z.line = s0.line /\ z.clean = s0.clean
          /\ z.lost = "no" =>
               \E p \in Seq(Chars) : Open(st, p, s0, n0, r) /\ Took(st, z, p, CR, r)
      BY <3>a DEF Takes
    <3>5. /\ u.buffer = d /\ u.index = next(st.index) /\ u.string = st.string /\ u.n = st.n
          /\ u.seen = z /\ u.outcome = "line" /\ u \in CallSet
      <4>1. "line" \in Outcome
        BY DEF Outcome
      <4>2. u \in CallSet
        BY <2>3, <3>3, <3>4, <4>1, CallIn
      <4>3. QED
        BY <3>3, <4>2, CallFields
    <3>6. ASSUME z.lost = "no"
          PROVE  /\ Lines(<<>>, z.unread, z.lines, z.line) /\ z.owner = "none"
                 /\ Own(s0, r, n0) => SubSeq(u.string, 1, u.n) = Head(s0.lines)
      <4>1. PICK p \in Seq(Chars) :
                  /\ Open(st, p, s0, n0, r)
                  /\ Lines(edited(p, CR), z.unread, z.lines, z.line)
                  /\ st.seen.lines # <<>> /\ Head(st.seen.lines) = p /\ z.owner = "none"
        BY <3>4, <3>6 DEF Took
      <4>2. edited(p, CR) = <<>>
        BY DEF edited
      <4>3. Own(s0, r, n0) => p = SubSeq(st.string, 1, st.n) /\ st.seen.lines = s0.lines
        BY <4>1 DEF Open
      <4>4. QED
        BY <3>5, <4>1, <4>2, <4>3
    <3>7. QED
      BY <2>1, <3>4, <3>5, <3>6 DEF LoopOK
  <2>7. ASSUME NEW c, c = st.buffer[st.index], c \notin {0, CR}, st.n # Len(st.string),
               NEW str \in Seq(0..255), NEW n \in Nat, n <= Len(str),
               SubSeq(str, 1, n) = edited(SubSeq(st.string, 1, st.n), c),
               u = call([st.buffer EXCEPT ![st.index] = left(c)], next(st.index), str, n,
                        taken(st.seen, r, st.n, c), "reads")
        PROVE  LoopOK(u, iw, s0, n0, r)
    <3>1. PICK z : z = taken(st.seen, r, st.n, c)
      OBVIOUS
    <3>2. PICK d : d = [st.buffer EXCEPT ![st.index] = left(c)]
      OBVIOUS
    <3>b. Takes(st, iw, s0, n0, r, c, d, z)
      BY <1>1, <2>7, <3>1, <3>2, LoopTakes
    <3>4. /\ z \in SeenSet /\ d \in [Ring -> 0..255] /\ next(st.index) \in Ring
          /\ RingOK(d, next(st.index), iw, z) /\ DeletionsOK(d, z)
          /\ z.line = s0.line /\ z.clean = s0.clean
          /\ z.lost = "no" =>
               \E p \in Seq(Chars) : Open(st, p, s0, n0, r) /\ Took(st, z, p, c, r)
      BY <3>b DEF Takes
    <3>a. c \in Chars
      BY <2>3, <2>7 DEF Chars
    <3>5. /\ u.buffer = d /\ u.index = next(st.index) /\ u.string = str /\ u.n = n
          /\ u.seen = z /\ u.outcome = "reads" /\ u \in CallSet
      <4>1. "reads" \in Outcome
        BY DEF Outcome
      <4>2. u = call(d, next(st.index), str, n, z, "reads")
        BY <2>7, <3>1, <3>2
      <4>3. u \in CallSet
        <5>1. str \in Seq(0..255) /\ n \in Nat
          BY <2>7
        <5>2. QED
          BY <3>4, <4>1, <4>2, <5>1, CallIn
      <4>4. QED
        BY <4>2, <4>3, CallFields
    <3>6. ASSUME z.lost = "no"
          PROVE  \E p \in Seq(Chars) : Lines(p, z.unread, z.lines, z.line) /\ Open(u, p, s0, n0, r)
      <4>1. PICK p \in Seq(Chars) :
                  /\ Open(st, p, s0, n0, r)
                  /\ Lines(edited(p, c), z.unread, z.lines, z.line)
                  /\ z.lines = st.seen.lines
                  /\ z.owner = IF Own(st.seen, r, st.n) THEN r ELSE "several"
        BY <2>7, <3>4, <3>6 DEF Took
      <4>2. edited(p, c) \in Seq(Chars)
        BY <3>a, EditedType
      <4>3. r # "none" /\ r # "several"
        BY TerminalAssumption
      <4>4. CASE Own(s0, r, n0)
        <5>1. Own(st.seen, r, st.n) /\ p = SubSeq(st.string, 1, st.n) /\ st.seen.lines = s0.lines
          BY <4>1, <4>4 DEF Open
        <5>2. z.owner = r /\ z.lines = s0.lines /\ edited(p, c) = SubSeq(u.string, 1, u.n)
          BY <2>7, <3>5, <4>1, <5>1
        <5>3. Open(u, edited(p, c), s0, n0, r)
          BY <3>5, <4>4, <5>2 DEF Open, Own
        <5>4. QED
          BY <4>1, <4>2, <5>3
      <4>5. CASE ~Own(s0, r, n0)
        <5>1. ~Own(st.seen, r, st.n)
          BY <4>1, <4>3, <4>5 DEF Open, Own
        <5>2. Open(u, edited(p, c), s0, n0, r)
          BY <3>5, <4>1, <4>5, <5>1 DEF Open
        <5>3. QED
          BY <4>1, <4>2, <5>2
      <4>6. QED
        BY <4>4, <4>5
    <3>7. QED
      BY <2>7, <3>4, <3>5, <3>6 DEF LoopOK
  <2>8. st.n <= Len(st.string)
    BY DEF LoopOK
  <2>9. CASE Deletes(st, r, u)
    <3>1. PICK str : str = [st.string EXCEPT ![st.n + 1] = 0]
      OBVIOUS
    <3>2. PICK n : n = IF st.n > 0 THEN st.n - 1 ELSE st.n
      OBVIOUS
    <3>3. st.buffer[st.index] = DEL /\ st.n # Len(st.string) /\ st.n < Len(st.string)
          /\ u = call(st.buffer, next(st.index), str, n, taken(st.seen, r, st.n, DEL), "reads")
      BY <2>3, <2>8, <2>9, <3>1, <3>2 DEF Deletes
    <3>4. str \in Seq(0..255) /\ Len(str) = Len(st.string) /\ n \in Nat /\ n <= Len(str)
          /\ SubSeq(str, 1, n) = edited(SubSeq(st.string, 1, st.n), DEL)
      <4>1. 0 \in 0..255
        OBVIOUS
      <4>2. QED
        BY <2>3, <3>1, <3>2, <3>3, <4>1, FirstDeleted
    <3>5. [st.buffer EXCEPT ![st.index] = left(DEL)] = st.buffer
      BY <2>3, <3>3 DEF left
    <3>6. DEL \notin {0, CR}
      BY DEF DEL, CR
    <3>7. LoopOK(u, iw, s0, n0, r)
      BY <2>7, <3>3, <3>4, <3>5, <3>6
    <3>8. QED
      BY <2>1, <3>7
  <2>10. CASE Stores(st, r, u)
    <3>0. PICK c \in 0..255 : c = st.buffer[st.index]
      BY <2>3
    <3>1. PICK str : str = [st.string EXCEPT ![st.n + 1] = c]
      OBVIOUS
    <3>3. c \notin {0, CR, DEL} /\ st.n # Len(st.string) /\ st.n < Len(st.string)
          /\ u = call([st.buffer EXCEPT ![st.index] = 0], next(st.index), str, st.n + 1,
                      taken(st.seen, r, st.n, c), "reads")
      BY <2>3, <2>8, <2>10, <3>0, <3>1 DEF Stores
    <3>4. str \in Seq(0..255) /\ Len(str) = Len(st.string)
          /\ SubSeq(str, 1, st.n + 1) = Append(SubSeq(st.string, 1, st.n), c)
      <4>1. /\ [st.string EXCEPT ![st.n + 1] = c] \in Seq(0..255)
            /\ Len([st.string EXCEPT ![st.n + 1] = c]) = Len(st.string)
            /\ SubSeq([st.string EXCEPT ![st.n + 1] = c], 1, st.n + 1) = Append(SubSeq(st.string, 1, st.n), c)
        <5>1. PICK B : B = 0..255
          OBVIOUS
        <5>2. st.string \in Seq(B) /\ c \in B /\ st.n \in Nat /\ st.n < Len(st.string)
          BY <2>3, <3>0, <3>3, <5>1
        <5>3. /\ [st.string EXCEPT ![st.n + 1] = c] \in Seq(B)
              /\ Len([st.string EXCEPT ![st.n + 1] = c]) = Len(st.string)
              /\ SubSeq([st.string EXCEPT ![st.n + 1] = c], 1, st.n + 1) = Append(SubSeq(st.string, 1, st.n), c)
          BY <5>2, FirstStored
        <5>4. QED
          BY <5>1, <5>3
      <4>2. QED
        BY <3>1, <4>1
    <3>5. edited(SubSeq(st.string, 1, st.n), c) = Append(SubSeq(st.string, 1, st.n), c)
      BY <3>3 DEF edited
    <3>6. st.n + 1 \in Nat /\ st.n + 1 <= Len(str)
      <4>1. Len(str) = Len(st.string) /\ st.n < Len(st.string)
        BY <3>3, <3>4
      <4>2. st.n \in Nat /\ Len(st.string) \in Nat
        BY <2>3
      <4>3. QED
        BY <4>1, <4>2
    <3>7. LoopOK(u, iw, s0, n0, r)
      <4>1. SubSeq(str, 1, st.n + 1) = edited(SubSeq(st.string, 1, st.n), c)
        BY <3>4, <3>5
      <4>2. QED
        BY <2>7, <3>0, <3>3, <3>4, <3>6, <4>1 DEF left
    <3>8. QED
      BY <2>1, <3>7
  <2>11. QED
    BY <2>2, <2>4, <2>5, <2>6, <2>9, <2>10
<1>2. QED
  BY <1>0, <1>1

\* g[i] is the call after i turns.
Loops(g, st, r) == g[0] = st /\ \A i \in 1..MAX_TURNS : g[i] = read_on(g[i - 1], r)

\* Two laps of the ring.
LEMMA Laps == BUFFER_SIZE \in Nat \ {0} /\ MAX_TURNS \in Nat /\ MAX_TURNS = BUFFER_SIZE + BUFFER_SIZE
  BY TerminalAssumption DEF MAX_TURNS

\* read_loop takes one turn after the other.
LEMMA LoopFollows ==
    ASSUME NEW st, NEW iw, NEW s0, NEW n0, NEW r \in Reader, LoopOK(st, iw, s0, n0, r)
    PROVE  \E g : /\ Loops(g, st, r) /\ read_loop(st, r) = g[MAX_TURNS]
                  /\ \A i \in 0..MAX_TURNS : LoopOK(g[i], iw, s0, n0, r)
<1> DEFINE n == MAX_TURNS
           S == {x \in CallSet : LoopOK(x, iw, s0, n0, r)}
           F == [x \in (1..n) \X S |-> read_on(x[2], r)]
           Body(f, i) == IF i = 0 THEN st ELSE apply(LAMBDA x : read_on(x, r), f[i - 1])
<1>1. n \in Nat
  BY Laps
<1>2. 0 \in 0..n /\ \A i \in 1..n : i \in 0..n /\ i - 1 \in 0..n
  BY <1>1
<1>a. st \in S
  BY DEF LoopOK
<1>3. F \in [(1..n) \X S -> S]
  <2>1. \A u \in S : read_on(u, r) \in S
    <3>1. ASSUME NEW u, LoopOK(u, iw, s0, n0, r) PROVE LoopOK(read_on(u, r), iw, s0, n0, r)
      BY <3>1, LoopTurn
    <3>2. ASSUME NEW u, LoopOK(u, iw, s0, n0, r) PROVE u \in CallSet
      BY <3>2 DEF LoopOK
    <3>3. QED
      BY <3>1, <3>2
  <2> HIDE DEF n, S
  <2>2. QED
    BY <2>1
<1>4. PICK g : g \in [0..n -> S] /\ g[0] = st /\ \A i \in 1..n : g[i] = F[<<i, g[i - 1]>>]
  <2> HIDE DEF F, n, S
  <2>1. \E g : Turns(g, S, st, n, F)
    BY <1>1, <1>a, <1>3, Unfold
  <2>2. QED
    BY <2>1 DEF Turns
<1>5. ASSUME NEW f
      PROVE  Body(f, 0) = st /\ \A i \in 1..n : Body(f, i) = read_on(f[i - 1], r)
  BY DEF apply
<1>6. ASSUME NEW i \in 0..n PROVE g[i] = Body(g, i)
  <2>1. CASE i = 0
    <3> HIDE DEF Body, F, S
    <3> QED BY <1>4, <1>5, <2>1
  <2>2. CASE i # 0
    <3>1. i - 1 \in 0..n /\ i \in 1..n
      BY <2>2, <1>1
    <3>2. <<i, g[i - 1]>> \in (1..n) \X S
      <4> HIDE DEF S, n, F, Body
      <4> QED BY <1>4, <3>1
    <3>3. F[<<i, g[i - 1]>>] = read_on(g[i - 1], r)
      <4> HIDE DEF S, n, Body
      <4> QED BY <3>2
    <3> HIDE DEF F, n, Body, S
    <3>4. QED
      BY <1>4, <1>5, <3>1, <3>3
  <2>3. QED
    BY <2>1, <2>2
<1>7. g = [i \in 0..n |-> Body(g, i)]
  <2> HIDE DEF n, Body, F, S
  <2>1. g = [i \in 0..n |-> g[i]]
    BY <1>4
  <2>2. QED
    BY <1>6, <2>1
<1>8. PICK c : c = CHOOSE f : f = [i \in 0..n |-> Body(f, i)]
  OBVIOUS
<1>9. c = [i \in 0..n |-> Body(c, i)]
  <2> HIDE DEF n, Body
  <2> QED BY <1>7, <1>8
<1>10. read_loop(st, r) = c[n]
  BY <1>8 DEF read_loop
<1>11. ASSUME NEW i \in 0..n PROVE c[i] = Body(c, i)
  <2> HIDE DEF n, Body
  <2> QED BY <1>9
<1>12. Loops(c, st, r)
  <2> HIDE DEF Body
  <2>1. c[0] = st
    BY <1>2, <1>5, <1>11
  <2>2. ASSUME NEW i \in 1..n PROVE c[i] = read_on(c[i - 1], r)
    BY <1>2, <1>5, <1>11
  <2>3. QED
    BY <2>1, <2>2 DEF Loops
<1> DEFINE T == {i \in Nat : i <= n => LoopOK(c[i], iw, s0, n0, r)}
<1>13. 0 \in T
  BY <1>12 DEF Loops
<1>14. ASSUME NEW i \in Nat, i \in T PROVE i + 1 \in T
  <2>1. SUFFICES ASSUME i + 1 <= n PROVE LoopOK(c[i + 1], iw, s0, n0, r)
    OBVIOUS
  <2>2. i <= n /\ i + 1 \in 1..n /\ (i + 1) - 1 = i
    BY <1>1, <2>1
  <2>3. LoopOK(c[i], iw, s0, n0, r)
    BY <1>14, <2>2
  <2>4. c[i + 1] = read_on(c[i], r)
    BY <1>12, <2>2 DEF Loops
  <2>5. QED
    BY <2>3, <2>4, LoopTurn
<1>15. Nat \subseteq T
  <2> HIDE DEF T
  <2> QED BY <1>13, <1>14, Induction
<1>16. \A i \in 0..n : LoopOK(c[i], iw, s0, n0, r)
  <2>1. \A i \in 0..n : i \in T /\ i <= n
    <3> HIDE DEF T
    <3> QED BY <1>1, <1>15
  <2>2. QED
    BY <2>1
<1>17. QED
  BY <1>10, <1>12, <1>16

-----------------------------------------------------------------------------
(* The loop ends *)

\* A turn that does not end the call empties its slot, or passes a deletion when there
\* is something else in the ring.
LEMMA TurnsOn ==
    ASSUME NEW st \in CallSet, NEW r, st.outcome = "reads", NEW u, u = read_on(st, r),
           u.outcome = "reads"
    PROVE  /\ u.index = next(st.index)
           /\ \/ /\ st.buffer[st.index] = DEL /\ u.buffer = st.buffer
                 /\ \E i \in Ring : st.buffer[i] # DEL
              \/ st.buffer[st.index] \notin {0, DEL} /\ u.buffer = [st.buffer EXCEPT ![st.index] = 0]
<1>1. \/ Full(st, u) \/ Waits(st, u) \/ EndsLine(st, r, u) \/ GoesAround(st, u)
      \/ Deletes(st, r, u) \/ Stores(st, r, u)
  BY Turn
<1>2. ~(Full(st, u) \/ Waits(st, u) \/ EndsLine(st, r, u) \/ GoesAround(st, u))
  BY CallFields DEF Full, Waits, EndsLine, GoesAround
<1>3. CASE Deletes(st, r, u)
  BY <1>3, CallFields DEF Deletes
<1>4. CASE Stores(st, r, u)
  BY <1>4, CallFields DEF Stores
<1>5. QED
  BY <1>1, <1>2, <1>3, <1>4

\* In the first lap every slot is emptied or holds a deletion, in the second only deletions
\* are passed.
Lapped(st, ir, i) ==
    st.outcome = "reads" =>
        /\ i <= BUFFER_SIZE =>
              /\ st.index = slot(ir, i)
              /\ \A j \in 0..(i - 1) : st.buffer[slot(ir, j)] \in {0, DEL}
        /\ i >= BUFFER_SIZE =>
              /\ st.index = slot(ir, i - BUFFER_SIZE)
              /\ \A j \in 0..(BUFFER_SIZE - 1) : st.buffer[slot(ir, j)] \in {0, DEL}
              /\ \A j \in 0..(i - BUFFER_SIZE - 1) : st.buffer[slot(ir, j)] = DEL

\* One turn more.
LEMMA LapTurn ==
    ASSUME NEW st \in CallSet, NEW r, NEW u, u = read_on(st, r), NEW ir \in Ring,
           NEW i \in Nat, i < MAX_TURNS, Lapped(st, ir, i)
    PROVE  /\ Lapped(u, ir, i + 1)
           /\ u.outcome = "reads" => i + 1 < MAX_TURNS
<1>1. SUFFICES ASSUME u.outcome = "reads"
               PROVE  Lapped(u, ir, i + 1) /\ i + 1 < MAX_TURNS
  BY DEF Lapped
<1>2. st.outcome = "reads"
  BY <1>1 DEF read_on
<1>3. /\ u.index = next(st.index)
      /\ \/ /\ st.buffer[st.index] = DEL /\ u.buffer = st.buffer
            /\ \E x \in Ring : st.buffer[x] # DEL
         \/ st.buffer[st.index] \notin {0, DEL} /\ u.buffer = [st.buffer EXCEPT ![st.index] = 0]
  BY <1>1, <1>2, TurnsOn
<1>4. PICK n \in Nat \ {0} : n = BUFFER_SIZE /\ MAX_TURNS = n + n
  BY Laps
<1>5. st.buffer \in [Ring -> 0..255] /\ st.index \in Ring
  BY CallTyped
<1>6. PICK j \in 0..(n - 1) : /\ st.index = slot(ir, j) /\ (i < n => j = i) /\ (i >= n => j = i - n)
  <2>1. CASE i < n
    BY <1>2, <1>4, <2>1 DEF Lapped
  <2>2. CASE i >= n
    <3>1. i - n \in 0..(n - 1)
      BY <1>4, <2>2
    <3>2. st.index = slot(ir, i - n)
      BY <1>2, <1>4, <2>2 DEF Lapped
    <3>3. QED
      BY <2>2, <3>1, <3>2
  <2>3. QED
    BY <1>4, <2>1, <2>2
<1>7. \A k \in 0..(n - 1) : slot(ir, k) \in Ring /\ (slot(ir, k) = slot(ir, j) => k = j)
  <2>1. \A k \in 0..(n - 1) : k \in 0..BUFFER_SIZE /\ k < BUFFER_SIZE
    BY <1>4
  <2>2. QED
    BY <1>6, <2>1, Slots
<1>8. \A k \in 0..(n - 1) : k # j => u.buffer[slot(ir, k)] = st.buffer[slot(ir, k)]
  BY <1>3, <1>5, <1>6, <1>7
<1>9. u.buffer[slot(ir, j)] \in {0, DEL}
  BY <1>3, <1>5, <1>6
<1>10. u.index = slot(ir, j + 1)
  <2>1. j \in 0..BUFFER_SIZE /\ j < BUFFER_SIZE
    BY <1>4
  <2>2. QED
    BY <1>3, <1>6, <2>1, Slots
<1>a. slot(ir, n) = ir /\ slot(ir, 0) = ir
  <2>1. 0 \in 0..BUFFER_SIZE
    BY <1>4
  <2>2. QED
    BY <1>4, <2>1, Slots
<1>11. CASE i < n
  <2>1. j = i
    BY <1>6, <1>11
  <2>2. \A k \in 0..(i - 1) : st.buffer[slot(ir, k)] \in {0, DEL}
    BY <1>2, <1>4, <1>11 DEF Lapped
  <2>3. ASSUME NEW k \in 0..i PROVE u.buffer[slot(ir, k)] \in {0, DEL}
    <3>1. CASE k = i
      BY <1>9, <2>1, <3>1
    <3>2. CASE k # i
      <4>1. k \in 0..(i - 1) /\ k \in 0..(n - 1)
        BY <1>4, <1>11, <3>2
      <4>2. QED
        BY <1>8, <2>1, <2>2, <3>2, <4>1
    <3>3. QED
      BY <3>1, <3>2
  <2>4. i + 1 < MAX_TURNS \/ (n = 1 /\ i = 0)
    BY <1>4, <1>11
  <2>b. i + 1 < MAX_TURNS
    BY <1>4, <1>11
  <2>5. (i + 1) - 1 = i /\ i + 1 <= n
    BY <1>4, <1>11
  <2>6. CASE i + 1 # n
    <3>1. ~(i + 1 >= n)
      BY <1>4, <2>5, <2>6
    <3>2. QED
      BY <1>4, <1>10, <2>1, <2>3, <2>b, <2>5, <3>1 DEF Lapped
  <2>7. CASE i + 1 = n
    <3>1. i = n - 1 /\ (i + 1) - n = 0 /\ ((i + 1) - n) - 1 = 0 - 1 /\ 0..(0 - 1) = {}
      BY <1>4, <2>7
    <3>2. u.index = slot(ir, (i + 1) - n)
      BY <1>10, <1>a, <2>1, <2>7, <3>1
    <3>3. \A k \in 0..(n - 1) : u.buffer[slot(ir, k)] \in {0, DEL}
      BY <2>3, <3>1
    <3>4. \A k \in 0..((i + 1) - n - 1) : u.buffer[slot(ir, k)] = DEL
      BY <1>4, <2>7
    <3>5. QED
      BY <1>4, <1>10, <2>1, <2>3, <2>b, <2>5, <3>2, <3>3, <3>4 DEF Lapped
  <2>8. QED
    BY <2>6, <2>7
<1>12. CASE i >= n
  <2>1. j = i - n
    BY <1>6, <1>12
  <2>2. /\ \A k \in 0..(n - 1) : st.buffer[slot(ir, k)] \in {0, DEL}
        /\ \A k \in 0..(i - n - 1) : st.buffer[slot(ir, k)] = DEL
    BY <1>2, <1>4, <1>12 DEF Lapped
  <2>3. st.buffer[slot(ir, j)] = DEL /\ u.buffer = st.buffer /\ \E x \in Ring : st.buffer[x] # DEL
    <3>1. st.buffer[slot(ir, j)] \in {0, DEL}
      BY <2>2
    <3>2. st.buffer[slot(ir, j)] # 0 /\ DEL # 0
      BY <1>3, <1>6 DEF DEL
    <3>3. st.buffer[slot(ir, j)] = DEL
      BY <3>1, <3>2
    <3>4. QED
      BY <1>3, <1>6, <3>3
  <2>4. \A k \in 0..j : u.buffer[slot(ir, k)] = DEL
    <3>1. ASSUME NEW k \in 0..j PROVE u.buffer[slot(ir, k)] = DEL
      <4>1. CASE k = j
        BY <2>3, <4>1
      <4>2. CASE k # j
        <5>1. k \in 0..(i - n - 1)
          BY <1>4, <1>6, <2>1, <4>2
        <5>2. QED
          BY <2>2, <2>3, <5>1
      <4>3. QED
        BY <4>1, <4>2
    <3>2. QED
      BY <3>1
  <2>5. j # n - 1
    <3>1. SUFFICES ASSUME j = n - 1 PROVE FALSE
      OBVIOUS
    <3>2. PICK x \in Ring : st.buffer[x] # DEL
      BY <2>3
    <3>3. PICK k \in 0..(BUFFER_SIZE - 1) : slot(ir, k) = x
      BY <3>2, SlotOnto
    <3>4. QED
      BY <1>4, <2>3, <2>4, <3>1, <3>2, <3>3
  <2>6. i + 1 < MAX_TURNS /\ (i + 1) - n = j + 1 /\ i + 1 >= n /\ ~(i + 1 <= n) /\ ((i + 1) - n) - 1 = j
    BY <1>4, <1>6, <1>12, <2>1, <2>5
  <2>7. u.index = slot(ir, (i + 1) - n)
    BY <1>10, <2>6
  <2>8. \A k \in 0..(n - 1) : u.buffer[slot(ir, k)] \in {0, DEL}
    BY <2>2, <2>3
  <2>9. \A k \in 0..((i + 1) - n - 1) : u.buffer[slot(ir, k)] = DEL
    BY <2>4, <2>6
  <2>10. QED
    BY <1>4, <2>6, <2>7, <2>8, <2>9 DEF Lapped
<1>13. QED
  BY <1>4, <1>11, <1>12

\* So it takes less than MAX_TURNS turns.
LEMMA LoopEnds ==
    ASSUME NEW g, NEW st \in CallSet, NEW r, Loops(g, st, r), \A i \in 0..MAX_TURNS : g[i] \in CallSet
    PROVE  g[MAX_TURNS].outcome # "reads"
<1>1. PICK n \in Nat : n = MAX_TURNS /\ n # 0
  BY Laps
<1>2. PICK ir \in Ring : ir = st.index
  BY CallTyped
<1>3. g[0] = st /\ \A i \in 1..n : g[i] = read_on(g[i - 1], r)
  BY <1>1 DEF Loops
<1> DEFINE T == {i \in Nat : i <= n => Lapped(g[i], ir, i) /\ (g[i].outcome = "reads" => i < n)}
<1>4. 0 \in T
  <2>1. slot(ir, 0) = ir /\ ~(0 >= BUFFER_SIZE) /\ 0..(0 - 1) = {}
    <3>1. 0 \in 0..BUFFER_SIZE
      BY Laps
    <3>2. QED
      BY <3>1, Laps, Slots
  <2>2. Lapped(g[0], ir, 0)
    BY <1>2, <1>3, <2>1 DEF Lapped
  <2>3. QED
    BY <1>1, <2>2
<1>5. ASSUME NEW i \in Nat, i \in T PROVE i + 1 \in T
  <2>1. SUFFICES ASSUME i + 1 <= n
                 PROVE  Lapped(g[i + 1], ir, i + 1) /\ (g[i + 1].outcome = "reads" => i + 1 < n)
    OBVIOUS
  <2>2. i <= n /\ i < n /\ i + 1 \in 1..n /\ (i + 1) - 1 = i /\ i \in 0..n
    BY <1>1, <2>1
  <2>3. Lapped(g[i], ir, i) /\ g[i + 1] = read_on(g[i], r) /\ g[i] \in CallSet
    BY <1>1, <1>3, <1>5, <2>2
  <2> HIDE DEF T
  <2>4. QED
    BY <1>1, <1>2, <2>2, <2>3, LapTurn
<1>6. Nat \subseteq T
  <2> HIDE DEF T
  <2> QED BY <1>4, <1>5, Induction
<1>7. n \in T
  <2> HIDE DEF T
  <2> QED BY <1>6
<1>8. QED
  BY <1>1, <1>7

-----------------------------------------------------------------------------
(* The bytes of a key *)

\* Bytes that are not errors of the keyboard.
Bytes == 1..254
\* What the bytes of a key do.
DeliverySet == [prev : 0..256, down : BOOLEAN, good : BOOLEAN]

\* g[i] is what the first i bytes of k do, from a.
Delivers(g, a, k, bytes) ==
    /\ g \in [0..Len(bytes) -> DeliverySet] /\ g[0] = a
    /\ \A i \in 1..Len(bytes) : g[i] = delivered(k, g[i - 1], bytes[i])

\* A prefix is a byte, or half of Pause.
LEMMA Prefix ==
    ASSUME NEW p, NEW byte \in Bytes
    PROVE  kbd_translate(p, byte).prev \in 0..256
  BY DEF kbd_translate, Bytes, E0, E1, E1_1D

\* Byte says of k what the driver may hear.
Says(k, a, byte, t) == t.keycode \in {0, keycodes[k]} /\ (t.keycode # 0 /\ byte >= 128 => a.down)

\* What one byte of k does.
LEMMA Delivered ==
    ASSUME NEW k, NEW a \in DeliverySet, NEW byte \in Bytes,
           NEW t, t = kbd_translate(a.prev, byte), NEW z, z = delivered(k, a, byte)
    PROVE  /\ z \in DeliverySet /\ z.prev = t.prev
           /\ z.good => a.good /\ Says(k, a, byte, t)
           /\ z.down <=> IF t.keycode = 0 THEN a.down ELSE byte < 128
<1>1. a.down \in BOOLEAN /\ a.good \in BOOLEAN /\ t.prev \in 0..256
  BY Prefix DEF DeliverySet
<1>2. PICK down \in BOOLEAN : down <=> IF t.keycode = 0 THEN a.down ELSE byte < 128
  OBVIOUS
<1>3. PICK good \in BOOLEAN : good <=> a.good /\ Says(k, a, byte, t)
  OBVIOUS
<1>4. (IF t.keycode = 0 THEN a.down ELSE byte < 128) = down
  BY <1>1, <1>2
<1>5. (a.good /\ t.keycode \in {0, keycodes[k]} /\ (t.keycode # 0 /\ byte >= 128 => a.down)) = good
  BY <1>1, <1>3 DEF Says
<1>6. z = [prev |-> t.prev, down |-> down, good |-> good]
  BY <1>4, <1>5 DEF delivered
<1>7. z \in DeliverySet /\ z.prev = t.prev /\ z.down = down /\ z.good = good
  BY <1>1, <1>6 DEF DeliverySet
<1>8. QED
  BY <1>2, <1>3, <1>7

\* From s the bytes do what delivery says.
AsDelivered(s, k, bytes) ==
    \E c : Delivers(c, s, k, bytes) /\ delivery(k, bytes, s.down) = c[Len(bytes)]

\* delivery takes one byte after the other.
LEMMA DeliveryFollows ==
    ASSUME NEW k, NEW bytes \in Seq(Bytes), NEW s \in DeliverySet, s.prev = 0, s.good = TRUE
    PROVE  AsDelivered(s, k, bytes)
<1>0. PICK down \in BOOLEAN : down = s.down /\ s = [prev |-> 0, down |-> down, good |-> TRUE]
  BY DEF DeliverySet
<1> DEFINE n == Len(bytes)
           F == [x \in (1..n) \X DeliverySet |-> delivered(k, x[2], bytes[x[1]])]
           Body(f, i) == IF i = 0 THEN s ELSE apply(LAMBDA x : delivered(k, x, bytes[i]), f[i - 1])
<1>1. n \in Nat /\ \A i \in 1..n : bytes[i] \in Bytes
  BY Elements
<1>2. 0 \in 0..n /\ \A i \in 1..n : i \in 0..n /\ i - 1 \in 0..n
  BY <1>1
<1>3. F \in [(1..n) \X DeliverySet -> DeliverySet]
  <2>1. \A u \in DeliverySet, c \in Bytes : delivered(k, u, c) \in DeliverySet
    BY Delivered
  <2> HIDE DEF n
  <2>2. QED
    BY <1>1, <2>1
<1>4. PICK g : g \in [0..n -> DeliverySet] /\ g[0] = s /\ \A i \in 1..n : g[i] = F[<<i, g[i - 1]>>]
  <2> HIDE DEF F, n
  <2>1. \E g : Turns(g, DeliverySet, s, n, F)
    BY <1>1, <1>3, Unfold
  <2>2. QED
    BY <2>1 DEF Turns
<1>5. ASSUME NEW f
      PROVE  Body(f, 0) = s /\ \A i \in 1..n : Body(f, i) = delivered(k, f[i - 1], bytes[i])
  BY DEF apply
<1>6. ASSUME NEW i \in 0..n PROVE g[i] = Body(g, i)
  <2>1. CASE i = 0
    <3> HIDE DEF Body, F
    <3> QED BY <1>4, <1>5, <2>1
  <2>2. CASE i # 0
    <3>1. i - 1 \in 0..n /\ i \in 1..n
      BY <2>2, <1>1
    <3>2. <<i, g[i - 1]>> \in (1..n) \X DeliverySet
      BY <1>4, <3>1
    <3>3. F[<<i, g[i - 1]>>] = delivered(k, g[i - 1], bytes[i])
      BY <3>2
    <3> HIDE DEF F, n, Body
    <3>4. QED
      BY <1>4, <1>5, <3>1, <3>3
  <2>3. QED
    BY <2>1, <2>2
<1>7. g = [i \in 0..n |-> Body(g, i)]
  <2> HIDE DEF n, Body, F
  <2>1. g = [i \in 0..n |-> g[i]]
    BY <1>4
  <2>2. QED
    BY <1>6, <2>1
<1>8. PICK c : c = CHOOSE f : f = [i \in 0..n |-> Body(f, i)]
  OBVIOUS
<1>9. c = [i \in 0..n |-> Body(c, i)]
  <2> HIDE DEF n, Body
  <2> QED BY <1>7, <1>8
<1>10. delivery(k, bytes, down) = c[n]
  BY <1>0, <1>8 DEF delivery, through
<1>11. ASSUME NEW i \in 0..n PROVE c[i] = Body(c, i)
  <2> HIDE DEF n, Body
  <2> QED BY <1>9
<1>12. c[0] = s /\ \A i \in 1..n : c[i] = delivered(k, c[i - 1], bytes[i])
  <2> HIDE DEF Body
  <2>1. c[0] = s
    BY <1>2, <1>5, <1>11
  <2>2. ASSUME NEW i \in 1..n PROVE c[i] = delivered(k, c[i - 1], bytes[i])
    BY <1>2, <1>5, <1>11
  <2>3. QED
    BY <2>1, <2>2
<1> DEFINE T == {i \in Nat : i <= n => c[i] \in DeliverySet}
<1>13. Nat \subseteq T
  <2>1. 0 \in T
    BY <1>12
  <2>2. ASSUME NEW i \in Nat, i \in T PROVE i + 1 \in T
    <3>1. SUFFICES ASSUME i + 1 <= n PROVE c[i + 1] \in DeliverySet
      OBVIOUS
    <3>2. i <= n /\ i + 1 \in 1..n /\ (i + 1) - 1 = i
      BY <1>1, <3>1
    <3>3. c[i] \in DeliverySet
      BY <2>2, <3>2
    <3> HIDE DEF n, T
    <3>4. PICK byte \in Bytes : byte = bytes[i + 1]
      BY <1>1, <3>2
    <3>5. c[i + 1] = delivered(k, c[i], byte)
      BY <1>12, <3>2, <3>4
    <3>6. QED
      BY <3>3, <3>5, Delivered
  <2> HIDE DEF T
  <2>3. QED
    BY <2>1, <2>2, Induction
<1>14. c \in [0..n -> DeliverySet]
  <2>1. \A i \in 0..n : i \in Nat /\ i <= n
    BY <1>1
  <2>2. \A i \in 0..n : c[i] \in DeliverySet
    BY <1>13, <2>1
  <2>3. c = [i \in 0..n |-> c[i]]
    <3> HIDE DEF n, Body
    <3>1. c = [i \in 0..n |-> Body(c, i)] /\ DOMAIN c = 0..n
      BY <1>9
    <3>2. QED
      BY <1>11, <3>1
  <2> HIDE DEF n, Body, T
  <2>4. QED
    BY <2>2, <2>3
<1>15. QED
  <2> HIDE DEF n
  <2>1. Len(bytes) = n
    BY DEF n
  <2>2. QED
    BY <1>0, <1>10, <1>12, <1>14, <2>1 DEF Delivers, AsDelivered

\* What is good in the end was good before.
LEMMA GoodBefore ==
    ASSUME NEW g, NEW a, NEW k, NEW bytes \in Seq(Bytes), Delivers(g, a, k, bytes),
           g[Len(bytes)].good
    PROVE  \A i \in 0..Len(bytes) : g[i].good
<1>1. PICK n \in Nat : n = Len(bytes)
  BY Elements
<1>2. /\ g \in [0..n -> DeliverySet] /\ \A i \in 1..n : g[i] = delivered(k, g[i - 1], bytes[i])
  BY <1>1 DEF Delivers
<1> DEFINE T == {j \in Nat : j <= n => g[n - j].good}
<1>3. 0 \in T
  BY <1>1
<1>4. ASSUME NEW j \in Nat, j \in T PROVE j + 1 \in T
  <2>1. SUFFICES ASSUME j + 1 <= n PROVE g[n - (j + 1)].good
    OBVIOUS
  <2>2. j <= n
    BY <2>1
  <2>3. PICK i \in 1..n : i = n - j /\ i - 1 = n - (j + 1) /\ i - 1 \in 0..n
    <3>1. n - j \in 1..n /\ (n - j) - 1 = n - (j + 1) /\ (n - j) - 1 \in 0..n
      BY <2>1
    <3>2. QED
      BY <3>1
  <2>4. g[i].good
    BY <1>4, <2>2, <2>3
  <2>5. PICK byte \in Bytes : byte = bytes[i]
    BY <1>1, <2>3, Elements
  <2>6. g[i] = delivered(k, g[i - 1], byte) /\ g[i - 1] \in DeliverySet
    BY <1>2, <2>3, <2>5
  <2> HIDE DEF T
  <2>7. g[i - 1].good
    BY <2>4, <2>6, Delivered
  <2>8. QED
    BY <2>3, <2>7
<1>5. Nat \subseteq T
  <2> HIDE DEF T
  <2> QED BY <1>3, <1>4, Induction
<1>6. ASSUME NEW i \in 0..n PROVE g[i].good
  <2>1. n - i \in Nat /\ n - i <= n /\ n - (n - i) = i
    OBVIOUS
  <2>2. n - i \in T
    BY <1>5, <2>1
  <2>3. QED
    BY <2>1, <2>2
<1>7. QED
  BY <1>1, <1>6

-----------------------------------------------------------------------------
(* The wire *)

\* The keycodes of keys.
codes(h) == {keycodes[j] : j \in h}

\* The driver knows what is held.
Quiet(d, h) == d.prev = 0 /\ d.key_down = codes(h)

\* The bytes w of key k will tell the driver whether k is held.
Coming(g, k, d, h, w) ==
    /\ Delivers(g, g[0], k, w)
    /\ g[0].prev = d.prev /\ (g[0].down <=> keycodes[k] \in d.key_down)
    /\ g[Len(w)].good /\ g[Len(w)].prev = 0 /\ (g[Len(w)].down <=> k \in h)
    /\ d.key_down \ {keycodes[k]} = codes(h \ {k})

\* The bytes are those of one key.
Told(d, h, w) == w \in Seq(Bytes) /\ \E k \in Key : \E g : Coming(g, k, d, h, w)

\* A key that is held sends something when it is released.
HeldOK(h) == h \subseteq {k \in Key : breaks[k] # {}}

\* A key has its own keycode.
LEMMA Codes ==
    ASSUME NEW h \in SUBSET Key, NEW k \in Key
    PROVE  /\ keycodes[k] \in codes(h) <=> k \in h
           /\ codes(h) \ {keycodes[k]} = codes(h \ {k})
  BY TerminalAssumption DEF codes

\* When all bytes are read, the driver knows.
LEMMA NowQuiet ==
    ASSUME NEW d, NEW h \in SUBSET Key, Told(d, h, <<>>)
    PROVE  Quiet(d, h)
<1>0. PICK k \in Key : \E g : Coming(g, k, d, h, <<>>)
  BY DEF Told
<1>1. PICK g : k \in Key /\ Coming(g, k, d, h, <<>>)
  BY <1>0
<1>2. Len(<<>>) = 0
  OBVIOUS
<1>3. d.prev = 0 /\ (keycodes[k] \in d.key_down <=> k \in h) /\ d.key_down \ {keycodes[k]} = codes(h \ {k})
  BY <1>1, <1>2 DEF Coming
<1>4. codes(h) \ {keycodes[k]} = codes(h \ {k}) /\ (keycodes[k] \in codes(h) <=> k \in h)
  BY Codes
<1>5. ASSUME NEW x PROVE x \in d.key_down <=> x \in codes(h)
  <2>1. x \in d.key_down \ {keycodes[k]} <=> x \in codes(h) \ {keycodes[k]}
    BY <1>3, <1>4
  <2>2. QED
    BY <1>3, <1>4, <2>1
<1>6. QED
  BY <1>3, <1>5 DEF Quiet

\* The user presses or releases k.
LEMMA KeySends ==
    ASSUME NEW d, NEW h \in SUBSET Key, Quiet(d, h), NEW k \in Key, NEW w \in Seq(Bytes),
           NEW down \in BOOLEAN, down <=> k \in h, NEW after \in BOOLEAN,
           delivery(k, w, down) = [prev |-> 0, down |-> after, good |-> TRUE],
           NEW h2 \in SUBSET Key, h2 \ {k} = h \ {k}, k \in h2 <=> after
    PROVE  Told(d, h2, w)
<1>1. PICK s \in DeliverySet : s.prev = 0 /\ s.good = TRUE /\ s.down = down
  <2>1. PICK x : x = [prev |-> 0, down |-> down, good |-> TRUE]
    OBVIOUS
  <2>2. x \in DeliverySet /\ x.prev = 0 /\ x.good = TRUE /\ x.down = down
    BY <2>1 DEF DeliverySet
  <2>3. QED
    BY <2>2
<1>2. PICK g : Delivers(g, s, k, w) /\ delivery(k, w, down) = g[Len(w)]
  <2>1. AsDelivered(s, k, w)
    BY <1>1, DeliveryFollows
  <2>2. QED
    BY <1>1, <2>1 DEF AsDelivered
<1>3. g[0] = s /\ Delivers(g, g[0], k, w)
  BY <1>2 DEF Delivers
<1>4. PICK z : z = g[Len(w)]
  OBVIOUS
<1>5. z.prev = 0 /\ (z.down <=> after) /\ z.good
  BY <1>2, <1>4
<1>6. s.prev = 0 /\ (s.down <=> down)
  BY <1>1
<1>7. d.prev = 0 /\ d.key_down = codes(h)
  BY DEF Quiet
<1>8. (keycodes[k] \in codes(h) <=> k \in h) /\ codes(h) \ {keycodes[k]} = codes(h \ {k})
  BY Codes
<1>9. Coming(g, k, d, h2, w)
  BY <1>3, <1>4, <1>5, <1>6, <1>7, <1>8 DEF Coming
<1>10. QED
  BY <1>9 DEF Told

\* The bytes that follow the first.
LEMMA DeliversRest ==
    ASSUME NEW g, NEW a, NEW k, NEW w \in Seq(Bytes), w # <<>>, Delivers(g, a, k, w)
    PROVE  \E f : /\ Delivers(f, f[0], k, Tail(w))
                  /\ f[0] = g[1] /\ f[Len(Tail(w))] = g[Len(w)]
<1>1. PICK n \in Nat : Len(w) = n + 1
  <2>1. Len(w) - 1 \in Nat /\ Len(w) = (Len(w) - 1) + 1
    BY Tails
  <2>2. QED
    BY <2>1
<1>2. PICK v \in Seq(Bytes) : v = Tail(w) /\ Len(v) = n /\ \A i \in 1..n : v[i] = w[i + 1]
  <2>1. Tail(w) \in Seq(Bytes) /\ Len(Tail(w)) = n /\ \A i \in 1..n : Tail(w)[i] = w[i + 1]
    <3>1. Len(w) - 1 = n
      BY <1>1
    <3>2. QED
      BY <3>1, Tails
  <2>2. QED
    BY <2>1
<1>3. g \in [0..(n + 1) -> DeliverySet] /\ \A i \in 1..(n + 1) : g[i] = delivered(k, g[i - 1], w[i])
  BY <1>1 DEF Delivers
<1>4. PICK f : f = [i \in 0..n |-> g[i + 1]]
  OBVIOUS
<1>5. f \in [0..n -> DeliverySet] /\ \A i \in 0..n : f[i] = g[i + 1]
  BY <1>3, <1>4
<1>6. ASSUME NEW i \in 1..n PROVE f[i] = delivered(k, f[i - 1], v[i])
  <2>1. i + 1 \in 1..(n + 1) /\ (i + 1) - 1 = i /\ i - 1 \in 0..n /\ (i - 1) + 1 = i /\ i \in 0..n
    OBVIOUS
  <2>2. g[i + 1] = delivered(k, g[i], w[i + 1])
    BY <1>3, <2>1
  <2>3. f[i] = g[i + 1] /\ f[i - 1] = g[i]
    BY <1>5, <2>1
  <2>4. QED
    BY <1>2, <2>2, <2>3
<1>7. Delivers(f, f[0], k, v)
  BY <1>2, <1>5, <1>6 DEF Delivers
<1>8. f[0] = g[1] /\ f[n] = g[n + 1]
  <2>1. 0 \in 0..n /\ n \in 0..n /\ 0 + 1 = 1
    OBVIOUS
  <2>2. QED
    BY <1>5, <2>1
<1>9. QED
  BY <1>1, <1>2, <1>7, <1>8

\* The driver hears the first byte.
LEMMA ByteHeard ==
    ASSUME NEW d, DriverOK(d), NEW h \in SUBSET Key, NEW w \in Seq(Bytes), w # <<>>, Told(d, h, w),
           NEW r, r = do_scancode(d, Head(w))
    PROVE  DriverOK(r.drv) /\ r.out \in Seq(Chars) /\ Told(r.drv, h, Tail(w))
<1>0. PICK k \in Key : \E g : Coming(g, k, d, h, w)
  BY DEF Told
<1>1. PICK g : k \in Key /\ Coming(g, k, d, h, w)
  BY <1>0
<1>2. PICK key \in Mapped \ {0} : key = keycodes[k]
  BY TerminalAssumption
<1>3. PICK byte \in Bytes : byte = Head(w) /\ byte = w[1]
  BY Tails
<1>4. PICK t : t = kbd_translate(d.prev, byte)
  OBVIOUS
<1>5. Len(w) \in Nat /\ 1 \in 1..Len(w) /\ 0 \in 0..Len(w) /\ 1 \in 0..Len(w) /\ 1 - 1 = 0
  BY Tails
<1>6. PICK a \in DeliverySet : a = g[0]
  BY <1>1, <1>5 DEF Coming, Delivers
<1>7. PICK z \in DeliverySet : z = g[1]
  BY <1>1, <1>5 DEF Coming, Delivers
<1>8. z = delivered(k, a, byte)
  BY <1>1, <1>3, <1>5, <1>6, <1>7 DEF Coming, Delivers
<1>9. z.good
  BY <1>1, <1>5, <1>7, GoodBefore DEF Coming
<1>10. a.prev = d.prev /\ (a.down <=> key \in d.key_down)
  BY <1>1, <1>2, <1>6 DEF Coming
<1>11. z.prev = t.prev /\ Says(k, a, byte, t) /\ (z.down <=> IF t.keycode = 0 THEN a.down ELSE byte < 128)
  <2>1. t = kbd_translate(a.prev, byte)
    BY <1>4, <1>10
  <2>2. QED
    BY <1>8, <1>9, <2>1, Delivered
<1>12. t.prev \in 0..256
  BY <1>4, Prefix
<1>13. t.keycode \in {0, key} /\ (t.keycode # 0 /\ byte >= 128 => key \in d.key_down)
  BY <1>2, <1>10, <1>11 DEF Says
<1>14. /\ DriverOK(r.drv) /\ r.out \in Seq(Chars) /\ r.drv.prev = t.prev
       /\ r.drv.key_down = IF t.keycode = 0 THEN d.key_down
                           ELSE IF byte >= 128 THEN d.key_down \ {key} ELSE d.key_down \union {key}
  <2>1. PICK b \in 1..254 : b = byte /\ r = do_scancode(d, b)
    BY <1>3 DEF Bytes
  <2>2. Names(d, b, key, t)
    BY <1>4, <1>12, <1>13, <2>1 DEF Names
  <2>3. Hears(d, b, key, t, r)
    BY <1>2, <2>1, <2>2, Scancode
  <2>4. QED
    BY <2>1, <2>3 DEF Hears
<1>15. /\ key \in r.drv.key_down <=> z.down
       /\ r.drv.key_down \ {key} = d.key_down \ {key}
  <2>1. CASE t.keycode = 0
    BY <1>10, <1>11, <1>14, <2>1
  <2>2. CASE t.keycode # 0 /\ byte >= 128
    <3>1. r.drv.key_down = d.key_down \ {key}
      BY <1>14, <2>2
    <3>2. ~z.down
      BY <1>11, <2>2 DEF Bytes
    <3>3. QED
      BY <3>1, <3>2
  <2>3. CASE t.keycode # 0 /\ ~(byte >= 128)
    <3>1. r.drv.key_down = d.key_down \union {key}
      BY <1>14, <2>3
    <3>2. z.down
      BY <1>11, <2>3 DEF Bytes
    <3>3. QED
      BY <3>1, <3>2
  <2>4. QED
    BY <2>1, <2>2, <2>3
<1>16. PICK f : /\ Delivers(f, f[0], k, Tail(w))
                /\ f[0] = g[1] /\ f[Len(Tail(w))] = g[Len(w)]
  BY <1>1, DeliversRest DEF Coming
<1>17. Coming(f, k, r.drv, h, Tail(w))
  BY <1>1, <1>2, <1>7, <1>11, <1>14, <1>15, <1>16 DEF Coming
<1>18. Tail(w) \in Seq(Bytes)
  BY Tails
<1>19. QED
  BY <1>14, <1>17, <1>18 DEF Told

-----------------------------------------------------------------------------
(* The invariant *)

\* The driver and the keys held.
KeysOK == held \in SUBSET Key /\ HeldOK(held) /\ DriverOK(drv)

\* The driver knows what is held, or will know when the bytes are read.
WireOK == Told(drv, held, wire) \/ (wire = <<>> /\ Quiet(drv, held))

\* A reader that sleeps has a part of its string.
ReadersOK ==
    /\ DOMAIN reader = Reader /\ reader = [r \in Reader |-> reader[r]]
    /\ \A r \in Reader : reader[r].pc = "reading" =>
          reader[r].string \in Seq(0..255) /\ reader[r].n \in 0..Len(reader[r].string)

\* The first line that is not read begins with what its reader has.
LineOK(p, s, rd) ==
    /\ Lines(p, s.unread, s.lines, s.line)
    /\ s.owner = "none" => p = <<>>
    /\ \A r \in Reader : s.owner = r =>
          rd[r].pc = "reading" /\ p = SubSeq(rd[r].string, 1, rd[r].n)

\* So it is, unless characters were lost.
Readable(s, rd) == s.lost = "no" => \E p \in Seq(Chars) : LineOK(p, s, rd)

\* The inductive invariant.  The properties say nothing of bytes on the wire, nor of a
\* line half read: WireOK and Readable do.
IInv ==
    /\ session \in Session /\ KeysOK /\ WireOK
    /\ Agrees(tty, seen) /\ ReadersOK /\ Readable(seen, reader) /\ ReadReturnsLine

-----------------------------------------------------------------------------
(* Reading *)

\* Reader r begins to read, or goes on.
Reading(r, string, n) ==
    \/ reader[r].pc = "user" /\ n = 0
    \/ reader[r].pc = "reading" /\ string = reader[r].string /\ n = reader[r].n

\* The marks of owner are not processes.
LEMMA NoReader == "none" \notin Reader /\ "several" \notin Reader
  BY TerminalAssumption

\* Then the loop of cons_read starts as it should.
LEMMA LoopStarts ==
    ASSUME NEW t, NEW s, Agrees(t, s), Readable(s, reader),
           NEW r \in Reader, NEW string \in Seq(0..255), NEW n \in 0..Len(string), Reading(r, string, n),
           NEW st, st = call(t.keyboard_buffer, t.index_read, string, n, s, "reads")
    PROVE  LoopOK(st, t.index_write, s, n, r)
<1>1. t \in TtySet /\ s \in SeenSet
  BY DEF Agrees
<1>2. PICK b \in [Ring -> 0..255] : b = t.keyboard_buffer
  BY <1>1, TtyFields
<1>3. PICK ir \in Ring : ir = t.index_read
  BY <1>1, TtyFields
<1>4. PICK iw \in Ring : iw = t.index_write
  BY <1>1, TtyFields
<1>5. Len(string) \in Nat /\ n \in Nat /\ n <= Len(string)
  BY Elements
<1>6. st = call(b, ir, string, n, s, "reads")
  BY <1>2, <1>3
<1>7. st \in CallSet
  BY <1>1, <1>5, <1>6, CallIn DEF Outcome
<1>8. st.buffer = b /\ st.index = ir /\ st.string = string /\ st.n = n /\ st.seen = s /\ st.outcome = "reads"
  BY <1>6, CallFields
<1>9. RingOK(b, ir, iw, s) /\ DeletionsOK(b, s)
  BY <1>2, <1>3, <1>4 DEF Agrees
<1>10. ASSUME s.lost = "no"
       PROVE  \E p \in Seq(Chars) : Lines(p, s.unread, s.lines, s.line) /\ Open(st, p, s, n, r)
  <2>1. PICK p \in Seq(Chars) : LineOK(p, s, reader)
    BY <1>10 DEF Readable
  <2>2. Lines(p, s.unread, s.lines, s.line)
    BY <2>1 DEF LineOK
  <2>3. CASE ~Own(s, r, n)
    BY <1>8, <2>2, <2>3 DEF Open
  <2>4. CASE Own(s, r, n)
    <3>1. p = SubSeq(string, 1, n)
      <4>1. CASE s.owner = r
        <5>1. reader[r].pc = "reading" /\ p = SubSeq(reader[r].string, 1, reader[r].n)
          BY <2>1, <4>1 DEF LineOK
        <5>2. string = reader[r].string /\ n = reader[r].n
          BY <5>1 DEF Reading
        <5>3. QED
          BY <5>1, <5>2
      <4>2. CASE s.owner # r
        <5>1. s.owner = "none" /\ n = 0
          BY <2>4, <4>2 DEF Own
        <5>2. p = <<>>
          BY <2>1, <5>1 DEF LineOK
        <5>3. SubSeq(string, 1, 0) = <<>>
          OBVIOUS
        <5>4. QED
          BY <5>1, <5>2, <5>3
      <4>3. QED
        BY <4>1, <4>2
    <3>2. QED
      BY <1>8, <2>2, <2>4, <3>1 DEF Open
  <2>5. QED
    BY <2>3, <2>4
<1>11. QED
  BY <1>4, <1>5, <1>7, <1>8, <1>9, <1>10 DEF LoopOK

\* The other readers hold what they held.
Others(rd, rd2, r) == \A q \in Reader : q # r => rd2[q] = rd[q]

\* r leaves the first of the lines that are not read, or has its beginning.
LEMMA StillReadable ==
    ASSUME NEW s0, NEW rd, Readable(s0, rd), NEW r \in Reader, NEW rd2, Others(rd, rd2, r),
           NEW st, NEW n0, st.seen.lost = "no",
           NEW p1 \in Seq(Chars), Lines(p1, st.seen.unread, st.seen.lines, st.seen.line),
           Open(st, p1, s0, n0, r), NEW z,
           z.unread = st.seen.unread /\ z.lines = st.seen.lines /\ z.line = st.seen.line,
           \/ z.owner = st.seen.owner /\ rd2[r].pc = "reading"
              /\ rd2[r].string = st.string /\ rd2[r].n = st.n
           \/ z.owner = IF st.seen.owner = r THEN "several" ELSE st.seen.owner
    PROVE  \E p \in Seq(Chars) : LineOK(p, z, rd2)
<1>1. CASE Own(s0, r, n0) /\ Own(st.seen, r, st.n) /\ p1 = SubSeq(st.string, 1, st.n)
  <2>1. ASSUME z.owner = "none" PROVE p1 = <<>>
    <3>1. st.seen.owner = "none"
      BY <2>1, NoReader
    <3>2. st.n = 0
      BY <1>1, <3>1, NoReader DEF Own
    <3>3. SubSeq(st.string, 1, 0) = <<>>
      OBVIOUS
    <3>4. QED
      BY <1>1, <3>2, <3>3
  <2>2. ASSUME NEW q \in Reader, z.owner = q
        PROVE  rd2[q].pc = "reading" /\ p1 = SubSeq(rd2[q].string, 1, rd2[q].n)
    <3>1. st.seen.owner = r \/ st.seen.owner = "none"
      BY <1>1 DEF Own
    <3>2. q = r /\ st.seen.owner = r /\ z.owner = st.seen.owner
      BY <2>2, <3>1, NoReader
    <3>3. rd2[r].pc = "reading" /\ rd2[r].string = st.string /\ rd2[r].n = st.n
      BY <3>2, NoReader
    <3>4. QED
      BY <1>1, <3>2, <3>3
  <2>3. QED
    BY <2>1, <2>2 DEF LineOK
<1>2. CASE ~Own(s0, r, n0) /\ st.seen = s0
  <2>1. PICK p \in Seq(Chars) : LineOK(p, s0, rd)
    BY <1>2 DEF Readable
  <2>2. s0.owner # r
    BY <1>2 DEF Own
  <2>3. z.owner = s0.owner
    BY <1>2, <2>2
  <2>4. LineOK(p, z, rd2)
    BY <1>2, <2>1, <2>2, <2>3 DEF LineOK, Others
  <2>5. QED
    BY <2>4
<1>3. CASE st.seen.owner = "several"
  <2>1. z.owner = "several"
    BY <1>3
  <2>2. LineOK(p1, z, rd2)
    BY <2>1, NoReader DEF LineOK
  <2>3. QED
    BY <2>2
<1>4. QED
  BY <1>1, <1>2, <1>3 DEF Open

\* The loop of cons_read ends, and its invariant holds at the end.
LEMMA LoopDone ==
    ASSUME NEW st0, NEW iw, NEW s0, NEW n0, NEW r \in Reader, LoopOK(st0, iw, s0, n0, r),
           NEW st, st = read_loop(st0, r)
    PROVE  LoopOK(st, iw, s0, n0, r) /\ st.outcome \in {"wait", "full", "line", "forever"}
<1>1. PICK g : /\ Loops(g, st0, r) /\ st = g[MAX_TURNS]
               /\ \A i \in 0..MAX_TURNS : LoopOK(g[i], iw, s0, n0, r)
  <2>1. \E g : /\ Loops(g, st0, r) /\ read_loop(st0, r) = g[MAX_TURNS]
               /\ \A i \in 0..MAX_TURNS : LoopOK(g[i], iw, s0, n0, r)
    BY LoopFollows
  <2>2. QED
    BY <2>1
<1>2. st0 \in CallSet /\ \A i \in 0..MAX_TURNS : g[i] \in CallSet
  BY <1>1 DEF LoopOK
<1>3. g[MAX_TURNS].outcome # "reads"
  BY <1>1, <1>2, LoopEnds
<1>4. MAX_TURNS \in 0..MAX_TURNS
  BY Laps
<1>5. LoopOK(st, iw, s0, n0, r)
  BY <1>1, <1>4
<1>6. st.outcome \in Outcome
  BY <1>5, CallTyped DEF LoopOK
<1>7. QED
  BY <1>1, <1>3, <1>5, <1>6 DEF Outcome

\* The ring is read as far as st.
advanced(t, st) == [t EXCEPT !.keyboard_buffer = st.buffer, !.index_read = st.index]

\* Reading does not touch the echo.
LEMMA Advanced ==
    ASSUME NEW t \in TtySet, NEW st \in CallSet, NEW u, u = advanced(t, st)
    PROVE  /\ u \in TtySet /\ u.keyboard_buffer = st.buffer /\ u.index_read = st.index
           /\ u.index_write = t.index_write /\ u.nb_write = t.nb_write /\ u.screen = t.screen
<1>1. PICK b \in [Ring -> 0..255] : b = st.buffer
  BY CallTyped
<1>2. PICK i \in Ring : i = st.index
  BY CallTyped
<1>3. u = [t EXCEPT !.keyboard_buffer = b, !.index_read = i]
  BY <1>1, <1>2 DEF advanced
<1>4. QED
  BY <1>1, <1>2, <1>3 DEF TtySet

\* leaves only changes the owner.
LEMMA Leaves ==
    ASSUME NEW s \in SeenSet, NEW r, NEW z, z = leaves(s, r)
    PROVE  /\ z \in SeenSet /\ z.line = s.line /\ z.clean = s.clean /\ z.unread = s.unread
           /\ z.lines = s.lines /\ z.deleted = s.deleted /\ z.lost = s.lost
           /\ z.owner = IF s.owner = r THEN "several" ELSE s.owner
<1>1. PICK o \in Reader \union {"none", "several"} : o = IF s.owner = r THEN "several" ELSE s.owner
  BY SeenFields
<1>2. z = [s EXCEPT !.owner = o]
  BY <1>1 DEF leaves
<1>3. QED
  BY <1>1, <1>2 DEF SeenSet

\* Who reads a line does not matter to the ring.
LEMMA SameAgrees ==
    ASSUME NEW t, NEW s, Agrees(t, s), NEW z \in SeenSet, z.line = s.line, z.clean = s.clean,
           z.unread = s.unread, z.deleted = s.deleted, z.lost = s.lost
    PROVE  Agrees(t, z)
  BY DEF Agrees, RingOK, DeletionsOK, EchoOK

\* The ring that is left agrees with what the user knows.
LEMMA ReadAgrees ==
    ASSUME NEW t, NEW s, Agrees(t, s), NEW r, NEW n, NEW st, LoopOK(st, t.index_write, s, n, r)
    PROVE  Agrees(advanced(t, st), st.seen)
<1>1. t \in TtySet /\ s \in SeenSet /\ EchoOK(t.nb_write, t.screen, s)
  BY DEF Agrees
<1>2. st \in CallSet /\ st.seen \in SeenSet
  BY CallTyped DEF LoopOK
<1>3. PICK u : u = advanced(t, st)
  OBVIOUS
<1>4. /\ u \in TtySet /\ u.keyboard_buffer = st.buffer /\ u.index_read = st.index
      /\ u.index_write = t.index_write /\ u.nb_write = t.nb_write /\ u.screen = t.screen
  BY <1>1, <1>2, <1>3, Advanced
<1>5. RingOK(u.keyboard_buffer, u.index_read, u.index_write, st.seen) /\ DeletionsOK(u.keyboard_buffer, st.seen)
  BY <1>4 DEF LoopOK
<1>6. EchoOK(u.nb_write, u.screen, st.seen)
  BY <1>1, <1>4 DEF LoopOK, EchoOK
<1>7. QED
  BY <1>2, <1>3, <1>4, <1>5, <1>6 DEF Agrees

\* What the user knows then.
seen_after(st, r) == IF st.outcome = "full" THEN leaves(st.seen, r) ELSE st.seen

\* Whether r read all of a line.
Whole(st, s, r, n) == Own(s, r, n) /\ st.outcome = "line" /\ st.seen.lost = "no"

\* What remains can be read.
LEMMA ReadLeaves ==
    ASSUME NEW s0, NEW rd, Readable(s0, rd), NEW r \in Reader, NEW rd2, Others(rd, rd2, r),
           NEW st, NEW iw, NEW n0, LoopOK(st, iw, s0, n0, r), st.outcome \in {"wait", "full", "line", "forever"},
           rd2[r].pc = pc_after(st.outcome), rd2[r].string = st.string, rd2[r].n = st.n
    PROVE  Readable(seen_after(st, r), rd2)
<1>1. PICK z : z = seen_after(st, r)
  OBVIOUS
<1>2. SUFFICES ASSUME z.lost = "no" PROVE \E p \in Seq(Chars) : LineOK(p, z, rd2)
  BY <1>1 DEF Readable
<1>3. st.seen \in SeenSet
  BY CallTyped DEF LoopOK
<1>4. /\ z.unread = st.seen.unread /\ z.lines = st.seen.lines /\ z.line = st.seen.line
      /\ z.lost = st.seen.lost
      /\ z.owner = IF st.outcome = "full" /\ st.seen.owner = r THEN "several" ELSE st.seen.owner
  BY <1>1, <1>3, Leaves DEF seen_after
<1>5. st.seen.lost = "no" /\ st.outcome # "forever"
  BY <1>2, <1>4 DEF LoopOK
<1>6. CASE st.outcome = "line"
  <2>1. Lines(<<>>, st.seen.unread, st.seen.lines, st.seen.line) /\ st.seen.owner = "none"
    BY <1>5, <1>6 DEF LoopOK
  <2>2. LineOK(<<>>, z, rd2)
    BY <1>4, <1>6, <2>1, NoReader DEF LineOK
  <2>3. <<>> \in Seq(Chars)
    OBVIOUS
  <2>4. QED
    BY <2>2, <2>3
<1>7. CASE st.outcome \in {"wait", "full"}
  <2>1. PICK p \in Seq(Chars) : Lines(p, st.seen.unread, st.seen.lines, st.seen.line) /\ Open(st, p, s0, n0, r)
    BY <1>5, <1>7 DEF LoopOK
  <2>2. \/ z.owner = st.seen.owner /\ rd2[r].pc = "reading"
           /\ rd2[r].string = st.string /\ rd2[r].n = st.n
        \/ z.owner = IF st.seen.owner = r THEN "several" ELSE st.seen.owner
    BY <1>4, <1>7 DEF pc_after
  <2>3. QED
    BY <1>4, <1>5, <2>1, <2>2, StillReadable
<1>8. QED
  BY <1>5, <1>6, <1>7

-----------------------------------------------------------------------------
\* What a call of cons_read does between two sleeps.
LEMMA ReadStep ==
    ASSUME IInv, NEW r \in Reader, NEW string \in Seq(0..255), NEW n \in 0..Len(string),
           Reading(r, string, n), reads(r, string, n)
    PROVE  IInv'
<1>1. Agrees(tty, seen) /\ Readable(seen, reader) /\ ReadersOK /\ ReadReturnsLine
  BY DEF IInv
<1>2. PICK st0 : st0 = call(tty.keyboard_buffer, tty.index_read, string, n, seen, "reads")
  OBVIOUS
<1>3. LoopOK(st0, tty.index_write, seen, n, r)
  BY <1>1, <1>2, LoopStarts
<1>4. PICK st : st = read_loop(st0, r)
  OBVIOUS
<1>5. LoopOK(st, tty.index_write, seen, n, r) /\ st.outcome \in {"wait", "full", "line", "forever"}
  BY <1>3, <1>4, LoopDone
<1>6. PICK whole \in BOOLEAN : whole <=> Whole(st, seen, r, n)
  OBVIOUS
<1>7. PICK line : line = IF whole THEN Head(seen.lines) ELSE <<>>
  OBVIOUS
<1>8. /\ tty' = advanced(tty, st) /\ seen' = seen_after(st, r)
      /\ reader' = [reader EXCEPT ![r] = [pc |-> pc_after(st.outcome), string |-> st.string, n |-> st.n,
                                          whole |-> whole, line |-> line]]
      /\ UNCHANGED <<session, used, held, wire, drv>>
  <2>1. (Own(seen, r, n) /\ st.outcome = "line" /\ st.seen.lost = "no") = whole
    BY <1>6 DEF Whole
  <2>2. QED
    BY <1>2, <1>4, <1>7, <2>1 DEF reads, call, Own, advanced, seen_after
<1>9. /\ reader'[r].pc = pc_after(st.outcome) /\ reader'[r].string = st.string /\ reader'[r].n = st.n
      /\ reader'[r].whole = whole /\ reader'[r].line = line
      /\ Others(reader, reader', r) /\ DOMAIN reader' = Reader /\ reader' = [q \in Reader |-> reader'[q]]
  BY <1>1, <1>8 DEF ReadersOK, Others
<1>10. st \in CallSet /\ st.seen \in SeenSet /\ st.string \in Seq(0..255) /\ st.n \in Nat
       /\ st.n <= Len(st.string) /\ Len(st.string) \in Nat
  BY <1>5, CallTyped DEF LoopOK
<1>11. Agrees(tty', seen')
  <2>1. Agrees(tty', st.seen)
    BY <1>1, <1>5, <1>8, ReadAgrees
  <2>2. CASE st.outcome = "full"
    <3>1. PICK z : z = leaves(st.seen, r)
      OBVIOUS
    <3>2. Agrees(tty', z)
      BY <1>10, <2>1, <3>1, Leaves, SameAgrees
    <3>3. QED
      BY <1>8, <2>2, <3>1, <3>2 DEF seen_after
  <2>3. CASE st.outcome # "full"
    BY <1>8, <2>1, <2>3 DEF seen_after
  <2>4. QED
    BY <2>2, <2>3
<1>12. Readable(seen', reader')
  BY <1>1, <1>5, <1>8, <1>9, ReadLeaves
<1>13. ReadersOK'
  <2>1. st.n \in 0..Len(st.string)
    BY <1>10
  <2>2. QED
    BY <1>1, <1>9, <1>10, <2>1 DEF ReadersOK, Others
<1>14. ReadReturnsLine'
  <2>1. ASSUME whole PROVE SubSeq(st.string, 1, st.n) = line
    BY <1>5, <1>6, <1>7, <2>1 DEF LoopOK, Whole
  <2>2. QED
    BY <1>1, <1>9, <2>1 DEF ReadReturnsLine, Others
<1>15. QED
  BY <1>8, <1>11, <1>12, <1>13, <1>14 DEF IInv, KeysOK, WireOK

-----------------------------------------------------------------------------
(* The invariant holds *)

\* The driver after kbd_init.
LEMMA DriverStarts == DriverOK(kbd_init) /\ Quiet(kbd_init, {}) /\ HeldOK({})
<1>1. \A v \in Modifier : holders({}, v) = {}
  BY DEF holders
<1>2. Cardinality({}) = 0 /\ IsFiniteSet({})
  BY FS_EmptySet
<1>3. kbd_init \in DriverSet
  BY DEF kbd_init, DriverSet
<1>4. /\ kbd_init.key_down = {} /\ kbd_init.npadch = -1 /\ kbd_init.shift_state = {} /\ kbd_init.prev = 0
      /\ \A v \in Modifier : kbd_init.k_down[v] = 0
  BY DEF kbd_init
<1>5. codes({}) = {}
  BY DEF codes
<1>6. QED
  BY <1>1, <1>2, <1>3, <1>4, <1>5 DEF DriverOK, Quiet, HeldOK

\* A cleared screen is a screen.
LEMMA Cleared == clear_screen \in Screen
<1>1. NUMBER_LINE \in Nat \ {0} /\ NUMBER_COLUMN \in Nat \ {0}
  BY ScreenAssumption
<1>2. QED
  BY <1>1 DEF clear_screen, Screen, Blank

\* The invariant holds at the start.
LEMMA Starts == Init => IInv
<1> SUFFICES ASSUME Init PROVE IInv
  OBVIOUS
<1>1. PICK b : b = [i \in Ring |-> 0]
  OBVIOUS
<1>2. tty = [keyboard_buffer |-> b, index_write |-> 0, index_read |-> 0,
             nb_write |-> 0, echo |-> TRUE, screen |-> clear_screen]
  BY <1>1 DEF Init
<1>3. seen = [line |-> <<>>, clean |-> TRUE, unread |-> <<>>, lines |-> <<>>,
              owner |-> "none", deleted |-> FALSE, lost |-> "no"]
  BY DEF Init
<1>4. b \in [Ring -> 0..255] /\ \A i \in Ring : b[i] = 0
  BY <1>1
<1>5. 0 \in Ring /\ 0 \in 0..BUFFER_SIZE
  BY TerminalAssumption DEF Ring
<1>6. tty \in TtySet
  BY <1>2, <1>4, <1>5, Cleared DEF TtySet
<1>7. seen \in SeenSet
  <2>1. <<>> \in Seq(Chars) /\ <<>> \in Seq(Seq(Chars))
    OBVIOUS
  <2>2. QED
    BY <1>3, <2>1 DEF SeenSet
<1>8. RingOK(b, 0, 0, seen)
  <2>1. seen.unread = <<>> /\ Len(<<>>) = 0
    BY <1>3
  <2>2. slot(0, 0) = 0 /\ \A j \in 0..(BUFFER_SIZE - 1) : slot(0, j) \in Ring
    <3>1. \A j \in 0..(BUFFER_SIZE - 1) : j \in 0..BUFFER_SIZE
      BY TerminalAssumption
    <3>2. QED
      BY <1>5, <3>1, Slots
  <2>3. BUFFER_SIZE \in Nat /\ 0..(0 - 1) = {}
    BY TerminalAssumption
  <2>4. QED
    BY <1>4, <2>1, <2>2, <2>3 DEF RingOK
<1>9. DeletionsOK(b, seen)
  BY <1>3, <1>4 DEF DeletionsOK, DEL
<1>10. EchoOK(0, clear_screen, seen)
  <2>1. seen.line = <<>> /\ Len(<<>>) = 0 /\ 1..0 = {}
    BY <1>3
  <2>2. QED
    BY <2>1 DEF EchoOK, Shown
<1>11. Agrees(tty, seen)
  <2>1. tty.keyboard_buffer = b /\ tty.index_read = 0 /\ tty.index_write = 0 /\ tty.nb_write = 0
        /\ tty.screen = clear_screen
    BY <1>2
  <2>2. QED
    BY <1>6, <1>7, <1>8, <1>9, <1>10, <2>1 DEF Agrees
<1>12. Readable(seen, reader)
  <2>1. <<>> \in Seq(Chars)
    OBVIOUS
  <2>2. Lines(<<>>, <<>>, <<>>, <<>>)
    BY <2>1, NoLines
  <2>3. seen.unread = <<>> /\ seen.lines = <<>> /\ seen.line = <<>> /\ seen.owner = "none"
    BY <1>3
  <2>4. LineOK(<<>>, seen, reader)
    BY <2>2, <2>3, NoReader DEF LineOK
  <2>5. QED
    BY <2>1, <2>4 DEF Readable
<1>13. \A r \in Reader : reader[r] = NotReading /\ NotReading.pc = "user"
  BY DEF Init, NotReading
<1>14. ReadersOK /\ ReadReturnsLine
  <2>1. DOMAIN reader = Reader /\ reader = [r \in Reader |-> reader[r]]
    BY DEF Init
  <2>2. QED
    BY <1>13, <2>1 DEF ReadersOK, ReadReturnsLine
<1>15. KeysOK /\ WireOK /\ session \in Session
  BY DriverStarts DEF Init, KeysOK, WireOK
<1>16. QED
  BY <1>11, <1>12, <1>14, <1>15 DEF IInv

\* What is not read is not changed by what arrives.
LEMMA StillLine ==
    ASSUME NEW s, NEW rd, Readable(s, rd), NEW z, Continues(s, z)
    PROVE  Readable(z, rd)
<1>1. SUFFICES ASSUME z.lost = "no" PROVE \E p \in Seq(Chars) : LineOK(p, z, rd)
  BY DEF Readable
<1>2. /\ s.lost = "no" /\ z.owner = s.owner
      /\ \A p : Lines(p, s.unread, s.lines, s.line) => Lines(p, z.unread, z.lines, z.line)
  BY <1>1 DEF Continues
<1>3. PICK p \in Seq(Chars) : LineOK(p, s, rd)
  BY <1>2 DEF Readable
<1>4. LineOK(p, z, rd)
  BY <1>2, <1>3 DEF LineOK
<1>5. QED
  BY <1>4

\* The driver hears a byte and sends its characters.
LEMMA InterruptStep == IInv /\ KeyboardInterrupt => IInv'
<1> SUFFICES ASSUME IInv, KeyboardInterrupt PROVE IInv'
  OBVIOUS
<1>1. /\ held \in SUBSET Key /\ HeldOK(held) /\ DriverOK(drv) /\ Agrees(tty, seen)
      /\ Readable(seen, reader) /\ ReadersOK /\ ReadReturnsLine /\ session \in Session
  BY DEF IInv, KeysOK
<1>2. wire # <<>> /\ wire' = Tail(wire) /\ UNCHANGED <<session, held, reader>>
  BY DEF KeyboardInterrupt
<1>3. Told(drv, held, wire) /\ wire \in Seq(Bytes)
  BY <1>2 DEF IInv, WireOK, Told
<1>4. PICK r : /\ r = do_scancode(drv, Head(wire)) /\ drv' = r.drv
               /\ tty' = keyboard_data(tty, r.out) /\ seen' = all_typed(seen, r.out, tty.echo)
  BY DEF KeyboardInterrupt
<1>5. DriverOK(r.drv) /\ r.out \in Seq(Chars) /\ Told(r.drv, held, Tail(wire))
  BY <1>1, <1>2, <1>3, <1>4, ByteHeard
<1>6. PICK str \in Seq(Chars) : str = r.out
  BY <1>5
<1>7. Agrees(tty', seen') /\ Continues(seen, seen')
  BY <1>1, <1>4, <1>6, StringArrives
<1>8. Readable(seen', reader)
  BY <1>1, <1>7, StillLine
<1>9. QED
  BY <1>1, <1>2, <1>4, <1>5, <1>7, <1>8 DEF IInv, KeysOK, WireOK, ReadersOK, ReadReturnsLine

\* The keyboard tells the driver.
LEMMA KeyStep ==
    ASSUME IInv, wire = <<>>, NEW k \in Key, NEW down \in BOOLEAN, down <=> k \in held,
           NEW after \in BOOLEAN, wire' \in Seq(Bytes),
           delivery(k, wire', down) = [prev |-> 0, down |-> after, good |-> TRUE],
           held' \in SUBSET Key, held' \ {k} = held \ {k}, k \in held' <=> after, HeldOK(held'),
           UNCHANGED <<session, drv, tty, reader, seen>>
    PROVE  IInv'
<1>1. held \in SUBSET Key /\ DriverOK(drv)
  BY DEF IInv, KeysOK
<1>2. Quiet(drv, held)
  BY <1>1, NowQuiet DEF IInv, WireOK
<1>3. Told(drv, held', wire')
  <2>1. PICK w \in Seq(Bytes) : w = wire'
    OBVIOUS
  <2>2. PICK h2 \in SUBSET Key : h2 = held'
    OBVIOUS
  <2>3. delivery(k, w, down) = [prev |-> 0, down |-> after, good |-> TRUE]
    BY <2>1
  <2>4. h2 \ {k} = held \ {k} /\ (k \in h2 <=> after)
    BY <2>2
  <2>5. Told(drv, h2, w)
    BY <1>1, <1>2, <2>3, <2>4, KeySends
  <2>6. QED
    BY <2>1, <2>2, <2>5
<1>4. QED
  BY <1>1, <1>3 DEF IInv, KeysOK, WireOK, ReadersOK, ReadReturnsLine

\* What a keyboard sends.
LEMMA KeyboardSends ==
    ASSUME NEW k \in Key
    PROVE  /\ makes[k] \subseteq Seq(Bytes) /\ breaks[k] \subseteq Seq(Bytes)
           /\ \A bytes \in makes[k], down \in BOOLEAN : (down => breaks[k] # {}) =>
                 delivery(k, bytes, down) = [prev |-> 0, down |-> breaks[k] # {}, good |-> TRUE]
           /\ \A bytes \in breaks[k] :
                 delivery(k, bytes, TRUE) = [prev |-> 0, down |-> FALSE, good |-> TRUE]
  BY TerminalAssumption DEF Bytes

\* A key goes down.
LEMMA PressStep == ASSUME IInv, NEW k \in Key, KeyPress(k) PROVE IInv'
<1>1. /\ wire = <<>> /\ UNCHANGED <<session, used, drv, tty, reader, seen>>
      /\ k \notin held /\ held' = (IF breaks[k] = {} THEN held ELSE held \union {k}) /\ wire' \in makes[k]
  BY DEF KeyPress, types
<1>2. PICK down \in BOOLEAN : down = FALSE
  OBVIOUS
<1>3. PICK after \in BOOLEAN : after = (breaks[k] # {})
  OBVIOUS
<1>4. wire' \in Seq(Bytes) /\ delivery(k, wire', down) = [prev |-> 0, down |-> after, good |-> TRUE]
  BY <1>1, <1>2, <1>3, KeyboardSends
<1>5. held \in SUBSET Key /\ HeldOK(held)
  BY DEF IInv, KeysOK
<1>6. held' \in SUBSET Key /\ held' \ {k} = held \ {k} /\ (k \in held' <=> after) /\ HeldOK(held')
  BY <1>1, <1>3, <1>5 DEF HeldOK
<1>7. QED
  BY <1>1, <1>2, <1>4, <1>6, KeyStep

\* A key repeats.
LEMMA RepeatStep == ASSUME IInv, NEW k \in Key, KeyRepeat(k) PROVE IInv'
<1>1. /\ wire = <<>> /\ UNCHANGED <<session, used, drv, tty, reader, seen>>
      /\ k \in held /\ held' = held /\ wire' \in makes[k]
  BY DEF KeyRepeat, types
<1>2. held \in SUBSET Key /\ HeldOK(held)
  BY DEF IInv, KeysOK
<1>3. breaks[k] # {}
  BY <1>1, <1>2 DEF HeldOK
<1>4. PICK down \in BOOLEAN : down = TRUE
  OBVIOUS
<1>5. wire' \in Seq(Bytes) /\ delivery(k, wire', down) = [prev |-> 0, down |-> down, good |-> TRUE]
  BY <1>1, <1>3, <1>4, KeyboardSends
<1>6. QED
  BY <1>1, <1>2, <1>4, <1>5, KeyStep

\* A key goes up.
LEMMA ReleaseStep == ASSUME IInv, NEW k \in Key, KeyRelease(k) PROVE IInv'
<1>1. /\ wire = <<>> /\ UNCHANGED <<session, used, drv, tty, reader, seen>>
      /\ k \in held /\ held' = held \ {k} /\ wire' \in breaks[k]
  BY DEF KeyRelease
<1>2. held \in SUBSET Key /\ HeldOK(held)
  BY DEF IInv, KeysOK
<1>3. PICK down \in BOOLEAN : down = TRUE
  OBVIOUS
<1>4. PICK after \in BOOLEAN : after = FALSE
  OBVIOUS
<1>5. wire' \in Seq(Bytes) /\ delivery(k, wire', down) = [prev |-> 0, down |-> after, good |-> TRUE]
  BY <1>1, <1>3, <1>4, KeyboardSends
<1>6. held' \in SUBSET Key /\ held' \ {k} = held \ {k} /\ (k \in held' <=> after) /\ HeldOK(held')
  BY <1>1, <1>2, <1>4 DEF HeldOK
<1>7. QED
  BY <1>1, <1>3, <1>5, <1>6, KeyStep

\* A call of cons_read.
LEMMA ConsReadStep == ASSUME IInv, NEW r \in Reader, NEW length \in Length, ConsRead(r, length) PROVE IInv'
<1>1. length \in Nat
  BY TerminalAssumption
<1>2. PICK string \in Seq(0..255) : string = [i \in 1..length |-> 0]
  <2>1. [i \in 1..length |-> 0] \in Seq(0..255)
    BY <1>1
  <2>2. QED
    BY <2>1
<1>3. 0 \in 0..Len(string)
  BY Elements
<1>4. reads(r, string, 0) /\ Reading(r, string, 0)
  BY <1>2 DEF ConsRead, Reading
<1>5. QED
  BY <1>3, <1>4, ReadStep

\* A reader wakes up.
LEMMA PollStep == ASSUME IInv, NEW r \in Reader, Poll(r) PROVE IInv'
<1>1. reader[r].pc = "reading" /\ reads(r, reader[r].string, reader[r].n)
  BY DEF Poll
<1>2. reader[r].string \in Seq(0..255) /\ reader[r].n \in 0..Len(reader[r].string)
  BY <1>1 DEF IInv, ReadersOK
<1>3. PICK string \in Seq(0..255) : string = reader[r].string
  BY <1>2
<1>4. PICK n \in 0..Len(string) : n = reader[r].n
  BY <1>2, <1>3
<1>5. reads(r, string, n) /\ Reading(r, string, n)
  BY <1>1, <1>3, <1>4 DEF Reading
<1>6. QED
  BY <1>5, ReadStep

\* r reads no more, and owns no line.
LEMMA GoneStep ==
    ASSUME IInv, NEW r \in Reader, NEW z \in SeenSet,
           z.line = seen.line, z.clean = seen.clean, z.unread = seen.unread, z.lines = seen.lines,
           z.deleted = seen.deleted, z.lost = seen.lost,
           z.owner = seen.owner \/ z.owner = "several", z.lost = "no" => z.owner # r,
           seen' = z, reader' = [reader EXCEPT ![r] = NotReading],
           UNCHANGED <<session, held, wire, drv, tty>>
    PROVE  IInv'
<1>1. /\ Agrees(tty, seen) /\ Readable(seen, reader) /\ ReadersOK /\ ReadReturnsLine
  BY DEF IInv
<1>2. /\ reader'[r].pc = "user" /\ Others(reader, reader', r)
      /\ DOMAIN reader' = Reader /\ reader' = [q \in Reader |-> reader'[q]]
  BY <1>1 DEF ReadersOK, Others, NotReading
<1>3. Agrees(tty, z)
  BY <1>1, SameAgrees
<1>4. Readable(z, reader')
  <2>1. SUFFICES ASSUME z.lost = "no" PROVE \E p \in Seq(Chars) : LineOK(p, z, reader')
    BY DEF Readable
  <2>2. PICK p \in Seq(Chars) : LineOK(p, seen, reader)
    BY <1>1, <2>1 DEF Readable
  <2>3. z.owner = "none" => seen.owner = "none"
    OBVIOUS
  <2>4. ASSUME NEW q \in Reader, z.owner = q PROVE q # r /\ seen.owner = q
    BY <2>1, <2>4, NoReader
  <2>5. LineOK(p, z, reader')
    BY <1>2, <2>2, <2>3, <2>4 DEF LineOK, Others
  <2>6. QED
    BY <2>5
<1>5. ReadersOK' /\ ReadReturnsLine'
  BY <1>1, <1>2 DEF ReadersOK, ReadReturnsLine, Others
<1>6. QED
  BY <1>3, <1>4, <1>5 DEF IInv, KeysOK, WireOK

\* A reader uses what it read.
LEMMA ReturnStep == ASSUME IInv, NEW r \in Reader, Return(r) PROVE IInv'
<1>1. /\ reader[r].pc = "returned" /\ reader' = [reader EXCEPT ![r] = NotReading]
      /\ seen' = seen /\ UNCHANGED <<session, held, wire, drv, tty>>
  BY DEF Return
<1>2. seen \in SeenSet
  BY DEF IInv, Agrees
<1>3. ASSUME seen.lost = "no" PROVE seen.owner # r
  <2>1. PICK p \in Seq(Chars) : LineOK(p, seen, reader)
    BY <1>3 DEF IInv, Readable
  <2>2. QED
    BY <1>1, <2>1 DEF LineOK
<1>4. QED
  BY <1>1, <1>2, <1>3, GoneStep

\* A reader is killed in the middle of a line, which it leaves to nobody.
LEMMA KilledStep == ASSUME IInv, NEW r \in Reader, Killed(r) PROVE IInv'
<1>1. /\ reader' = [reader EXCEPT ![r] = NotReading]
      /\ seen' = leaves(seen, r) /\ UNCHANGED <<session, held, wire, drv, tty>>
  BY DEF Killed
<1>2. seen \in SeenSet
  BY DEF IInv, Agrees
<1>3. PICK z : z = leaves(seen, r)
  OBVIOUS
<1>4. /\ z \in SeenSet /\ z.line = seen.line /\ z.clean = seen.clean /\ z.unread = seen.unread
      /\ z.lines = seen.lines /\ z.deleted = seen.deleted /\ z.lost = seen.lost
      /\ z.owner = IF seen.owner = r THEN "several" ELSE seen.owner
  BY <1>2, <1>3, Leaves
<1>5. (z.owner = seen.owner \/ z.owner = "several") /\ z.owner # r
  BY <1>4, NoReader
<1>6. QED
  BY <1>1, <1>3, <1>4, <1>5, GoneStep

\* The echo is switched.
LEMMA EchoStep == ASSUME IInv, NEW on \in BOOLEAN, ConsEcho(on) PROVE IInv'
<1>1. tty' = [tty EXCEPT !.echo = on] /\ UNCHANGED <<session, held, wire, drv, reader, seen>>
  BY DEF ConsEcho
<1>2. Agrees(tty, seen)
  BY DEF IInv
<1>3. /\ tty' \in TtySet /\ tty'.keyboard_buffer = tty.keyboard_buffer /\ tty'.index_read = tty.index_read
      /\ tty'.index_write = tty.index_write /\ tty'.nb_write = tty.nb_write /\ tty'.screen = tty.screen
  BY <1>1, <1>2 DEF Agrees, TtySet
<1>4. Agrees(tty', seen)
  BY <1>2, <1>3 DEF Agrees
<1>5. QED
  BY <1>1, <1>4 DEF IInv, KeysOK, WireOK, ReadersOK, ReadReturnsLine

\* A program writes.
LEMMA WriteStep == ASSUME IInv, NEW str \in Output, ConsWrite(str) PROVE IInv'
<1>1. /\ tty' = [tty EXCEPT !.screen = cons_write(@, str)]
      /\ seen' = [seen EXCEPT !.clean = @ /\ seen.line = <<>>]
      /\ UNCHANGED <<session, held, wire, drv, reader>>
  BY DEF ConsWrite
<1>2. Agrees(tty, seen) /\ tty \in TtySet /\ seen \in SeenSet
  BY DEF IInv, Agrees
<1>3. PICK scr \in Screen : scr = cons_write(tty.screen, str)
  <2>1. tty.screen \in Screen /\ str \in Seq(0..255)
    BY <1>2, TtyFields, TerminalAssumption
  <2>2. QED
    BY <2>1, WriteType
<1>4. tty' = [tty EXCEPT !.screen = scr]
  BY <1>1, <1>3
<1>5. /\ tty' \in TtySet /\ tty'.keyboard_buffer = tty.keyboard_buffer /\ tty'.index_read = tty.index_read
      /\ tty'.index_write = tty.index_write /\ tty'.nb_write = tty.nb_write /\ tty'.screen = scr
  BY <1>2, <1>4 DEF TtySet
<1>6. PICK clean \in BOOLEAN : clean <=> seen.clean /\ seen.line = <<>>
  OBVIOUS
<1>7. seen' = [seen EXCEPT !.clean = clean]
  <2>1. seen.clean \in BOOLEAN
    BY <1>2, SeenFields
  <2>2. (seen.clean /\ seen.line = <<>>) = clean
    BY <1>6, <2>1
  <2>3. QED
    BY <1>1, <2>2
<1>8. PICK z : z = seen'
  OBVIOUS
<1>9. /\ z \in SeenSet /\ z.line = seen.line /\ z.clean = clean /\ z.unread = seen.unread
      /\ z.lines = seen.lines /\ z.owner = seen.owner /\ z.deleted = seen.deleted /\ z.lost = seen.lost
  BY <1>2, <1>7, <1>8 DEF SeenSet
<1>10. EchoOK(tty'.nb_write, tty'.screen, z)
  <2>1. tty'.nb_write = Len(z.line)
    BY <1>2, <1>5, <1>9 DEF Agrees, EchoOK
  <2>2. ASSUME z.clean PROVE Shown(scr, z.line)
    <3>1. z.line = <<>> /\ Len(<<>>) = 0 /\ 1..0 = {}
      BY <1>6, <1>9, <2>2
    <3>2. QED
      BY <3>1 DEF Shown
  <2>3. QED
    BY <1>5, <2>1, <2>2 DEF EchoOK
<1>11. Agrees(tty', z)
  <2>1. RingOK(tty'.keyboard_buffer, tty'.index_read, tty'.index_write, z)
    BY <1>2, <1>5, <1>9 DEF Agrees, RingOK
  <2>2. DeletionsOK(tty'.keyboard_buffer, z)
    BY <1>2, <1>5, <1>9 DEF Agrees, DeletionsOK
  <2>3. QED
    BY <1>5, <1>9, <1>10, <2>1, <2>2 DEF Agrees
<1>12. Readable(z, reader)
  <2>1. Readable(seen, reader)
    BY DEF IInv
  <2>2. QED
    BY <1>9, <2>1 DEF Readable, LineOK
<1>13. QED
  BY <1>1, <1>8, <1>11, <1>12 DEF IInv, KeysOK, WireOK, ReadersOK, ReadReturnsLine

\* Every step preserves the invariant.
LEMMA Steps == IInv /\ [Next]_vars => IInv'
<1> SUFFICES ASSUME IInv, [Next]_vars PROVE IInv'
  OBVIOUS
<1>1. session.keys \subseteq Key
  BY TerminalAssumption DEF IInv
<1>2. CASE KeyboardInterrupt
  BY <1>2, InterruptStep
<1>3. ASSUME NEW k \in session.keys, KeyPress(k) PROVE IInv'
  BY <1>1, <1>3, PressStep
<1>4. ASSUME NEW k \in session.keys, KeyRepeat(k) PROVE IInv'
  BY <1>1, <1>4, RepeatStep
<1>5. ASSUME NEW k \in session.keys, KeyRelease(k) PROVE IInv'
  BY <1>1, <1>5, ReleaseStep
<1>6. ASSUME NEW r \in Reader, NEW length \in Length, ConsRead(r, length) PROVE IInv'
  BY <1>6, ConsReadStep
<1>7. ASSUME NEW r \in Reader, Poll(r) PROVE IInv'
  BY <1>7, PollStep
<1>8. ASSUME NEW r \in Reader, Return(r) PROVE IInv'
  BY <1>8, ReturnStep
<1>9. ASSUME NEW r \in Reader, Killed(r) PROVE IInv'
  BY <1>9, KilledStep
<1>10. ASSUME NEW on \in BOOLEAN, ConsEcho(on) PROVE IInv'
  BY <1>10, EchoStep
<1>11. ASSUME NEW str \in Output, ConsWrite(str) PROVE IInv'
  BY <1>11, WriteStep
<1>12. CASE UNCHANGED vars
  BY <1>12 DEF vars, IInv, KeysOK, WireOK, ReadersOK, ReadReturnsLine
<1>13. QED
  BY <1>2, <1>3, <1>4, <1>5, <1>6, <1>7, <1>8, <1>9, <1>10, <1>11, <1>12 DEF Next

\* The invariant holds always.
LEMMA Invariance == Spec => []IInv
  BY Starts, Steps, PTL DEF Spec

-----------------------------------------------------------------------------

\* Whatever keys are pressed, repeated and released, and whatever maps exist, no modifier
\* sticks (keyboard.c:741-777): the driver knows the keys held when it has read all bytes.
THEOREM ModifiersMatch == Spec => []ModifiersMatchKeys
<1>1. ASSUME IInv PROVE ModifiersMatchKeys
  <2>1. SUFFICES ASSUME wire = <<>>
                 PROVE  /\ drv.prev = 0 /\ drv.key_down = {keycodes[k] : k \in held}
                        /\ drv.shift_state = {v \in Modifier : drv.k_down[v] > 0}
                        /\ \A v \in Modifier : drv.k_down[v] = Cardinality(holders(drv.key_down, v))
    BY DEF ModifiersMatchKeys
  <2>2. held \in SUBSET Key /\ DriverOK(drv)
    BY <1>1 DEF IInv, KeysOK
  <2>3. Quiet(drv, held)
    BY <1>1, <2>1, <2>2, NowQuiet DEF IInv, WireOK
  <2>4. QED
    BY <2>2, <2>3 DEF Quiet, codes, DriverOK
<1>2. QED
  BY <1>1, Invariance, PTL

\* For every size of the ring, what was typed and not read is in it in order, unless too
\* much was typed or a deletion left in the ring was read (kbd.c:35-103).
THEOREM CharactersKept == Spec => []NoCharacterLost
<1>1. ASSUME IInv PROVE NoCharacterLost
  <2>1. /\ tty \in TtySet /\ seen \in SeenSet /\ DeletionsOK(tty.keyboard_buffer, seen)
        /\ RingOK(tty.keyboard_buffer, tty.index_read, tty.index_write, seen)
    BY <1>1 DEF IInv, Agrees
  <2>2. seen.lost = "phantom" => seen.deleted
    BY <2>1 DEF DeletionsOK
  <2>3. ASSUME seen.lost = "no"
        PROVE  LET n == Len(seen.unread)
                   at(i) == (tty.index_read + i - 1) % BUFFER_SIZE
               IN  /\ tty.index_write = (tty.index_read + n) % BUFFER_SIZE
                   /\ \A i \in 1..n : tty.keyboard_buffer[at(i)] = seen.unread[i]
                   /\ \A i \in (n + 1)..BUFFER_SIZE : tty.keyboard_buffer[at(i)] \in {0, DEL}
    <3>1. PICK ir \in Ring : ir = tty.index_read
      BY <2>1, TtyFields
    <3>2. PICK N \in Nat : N = BUFFER_SIZE
      BY TerminalAssumption
    <3>3. PICK n \in 0..N : n = Len(seen.unread)
      <4>1. Len(seen.unread) \in Nat
        BY <2>1, SeenFields, Elements
      <4>2. QED
        BY <2>1, <2>3, <3>2, <4>1 DEF RingOK
    <3>4. /\ tty.index_write = slot(ir, n)
          /\ \A j \in 0..(n - 1) : tty.keyboard_buffer[slot(ir, j)] = seen.unread[j + 1]
          /\ \A j \in n..(N - 1) : tty.keyboard_buffer[slot(ir, j)] \in {0, DEL}
      BY <2>1, <2>3, <3>1, <3>2, <3>3 DEF RingOK
    <3>5. \A j \in 0..N : (ir + j) % BUFFER_SIZE = slot(ir, j)
      BY <3>2, SlotMod
    <3>6. ASSUME NEW i \in 1..N
          PROVE  /\ i - 1 \in 0..N /\ (i - 1) + 1 = i
                 /\ (ir + i - 1) % BUFFER_SIZE = slot(ir, i - 1)
      <4>1. i - 1 \in 0..N /\ (i - 1) + 1 = i
        OBVIOUS
      <4>2. ir + i - 1 = ir + (i - 1)
        BY <3>2 DEF Ring
      <4>3. QED
        BY <3>5, <4>1, <4>2
    <3>7. \A i \in 1..n : i \in 1..N /\ i - 1 \in 0..(n - 1)
      OBVIOUS
    <3>8. \A i \in (n + 1)..N : i \in 1..N /\ i - 1 \in n..(N - 1)
      OBVIOUS
    <3>9. tty.index_write = (ir + n) % BUFFER_SIZE
      BY <3>4, <3>5
    <3>10. ASSUME NEW i \in 1..n PROVE tty.keyboard_buffer[(ir + i - 1) % BUFFER_SIZE] = seen.unread[i]
      BY <3>4, <3>6, <3>7
    <3>11. ASSUME NEW i \in (n + 1)..N PROVE tty.keyboard_buffer[(ir + i - 1) % BUFFER_SIZE] \in {0, DEL}
      BY <3>4, <3>6, <3>8
    <3>12. QED
      BY <3>1, <3>2, <3>3, <3>9, <3>10, <3>11
  <2>4. QED
    BY <2>2, <2>3 DEF NoCharacterLost
<1>2. QED
  BY <1>1, Invariance, PTL

\* A process that read a whole line got the line that was on the screen, however it was
\* edited, wherever the process slept and whoever else read or died (kbd.c:35-63).
THEOREM LinesReturned == Spec => []ReadReturnsLine
<1>1. IInv => ReadReturnsLine
  BY DEF IInv
<1>2. QED
  BY <1>1, Invariance, PTL

\* The line is on the screen before the cursor, for every size of the screen, and nb_write
\* counts its characters (kbd.c:82-99, cga.c:85-131).
THEOREM LineShown == Spec => []EchoShowsLine
<1>1. ASSUME IInv PROVE EchoShowsLine
  <2>1. tty \in TtySet /\ EchoOK(tty.nb_write, tty.screen, seen)
    BY <1>1 DEF IInv, Agrees
  <2>2. QED
    BY <2>1, TtyFields DEF EchoShowsLine, EchoOK, Shown
<1>2. QED
  BY <1>1, Invariance, PTL
=============================================================================
