------------------------------ MODULE Terminal ------------------------------
(***************************************************************************)
(* From the keys to the programs: the keyboard driver (Keyboard), the ring *)
(* buffer and cons_read of kernel/kbd.c, and the echo on the screen        *)
(* (Console).                                                              *)
(*                                                                         *)
(* wire holds the bytes of the keyboard controller; each is an interrupt.  *)
(* cons_read runs without interruption until it finds no character, then   *)
(* sleeps until the next clock interrupt: Poll is what it does between two *)
(* sleeps.  A program that reads may be killed while it sleeps.            *)
(*                                                                         *)
(* seen is what the user knows and the code does not keep: the line on the *)
(* screen, the lines entered and not read yet, the characters not read.    *)
(***************************************************************************)
EXTENDS Keyboard, Console

CONSTANTS
    BUFFER_SIZE,
    Reader,     \* processes that read
    Urgent,     \* those of them that no other process is more urgent than, at any time
    Length,     \* lengths passed to cons_read
    Output,     \* strings written by programs
    Key,        \* physical keys
    makes,      \* key -> the byte sequences it may send when pressed or repeated
    breaks,     \* key -> the byte sequences it may send when released
    keycodes,   \* key -> its keycode
    Session,    \* bounds on a behaviour: see Init
    MaxPad      \* bound on the code typed on the pad

\* What a byte of key k does: the prefix it leaves, whether the driver takes k to be down
\* after it, and whether it and those before it (a) name no other key and release k only
\* when it is down.
delivered(k, a, byte) ==
    LET t == kbd_translate(a.prev, byte)
    IN  [prev |-> t.prev,
         down |-> IF t.keycode = 0 THEN a.down ELSE byte < 128,
         good |-> /\ a.good /\ t.keycode \in {0, keycodes[k]}
                  /\ t.keycode # 0 /\ byte >= 128 => a.down]

\* What the bytes of key k do, which the driver takes to be down or not.
delivery(k, bytes, down) ==
    through(LAMBDA a, byte : delivered(k, a, byte), [prev |-> 0, down |-> down, good |-> TRUE], bytes)

\* A keyboard says which key was pressed, repeated or released, and nothing else.  A key
\* that sends nothing when it is released (Pause) releases itself.
ASSUME TerminalAssumption ==
    /\ BUFFER_SIZE \in Nat \ {0} /\ Length \subseteq Nat \ {0}
    /\ MaxPad \in Nat /\ Output \subseteq Seq(0..255)
    /\ {"none", "several"} \intersect Reader = {}
    /\ keycodes \in [Key -> Mapped \ {0}]
    /\ \A s \in Session : s.keys \subseteq Key
    /\ \A k, j \in Key : keycodes[k] = keycodes[j] => k = j
    /\ \A k \in Key :
          /\ makes[k] \subseteq Seq(1..254) /\ breaks[k] \subseteq Seq(1..254)
          /\ \A bytes \in makes[k], down \in BOOLEAN : (down => breaks[k] # {}) =>
                delivery(k, bytes, down) = [prev |-> 0, down |-> breaks[k] # {}, good |-> TRUE]
          /\ \A bytes \in breaks[k] :
                delivery(k, bytes, TRUE) = [prev |-> 0, down |-> FALSE, good |-> TRUE]

ASSUME UrgentAssumption == Urgent \subseteq Reader

VARIABLES
    session,    \* the bounds of this behaviour
    used,       \* how much of them was used: characters typed, strings written
    held,       \* keys held by the user
    wire,       \* bytes the interrupt handler has not read
    drv,        \* the driver's variables
    tty,        \* the variables of kbd.c, and the screen
    reader,     \* the locals of each process's cons_read
    seen

vars == <<session, used, held, wire, drv, tty, reader, seen>>

Ring == 0..(BUFFER_SIZE - 1)
next(i) == IF i = BUFFER_SIZE - 1 THEN 0 ELSE i + 1

NotReading == [pc |-> "user", string |-> <<>>, n |-> 0, whole |-> FALSE, line |-> <<>>]

Init ==
    /\ session \in Session
    /\ used = [chars |-> 0, writes |-> 0]
    /\ held = {}
    /\ wire = <<>>
    /\ drv = kbd_init
    /\ tty = [keyboard_buffer |-> [i \in Ring |-> 0], index_write |-> 0, index_read |-> 0,
              nb_write |-> 0, echo |-> TRUE, screen |-> clear_screen]
    /\ reader = [r \in Reader |-> NotReading]
    /\ seen = [line |-> <<>>, clean |-> TRUE,     \* the line and whether only it was echoed
               unread |-> <<>>, lines |-> <<>>,   \* characters and lines not read
               owner |-> "none",                  \* who reads the first of these lines
               deleted |-> FALSE, lost |-> "no"]

-----------------------------------------------------------------------------
(* What the user knows *)

\* From now on what is read has nothing to do with what was typed.
loses(s, why) == [s EXCEPT !.lost = why, !.unread = <<>>, !.lines = <<>>, !.owner = "none"]

queued(s, c) ==
    IF s.lost # "no" THEN s
    ELSE IF Len(s.unread) = BUFFER_SIZE THEN loses(s, "overrun")
    ELSE [s EXCEPT !.unread = Append(@, c),
                   !.lines = IF c = CR THEN Append(@, s.line) ELSE @]

typed(s, c, echo) ==
    LET q == queued(s, c)
    IN  CASE c = CR  -> [q EXCEPT !.line = <<>>, !.clean = TRUE]
          [] c = DEL -> [q EXCEPT !.deleted = TRUE,
                                  !.line = IF @ = <<>> THEN @ ELSE SubSeq(@, 1, Len(@) - 1),
                                  !.clean = @ /\ (echo \/ s.line = <<>>)]
          [] OTHER   -> [q EXCEPT !.line = Append(@, c),
                                  !.clean = @ /\ echo /\ c \notin {BS, TAB, LF, FF}]

all_typed(s, str, echo) == through(LAMBDA x, c : typed(x, c, echo), s, str)

\* Reader r, which has n characters of its line, takes one out of the ring.
taken(s, r, n, c) ==
    IF s.lost # "no" THEN s
    ELSE IF s.unread = <<>> THEN loses(s, "phantom")
    ELSE [s EXCEPT !.unread = Tail(@),
                   !.lines = IF c = CR THEN Tail(@) ELSE @,
                   !.owner = CASE c = CR -> "none"
                               [] c # CR /\ (@ = r \/ (@ = "none" /\ n = 0)) -> r
                               [] OTHER -> "several"]

\* Reader r goes away in the middle of a line.
leaves(s, r) == [s EXCEPT !.owner = IF @ = r THEN "several" ELSE @]

-----------------------------------------------------------------------------
(* The keyboard interrupt *)

echoed(t, str) == IF t.echo THEN cons_write(t.screen, str) ELSE t.screen

\* One turn of the loop of keyboard_data.
receive(t, c) ==
    LET stored == [t EXCEPT !.keyboard_buffer[t.index_write] = c, !.index_write = next(@)]
    IN  CASE c = CR -> [stored EXCEPT !.nb_write = 0, !.screen = echoed(t, <<CR, LF>>)]
          [] c = DEL -> IF t.nb_write = 0 THEN stored
                        ELSE [stored EXCEPT !.nb_write = @ - 1, !.screen = echoed(t, <<DEL>>)]
          [] OTHER -> [stored EXCEPT !.nb_write = @ + 1, !.screen = echoed(t, <<c>>)]

keyboard_data(t, str) == through(receive, t, str)

KeyboardInterrupt ==
    /\ wire # <<>>
    /\ wire' = Tail(wire)
    /\ \E r \in {do_scancode(drv, Head(wire))} :
           /\ drv' = r.drv
           /\ tty' = keyboard_data(tty, r.out)
           /\ seen' = all_typed(seen, r.out, tty.echo)
           /\ used' = [used EXCEPT !.chars = @ + Len(r.out)]
    /\ UNCHANGED <<session, held, reader>>

-----------------------------------------------------------------------------
(* The user's fingers: a key that is held repeats. *)

types ==
    /\ wire = <<>>
    /\ used.chars < session.chars
    /\ drv.npadch <= MaxPad
    /\ UNCHANGED <<session, used, drv, tty, reader, seen>>

KeyPress(k) ==
    /\ types
    /\ k \notin held /\ Cardinality(held) < session.held
    /\ held' = IF breaks[k] = {} THEN held ELSE held \union {k}
    /\ wire' \in makes[k]

KeyRepeat(k) ==
    /\ types
    /\ k \in held
    /\ wire' \in makes[k]
    /\ UNCHANGED held

KeyRelease(k) ==
    /\ wire = <<>>
    /\ k \in held
    /\ held' = held \ {k}
    /\ wire' \in breaks[k]
    /\ UNCHANGED <<session, used, drv, tty, reader, seen>>

-----------------------------------------------------------------------------
(* cons_read *)

\* A character is read at index: st holds the ring, the locals of the call and seen.
passes(st, r, c) == [st EXCEPT !.index = next(@), !.seen = taken(@, r, st.n, c)]

\* Mutated form: the end of the line stays in the ring.
end_line_not_cleared(st, r) == [passes(st, r, CR) EXCEPT !.outcome = "line"]
end_line(st, r) == [passes(st, r, CR) EXCEPT !.buffer[st.index] = 0, !.outcome = "line"]

\* A deletion stays in the ring, so a ring full of them is read around and around.
\* Mutated forms: what was read is kept; a deletion of nothing is not passed.
delete_keeps(st, r) ==
    IF \A i \in Ring : st.buffer[i] = DEL
    THEN [st EXCEPT !.outcome = "forever", !.seen = loses(@, "phantom")]
    ELSE [passes(st, r, DEL) EXCEPT !.string[st.n + 1] = 0]
delete_waits(st, r) ==
    IF st.n = 0 THEN [st EXCEPT !.outcome = "wait"]
    ELSE [passes(st, r, DEL) EXCEPT !.string[st.n + 1] = 0, !.n = @ - 1]
delete(st, r) ==
    IF \A i \in Ring : st.buffer[i] = DEL
    THEN [st EXCEPT !.outcome = "forever", !.seen = loses(@, "phantom")]
    ELSE [passes(st, r, DEL) EXCEPT !.string[st.n + 1] = 0, !.n = IF @ > 0 THEN @ - 1 ELSE @]

store(st, r, c) ==
    [passes(st, r, c) EXCEPT !.string[st.n + 1] = c, !.n = @ + 1, !.buffer[st.index] = 0]

\* One turn of the loop of cons_read.
read_char(st, r) ==
    LET c == st.buffer[st.index]
    IN  IF st.n = Len(st.string) THEN [st EXCEPT !.outcome = "full"]
        ELSE IF c = 0   THEN [st EXCEPT !.outcome = "wait"]
        ELSE IF c = CR  THEN end_line(st, r)
        ELSE IF c = DEL THEN delete(st, r)
        ELSE store(st, r, c)

read_on(st, r) == IF st.outcome = "reads" THEN read_char(st, r) ELSE st

\* Within one lap a character is taken out of the ring, and a lap later its slot is
\* empty, or the ring holds deletions only.
MAX_TURNS == 2 * BUFFER_SIZE

read_loop(st, r) ==
    LET after[i \in 0..MAX_TURNS] ==
            IF i = 0 THEN st ELSE apply(LAMBDA s : read_on(s, r), after[i - 1])
    IN  after[MAX_TURNS]

\* What a process does after a loop that ended so.
pc_after(outcome) ==
    CASE outcome = "wait"    -> "reading"
      [] outcome = "forever" -> "forever"
      [] OTHER               -> "returned"

\* cons_read from where it is until it sleeps or returns.
reads(r, string, n) ==
    \E st \in {read_loop([buffer |-> tty.keyboard_buffer, index |-> tty.index_read,
                          string |-> string, n |-> n, seen |-> seen, outcome |-> "reads"], r)} :
    LET whole == /\ seen.owner = r \/ (seen.owner = "none" /\ n = 0)
                 /\ st.outcome = "line" /\ st.seen.lost = "no"
    IN  /\ tty' = [tty EXCEPT !.keyboard_buffer = st.buffer, !.index_read = st.index]
        /\ reader' = [reader EXCEPT ![r] =
              [pc |-> pc_after(st.outcome), string |-> st.string, n |-> st.n,
               whole |-> whole, line |-> IF whole THEN Head(seen.lines) ELSE <<>>]]
        /\ seen' = IF st.outcome = "full" THEN leaves(st.seen, r) ELSE st.seen
        /\ UNCHANGED <<session, used, held, wire, drv>>

\* Nobody loops in the kernel with interrupts disabled.
KernelAlive == \A r \in Reader : reader[r].pc # "forever"

ConsRead(r, length) ==
    /\ r \in session.readers /\ reader[r].pc = "user"
    /\ reads(r, [i \in 1..length |-> 0], 0)

\* wait_clock has returned.
Poll(r) ==
    /\ reader[r].pc = "reading"
    /\ tty.keyboard_buffer[tty.index_read] # 0
    /\ reads(r, reader[r].string, reader[r].n)

\* The program has used what it read.
Return(r) ==
    /\ reader[r].pc = "returned"
    /\ reader' = [reader EXCEPT ![r] = NotReading]
    /\ UNCHANGED <<session, used, held, wire, drv, tty, seen>>

Killed(r) ==
    /\ reader[r].pc = "reading"
    /\ reader' = [reader EXCEPT ![r] = NotReading]
    /\ seen' = leaves(seen, r)
    /\ UNCHANGED <<session, used, held, wire, drv, tty>>

-----------------------------------------------------------------------------
(* Other calls *)

ConsEcho(on) ==
    /\ session.echo /\ tty.echo # on
    /\ tty' = [tty EXCEPT !.echo = on]
    /\ UNCHANGED <<session, used, held, wire, drv, reader, seen>>

ConsWrite(str) ==
    /\ used.writes < session.writes
    /\ used' = [used EXCEPT !.writes = @ + 1]
    /\ tty' = [tty EXCEPT !.screen = cons_write(@, str)]
    /\ seen' = [seen EXCEPT !.clean = @ /\ seen.line = <<>>]
    /\ UNCHANGED <<session, held, wire, drv, reader>>

Next ==
    /\ KernelAlive
    /\ \/ KeyboardInterrupt
       \/ \E k \in session.keys : KeyPress(k) \/ KeyRepeat(k) \/ KeyRelease(k)
       \/ \E r \in Reader : \/ \E length \in Length : ConsRead(r, length)
                            \/ Poll(r) \/ Return(r) \/ Killed(r)
       \/ \E on \in BOOLEAN : ConsEcho(on)
       \/ \E str \in Output : ConsWrite(str)

Spec == Init /\ [][Next]_vars

\* An interrupt is taken.  A process that sleeps is made ready by a tick (SleepersWake of
\* Tasks) and, if nothing is ever more urgent, gets to run (RoundRobin of Tasks).  The
\* others may be starved, task.c:413.
FairSpec == Spec /\ WF_vars(KeyboardInterrupt)
                 /\ \A r \in Urgent : WF_vars(KernelAlive /\ Poll(r))

-----------------------------------------------------------------------------
(* Properties *)

\* keyboard.c:96-110, 482 and 523: the counters of the modifiers, the modifiers in
\* force and the map of keys agree with each other and with the keys that are
\* held, through repeated keys, two keys for one modifier, prefixes and
\* combinations that have no map.  So no modifier sticks.
ModifiersMatchKeys ==
    wire = <<>> =>
       /\ drv.prev = 0
       /\ drv.key_down = {keycodes[k] : k \in held}
       /\ drv.shift_state = {v \in Modifier : drv.k_down[v] > 0}
       /\ \A v \in Modifier : drv.k_down[v] = Cardinality(holders(drv.key_down, v))

\* kbd.c:42 and 73-80: the ring holds the characters that were not read, in the
\* order they were typed, unless more than BUFFER_SIZE were waiting or the reader
\* met a deletion left from the last lap, which takes a deletion to be typed.
NoCharacterLost ==
    /\ seen.lost = "no" =>
          LET n == Len(seen.unread)
              at(i) == (tty.index_read + i - 1) % BUFFER_SIZE
          IN  /\ tty.index_write = (tty.index_read + n) % BUFFER_SIZE
              /\ \A i \in 1..n : tty.keyboard_buffer[at(i)] = seen.unread[i]
              /\ \A i \in (n + 1)..BUFFER_SIZE : tty.keyboard_buffer[at(i)] \in {0, DEL}
    /\ seen.lost = "phantom" => seen.deleted

\* kbd.c:35-63 against kbd.c:82-99: a process that read a whole line, however often
\* it slept and while the line was edited, gets the line that was on the screen.
ReadReturnsLine ==
    \A r \in Reader : reader[r].pc = "returned" /\ reader[r].whole =>
        SubSeq(reader[r].string, 1, reader[r].n) = reader[r].line

\* kbd.c:82-99 with cga.c:74-119: nb_write counts the characters of the line, and the
\* line stands before the cursor, across wrapped rows and scrolling, if it was
\* all echoed and nothing else was written since it began.
EchoShowsLine ==
    LET line == seen.line
        cursor == cursor_pos(tty.screen)
    IN  /\ tty.nb_write = Len(line)
        /\ tty.screen \in Screen
        /\ seen.clean => \A i \in 1..Len(line) : Len(line) - i < cursor =>
              tty.screen.cells[cursor - 1 - (Len(line) - i)] = line[i]

\* kbd.c:42-45: a process that reads while a whole line is there does not sleep for
\* ever, if no process is ever more urgent, although one that is starved may have
\* begun the line, or be killed in the middle of it.
LineIsRead ==
    \A r \in Urgent :
        (reader[r].pc = "reading" /\ seen.lines # <<>>)
          ~> (reader[r].pc # "reading" \/ seen.lines = <<>>)
=============================================================================
