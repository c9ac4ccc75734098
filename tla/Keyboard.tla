------------------------------ MODULE Keyboard ------------------------------
(***************************************************************************)
(* The keyboard driver, kernel/kbd-linux/scancode.c and keyboard.c with    *)
(* keyboard-glue.c, as operators on its static variables.  A scancode      *)
(* gives a new driver state and the characters handed to keyboard_data.    *)
(*                                                                         *)
(* Bit masks are sets: shift_state is a set of modifiers and XOR is the    *)
(* symmetric difference.  The mode flags keep their initial value          *)
(* (REPEAT and META, VC_XLATE), nobody changes them.  The key maps of      *)
(* defkeymap.c have no dead key, compose key, lock or sticky modifier and  *)
(* no Unicode symbol, so diacr, dead_key_next, lockstate and slockstate    *)
(* keep their initial values and do not appear.  Keys that only switch     *)
(* consoles, scroll, or print kernel state call empty functions of the     *)
(* glue, and so does Scroll_Lock: they are the SPEC values not listed in   *)
(* spec_fn.                                                                *)
(***************************************************************************)
EXTENDS Integers, Sequences, FiniteSets

CONSTANTS
    key_maps,    \* sets of modifiers that have a map -> keycode -> <<type, value>>
    func_table,  \* function key -> its characters
    e0_keys,     \* scancodes after 0xe0 that are known -> keycode
    high_keys    \* scancodes of at least SC_LIM that are known -> keycode

Modifier == {"SHIFT", "ALTGR", "CTRL", "ALT"}

\* The keycodes, and the symbols that defkeymap.c gives them.
Mapped == DOMAIN key_maps[{}]
Symbol == {"LATIN", "LETTER"} \X (0..255) \union {"META"} \X (1..255)
          \union {"FN", "SPEC", "CONS"} \X Nat \union {"PAD"} \X (0..19)
          \union {"CUR"} \X (0..3) \union {"ASCII"} \X (0..25) \union {"SHIFT"} \X Modifier

\* A key is the same modifier in all maps, and the strings of function keys end
\* at their NUL.
ASSUME KeyMapAssumption ==
    /\ DOMAIN key_maps \subseteq SUBSET Modifier /\ {} \in DOMAIN key_maps
    /\ Mapped \subseteq Nat
    /\ \A s \in DOMAIN key_maps :
          /\ key_maps[s] \in [Mapped -> Symbol]
          /\ \A k \in Mapped, v \in Modifier :
                key_maps[s][k] = <<"SHIFT", v>> <=> key_maps[{}][k] = <<"SHIFT", v>>
    /\ \A f \in DOMAIN func_table : func_table[f] \in Seq(1..255)

SC_LIM == 89
E0 == 224
E1 == 225
E1_1D == 256             \* 0x100: the first half of a Pause key was seen
E1_PAUSE == 119
ESC == 27

\* The driver's static variables after kbd_init.
kbd_init ==
    [prev |-> 0,                             \* prev_scancode
     key_down |-> {},                        \* keycodes that are down
     k_down |-> [v \in Modifier |-> 0],      \* how many keys hold a modifier
     shift_state |-> {},
     npadch |-> -1,                          \* code typed on the pad, or -1
     caps |-> FALSE, num |-> FALSE]          \* ledflagstate

\* A driver state and the characters that it sends.
sends(d, str) == [drv |-> d, out |-> str]
silent(d) == sends(d, <<>>)
\* keyboard_send_ch: a NUL ends the string it is sent in.
put_queue(d, ch) == sends(d, IF ch = 0 THEN <<>> ELSE <<ch>>)

-----------------------------------------------------------------------------
(* scancode.c *)

known(keys, code) == IF code \in DOMAIN keys THEN keys[code] ELSE 0

\* The keycode of a scancode, 0 if there is none (yet), and the new prefix.
kbd_translate(prev, scancode) ==
    LET code == scancode % 128
    IN  IF scancode \in {E0, E1} THEN [prev |-> scancode, keycode |-> 0]
        ELSE IF prev = E1        THEN [prev |-> IF code = 29 THEN E1_1D ELSE 0, keycode |-> 0]
        ELSE [prev |-> 0,
              keycode |-> CASE prev = E1_1D -> IF code = 69 THEN E1_PAUSE ELSE 0
                            [] prev = E0    -> IF code \in {42, 54} THEN 0
                                               ELSE known(e0_keys, code)
                            [] OTHER        -> IF code >= SC_LIM THEN known(high_keys, code)
                                               ELSE code]

\* A release without a press is taken for a press of some keys.
kbd_unexpected_up(keycode) == ~(keycode >= SC_LIM \/ keycode = 85)

-----------------------------------------------------------------------------
(* keyboard.c *)

\* Modifiers that the keys of set down hold, by the plain map.
holders(down, v) == {k \in down : key_maps[{}][k] = <<"SHIFT", v>>}

compute_shiftstate(d) ==
    [d EXCEPT !.k_down = [v \in Modifier |-> Cardinality(holders(d.key_down, v))],
              !.shift_state = {v \in Modifier : holders(d.key_down, v) # {}}]

\* Mutated form: a repeated key counts again.
do_shift_counts_repeat(d, v, up, rep) ==
    LET n == IF up THEN IF d.k_down[v] > 0 THEN d.k_down[v] - 1 ELSE 0 ELSE d.k_down[v] + 1
    IN  silent([d EXCEPT !.k_down[v] = n,
                         !.shift_state = IF n > 0 THEN @ \union {v} ELSE @ \ {v}])
\* Releasing the last key of a modifier sends the code typed on the pad.
do_shift(d, v, up, rep) ==
    LET n == IF up THEN IF d.k_down[v] > 0 THEN d.k_down[v] - 1 ELSE 0 ELSE d.k_down[v] + 1
        held == IF n > 0 THEN d.shift_state \union {v} ELSE d.shift_state \ {v}
        shifted == [d EXCEPT !.k_down[v] = n, !.shift_state = held]
    IN  IF rep THEN silent(d)
        ELSE IF up /\ held # d.shift_state /\ d.npadch # -1
        THEN put_queue([shifted EXCEPT !.npadch = -1], d.npadch % 256)
        ELSE silent(shifted)

\* Codes are typed in decimal with Alt, in hexadecimal with AltGr.
do_ascii(d, v) ==
    LET digit == IF v < 10 THEN v ELSE v - 10
        base  == IF v < 10 THEN 10 ELSE 16
    IN  silent([d EXCEPT !.npadch = IF @ = -1 THEN digit ELSE @ * base + digit])

do_fn(d, v) == sends(d, IF v \in DOMAIN func_table THEN func_table[v] ELSE <<>>)

\* applkey outside of application mode: Escape, '[' and a letter.
applkey(d, letter) == sends(d, <<ESC, 91, letter>>)
cur_chars == <<66, 68, 67, 65>>                     \* BDCA
do_cur(d, v) == applkey(d, cur_chars[v + 1])

pad_chars == <<48, 49, 50, 51, 52, 53, 54, 55, 56, 57,     \* 0123456789
               43, 45, 42, 47, 13, 44, 46, 63, 40, 41>>    \* +-*/ CR ,.?()
\* Without NumLock the digits are function and cursor keys.
pad_fn == [v \in {0, 1, 3, 7, 9, 15, 16} |->
             CASE v = 0 -> 21 [] v = 1 -> 23 [] v = 3 -> 25 [] v = 7 -> 20 [] v = 9 -> 24
               [] OTHER -> 22]
pad_cur == [v \in {2, 4, 6, 8} |-> CASE v = 2 -> 0 [] v = 4 -> 1 [] v = 6 -> 2 [] v = 8 -> 3]
do_pad(d, v) ==
    CASE ~d.num /\ v \in DOMAIN pad_fn  -> do_fn(d, pad_fn[v])
      [] ~d.num /\ v \in DOMAIN pad_cur -> do_cur(d, pad_cur[v])
      [] ~d.num /\ v = 5                -> applkey(d, 71)
      [] OTHER                          -> put_queue(d, pad_chars[v + 1])

\* Null, Return, Caps_Lock and Num_Lock; the other entries have no effect here.
spec_fn(d, v, rep) ==
    CASE v = 0 -> silent(compute_shiftstate(d))
      [] v = 1 -> put_queue(d, 13)
      [] v = 7 -> silent(IF rep THEN d ELSE [d EXCEPT !.caps = ~@])
      [] v = 8 -> silent(IF rep THEN d ELSE [d EXCEPT !.num = ~@])
      [] OTHER -> silent(d)

\* key_handler: every type but SHIFT ignores releases.
key_handler(d, sym, up, rep) ==
    LET type == sym[1]
        v == sym[2]
    IN  CASE type = "SHIFT" -> do_shift(d, v, up, rep)
          [] type # "SHIFT" /\ up -> silent(d)
          [] type \in {"LATIN", "LETTER"} /\ ~up -> put_queue(d, v)
          [] type = "FN"    /\ ~up -> do_fn(d, v)
          [] type = "SPEC"  /\ ~up -> spec_fn(d, v, rep)
          [] type = "PAD"   /\ ~up -> do_pad(d, v)
          [] type = "CUR"   /\ ~up -> do_cur(d, v)
          [] type = "META"  /\ ~up -> sends(d, <<ESC, v>>)
          [] type = "ASCII" /\ ~up -> do_ascii(d, v)
          [] type = "CONS"  /\ ~up -> silent(d)

xor(a, b) == (a \ b) \union (b \ a)

\* The symbol of a key: CapsLock turns the Shift map around for letters.
keysym(d, keycode) ==
    LET sym == key_maps[d.shift_state][keycode]
        capsed == xor(d.shift_state, {"SHIFT"})
    IN  IF sym[1] = "LETTER" /\ d.caps /\ capsed \in DOMAIN key_maps
        THEN key_maps[capsed][keycode] ELSE sym

handle_scancode(d, scancode) ==
    LET t   == kbd_translate(d.prev, scancode)
        key == t.keycode
        released == scancode >= 128
        was_down == key \in d.key_down
        up  == released /\ (was_down \/ kbd_unexpected_up(key))
        d1  == [d EXCEPT !.prev = t.prev,
                         !.key_down = IF released THEN @ \ {key} ELSE @ \union {key}]
    IN  IF key = 0 THEN silent([d EXCEPT !.prev = t.prev])
        ELSE IF d.shift_state \notin DOMAIN key_maps THEN silent(compute_shiftstate(d1))
        ELSE key_handler(d1, keysym(d1, key), up, ~released /\ was_down)

\* do_scancode: 0x00 and 0xff are errors of the keyboard.
do_scancode(d, scancode) ==
    IF scancode \in {0, 255} THEN silent(d) ELSE handle_scancode(d, scancode)
=============================================================================
