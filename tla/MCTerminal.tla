----------------------------- MODULE MCTerminal -----------------------------
(* A small keyboard with real scancodes, and the entries of defkeymap.c for it. *)
EXTENDS Terminal, TLC

\* Keycode 42 LShift, 54 RShift, 29 LCtrl, 97 RCtrl, 56 Alt, 100 AltGr, 58 CapsLock,
\* 69 NumLock, 16 a, 31 s, 14 Backspace, 28 Enter, 79 1 on the pad, 103 Up, 59 F1, 119 Pause.
Modifiers == 42 :> <<"SHIFT", "SHIFT">> @@ 54 :> <<"SHIFT", "SHIFT">> @@
             29 :> <<"SHIFT", "CTRL">>  @@ 97 :> <<"SHIFT", "CTRL">> @@
             56 :> <<"SHIFT", "ALT">>   @@ 100 :> <<"SHIFT", "ALTGR">>
Fixed == Modifiers @@ 58 :> <<"SPEC", 7>> @@ 69 :> <<"SPEC", 8>> @@ 28 :> <<"SPEC", 1>> @@
         103 :> <<"CUR", 3>> @@ 119 :> <<"FN", 29>>
Plain == Fixed @@ 16 :> <<"LETTER", 97>> @@ 31 :> <<"LETTER", 115>> @@ 14 :> <<"LATIN", 127>> @@
         79 :> <<"PAD", 1>> @@ 59 :> <<"FN", 0>>
Shift == Fixed @@ 16 :> <<"LETTER", 65>> @@ 31 :> <<"LETTER", 83>> @@ 14 :> <<"LATIN", 127>> @@
         79 :> <<"PAD", 1>> @@ 59 :> <<"FN", 12>>
AltGr == 69 :> <<"ASCII", 20>> @@ Fixed @@ 16 :> <<"LETTER", 97>> @@
         31 :> <<"LETTER", 115>> @@ 14 :> <<"SPEC", 0>> @@ 79 :> <<"ASCII", 11>> @@ 59 :> <<"SPEC", 0>>
Ctrl  == Fixed @@ 16 :> <<"LATIN", 1>> @@ 31 :> <<"LATIN", 19>> @@ 14 :> <<"SPEC", 0>> @@
         79 :> <<"PAD", 1>> @@ 59 :> <<"FN", 34>>
AltGrCtrl == Fixed @@ 16 :> <<"LATIN", 1>> @@ 31 :> <<"LATIN", 19>> @@ 14 :> <<"SPEC", 0>> @@
         79 :> <<"PAD", 1>> @@ 59 :> <<"SPEC", 0>>
Alt   == 28 :> <<"META", 13>> @@ 103 :> <<"SPEC", 18>> @@ Fixed @@ 16 :> <<"META", 97>> @@
         31 :> <<"META", 115>> @@ 14 :> <<"META", 127>> @@ 79 :> <<"ASCII", 1>> @@ 59 :> <<"CONS", 0>>
CtrlAlt == Fixed @@ 16 :> <<"META", 1>> @@ 31 :> <<"META", 19>> @@ 14 :> <<"SPEC", 0>> @@
         79 :> <<"PAD", 1>> @@ 59 :> <<"CONS", 0>>

KeyMaps == {} :> Plain @@ {"SHIFT"} :> Shift @@ {"ALTGR"} :> AltGr @@ {"CTRL"} :> Ctrl @@
           {"ALTGR", "CTRL"} :> AltGrCtrl @@ {"ALT"} :> Alt @@ {"CTRL", "ALT"} :> CtrlAlt
Esc == 27
FuncTable == 0 :> <<Esc, 91, 91, 65>> @@ 12 :> <<Esc, 91, 50, 53, 126>> @@
             23 :> <<Esc, 91, 52, 126>>
E0Keys == 29 :> 97 @@ 56 :> 100 @@ 72 :> 103
HighKeys == 115 :> 120

Keycode == "lshift" :> 42 @@ "rshift" :> 54 @@ "lctrl" :> 29 @@ "rctrl" :> 97 @@ "alt" :> 56 @@
           "altgr" :> 100 @@ "caps" :> 58 @@ "num" :> 69 @@ "a" :> 16 @@ "s" :> 31 @@ "back" :> 14 @@
           "enter" :> 28 @@ "pad1" :> 79 @@ "up" :> 103 @@ "f1" :> 59 @@ "pause" :> 119
Keys == DOMAIN Keycode

\* Up may come with the Shift codes a keyboard inserts; Pause sends all at once.
Makes == [k \in Keys |->
    CASE k = "rctrl" -> {<<224, 29>>}
      [] k = "altgr" -> {<<224, 56>>}
      [] k = "up"    -> {<<224, 72>>, <<224, 170, 224, 72>>}
      [] k = "pause" -> {<<225, 29, 69, 225, 157, 197>>}
      [] OTHER       -> {<<Keycode[k]>>}]
Breaks == [k \in Keys |->
    CASE k = "rctrl" -> {<<224, 157>>}
      [] k = "altgr" -> {<<224, 184>>}
      [] k = "up"    -> {<<224, 200>>, <<224, 200, 224, 42>>}
      [] k = "pause" -> {}
      [] OTHER       -> {<<Keycode[k] + 128>>}]

\* Modifiers; special keys; long lines; two processes that read; echo and output.
Sessions == {
    [keys |-> {"lshift", "rshift", "rctrl", "altgr", "caps", "a"}, held |-> 3,
     chars |-> 1, writes |-> 0, readers |-> {}, echo |-> FALSE],
    [keys |-> {"alt", "altgr", "num", "pad1", "up", "f1", "pause", "lctrl"}, held |-> 2,
     chars |-> 1, writes |-> 0, readers |-> {}, echo |-> FALSE],
    [keys |-> {"a", "back", "enter"}, held |-> 1,
     chars |-> 6, writes |-> 0, readers |-> {"p"}, echo |-> FALSE],
    [keys |-> {"a", "back", "enter"}, held |-> 1,
     chars |-> 4, writes |-> 0, readers |-> {"p", "q"}, echo |-> FALSE],
    [keys |-> {"a", "s", "back", "enter"}, held |-> 1,
     chars |-> 4, writes |-> 1, readers |-> {}, echo |-> TRUE]}
Outputs == {<<62>>, <<TAB, BS>>, <<LF, TAB>>, <<FF>>, <<62, 0>>}
=============================================================================
