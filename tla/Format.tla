------------------------------ MODULE Format ------------------------------
(***************************************************************************)
(* Formatted output and numbers: _doprnt (shared/doprnt.c), the printf and *)
(* sprintf families over it (printf.c, sprintf.c), strtol, strtoul and the *)
(* 64-bit division (div64.c).                                              *)
(*                                                                         *)
(* A character is a one-character string, NUL stands for '\0', and a text  *)
(* is a sequence of characters without its terminator.  A long is an       *)
(* unsigned number of LongBits bits (32 in the code); the arguments of a   *)
(* call are a sequence from which va_arg takes the head.  Every putc of    *)
(* _doprnt only adds to the output, so _doprnt returns what it put.  The   *)
(* conversions of floats are compiled out (DOPRNT_FLOATS).                 *)
(***************************************************************************)
EXTENDS Integers, SequencesExt

CONSTANTS LongBits,       \* bits of a long
          WordBits,       \* bits of an unsigned int in the 64-bit division
          PRINTF_BUFMAX   \* characters that printf collects: 128

NUL == "nul"
Long == 2 ^ LongBits
Word == 2 ^ WordBits
Signed(u) == IF u >= Long \div 2 THEN u - Long ELSE u

Digits == <<"0", "1", "2", "3", "4", "5", "6", "7", "8", "9", "a", "b", "c", "d", "e", "f">>
Decimals == {Digits[i] : i \in 1..10}

isdigit(c) == c \in Decimals
Ctod(c) == CHOOSE v \in 0..9 : Digits[v + 1] = c
isspace(c) == c \in {" ", "\f", "\n", "\r", "\t", "vt"}   \* "vt" stands for '\v'

\* The character of a text at a position, the terminator after the last one.
At(text, i) == IF i \in DOMAIN text THEN text[i] ELSE NUL

Repeat(c, n) == IF n <= 0 THEN <<>> ELSE [i \in 1..n |-> c]

---------------------------------------------------------------------------
(* _doprnt: one directive is read into a record d, then converted.         *)

RECURSIVE printnum(_, _)
printnum(u, base) ==
  IF u < base THEN <<Digits[u + 1]>> ELSE Append(printnum(u \div base, base), Digits[(u % base) + 1])

RECURSIVE ReadFlags(_, _, _)
ReadFlags(fmt, i, d) ==
  CASE At(fmt, i) = "#" -> ReadFlags(fmt, i + 1, [d EXCEPT !.altfmt = TRUE])
    [] At(fmt, i) = "-" -> ReadFlags(fmt, i + 1, [d EXCEPT !.ladjust = TRUE])
    [] At(fmt, i) = "+" -> ReadFlags(fmt, i + 1, [d EXCEPT !.plus_sign = <<"+">>])
    [] At(fmt, i) = " " -> ReadFlags(fmt, i + 1, [d EXCEPT !.plus_sign = IF @ = <<>> THEN <<" ">> ELSE @])
    [] At(fmt, i) = "0" -> [d EXCEPT !.padc = "0", !.i = i + 1]
    [] OTHER -> [d EXCEPT !.i = i]

\* A decimal number and the position after it.
RECURSIVE ReadNumber(_, _, _)
ReadNumber(fmt, i, v) ==
  IF isdigit(At(fmt, i)) THEN ReadNumber(fmt, i + 1, 10 * v + Ctod(fmt[i])) ELSE [val |-> v, i |-> i]

\* A width given as an argument that is negative turns the adjustment round.
ReadWidth(fmt, d) ==
  LET number == ReadNumber(fmt, d.i, 0)
      arg == Head(d.args)
  IN CASE isdigit(At(fmt, d.i)) -> [d EXCEPT !.length = number.val, !.i = number.i]
       [] At(fmt, d.i) = "*" -> [d EXCEPT !.length = IF arg < 0 THEN -arg ELSE arg,
                                          !.ladjust = IF arg < 0 THEN ~@ ELSE @,
                                          !.i = @ + 1, !.args = Tail(@)]
       [] OTHER -> d

ReadPrecision(fmt, d) ==
  LET number == ReadNumber(fmt, d.i + 1, 0)
  IN CASE At(fmt, d.i) # "." -> d
       [] At(fmt, d.i) = "." /\ isdigit(At(fmt, d.i + 1)) -> [d EXCEPT !.prec = number.val, !.i = number.i]
       [] At(fmt, d.i) = "." /\ At(fmt, d.i + 1) = "*" ->
            [d EXCEPT !.prec = Head(d.args), !.i = @ + 2, !.args = Tail(@)]
       [] OTHER -> [d EXCEPT !.i = @ + 1]

ReadDirective(fmt, i, args) ==
  LET none == [altfmt |-> FALSE, ladjust |-> FALSE, padc |-> " ", plus_sign |-> <<>>,
               length |-> 0, prec |-> -1, i |-> i, args |-> args]
      d == ReadPrecision(fmt, ReadWidth(fmt, ReadFlags(fmt, i, none)))
  IN IF At(fmt, d.i) = "l" THEN [d EXCEPT !.i = @ + 1] ELSE d

\* print_num: blanks before the sign and the prefix, zeroes after them.  With
\* both '0' and '-' the zeroes have already used the width up.
PrintNum(d, u, sign_char, base) ==
  LET digits == printnum(u, base)
      prefix == IF ~d.altfmt \/ u = 0 THEN <<>>
                ELSE CASE base = 8 -> <<"0">> [] base = 16 -> <<"0", "x">> [] OTHER -> <<>>
      zeroes == Repeat("0", d.prec - Len(digits))
      length == d.length - Len(digits) - Len(sign_char) - Len(prefix) - Len(zeroes)
      blanks == Repeat(" ", length)
  IN (IF d.padc = " " /\ ~d.ladjust THEN blanks ELSE <<>>)
       \o sign_char \o prefix \o zeroes
       \o (IF d.padc = "0" THEN Repeat("0", length) ELSE <<>>)
       \o digits
       \o (IF d.padc = " " /\ d.ladjust THEN blanks ELSE <<>>)

PrintUnsigned(d, u, base) == PrintNum(d, u, <<>>, base)

PrintSigned(d, u, base) ==
  IF Signed(u) >= 0 THEN PrintNum(d, u, d.plus_sign, base)
  ELSE PrintNum(d, (Long - u) % Long, <<"-">>, base)

\* case 's': a string cut by the precision has been counted one too long by
\* the time its left-adjusted padding is put.
PrintString(d, p) ==
  LET shown == IF d.prec = -1 THEN Len(p) ELSE CHOOSE n \in 0..Len(p) :
                 n = IF d.prec < 0 THEN 0 ELSE IF Len(p) < d.prec THEN Len(p) ELSE d.prec
      counted == IF shown < Len(p) THEN shown + 1 ELSE shown
  IN (IF ~d.ladjust THEN Repeat(" ", d.length - shown) ELSE <<>>)
       \o SubSeq(p, 1, shown)
       \o (IF d.ladjust THEN Repeat(" ", d.length - counted) ELSE <<>>)

\* case 'b': the register, then the names of its bits that are set and of its
\* bit fields.  A descriptor is a base and a sequence of items, a single bit
\* when low is 0, the bits low..bit otherwise; bits count from 1.
PrintBits(u, p) ==
  LET selected == SelectSeq(p.items, LAMBDA item : item.low > 0 \/ (u \div (2 ^ (item.bit - 1))) % 2 = 1)
      field(item) == printnum((u \div (2 ^ (item.low - 1))) % (2 ^ (item.bit - item.low + 1)), p.base)
      show(item) == item.name \o (IF item.low > 0 THEN field(item) ELSE <<>>)
      list == FlattenSeq([k \in DOMAIN selected |-> (IF k = 1 THEN <<"<">> ELSE <<",">>) \o show(selected[k])])
  IN printnum(u, p.base)
       \o (IF u = 0 \/ selected = <<>> THEN <<>> ELSE Append(list, ">"))

\* The switch over the conversion character.
Convert(c, d, radix) ==
  LET arg == Head(d.args)
      puts1(out) == [out |-> out, args |-> Tail(d.args)]
  IN CASE c \in {"b", "B"} -> [out |-> PrintBits(arg, d.args[2]), args |-> Tail(Tail(d.args))]
       [] c = "c" -> puts1(<<arg>>)
       [] c = "s" -> puts1(PrintString(d, arg))
       [] c \in {"o", "O"} -> puts1(PrintUnsigned(d, arg, 8))
       [] c \in {"d", "i", "D"} -> puts1(PrintSigned(d, arg, 10))
       [] c \in {"u", "U"} -> puts1(PrintUnsigned(d, arg, 10))
       [] c = "p" -> puts1(<<"0", "x">> \o PrintUnsigned([d EXCEPT !.padc = "0", !.length = 8], arg, 16))
       [] c \in {"x", "X"} -> puts1(PrintUnsigned(d, arg, 16))
       [] c \in {"z", "Z"} -> puts1(PrintSigned(d, arg, 16))
       [] c \in {"r", "R"} -> puts1(PrintSigned(d, arg, radix))
       [] c \in {"n", "N"} -> puts1(PrintUnsigned(d, arg, radix))
       [] c = NUL -> [out |-> <<>>, args |-> d.args]
       [] OTHER -> [out |-> <<c>>, args |-> d.args]

RECURSIVE Doprnt(_, _, _, _)
Doprnt(fmt, i, args, radix) ==
  IF i > Len(fmt) THEN <<>>
  ELSE IF fmt[i] # "%" THEN <<fmt[i]>> \o Doprnt(fmt, i + 1, args, radix)
  ELSE LET d == ReadDirective(fmt, i + 1, args)
           r == Convert(At(fmt, d.i), d, radix)
       IN r.out \o Doprnt(fmt, d.i + 1, r.args, radix)

_doprnt(fmt, args, radix) == Doprnt(fmt, 1, args, radix)

---------------------------------------------------------------------------
(* The sinks.  printf collects up to PRINTF_BUFMAX characters before it    *)
(* gives them to the console; a newline, a NUL and the character that no   *)
(* longer fits go to the console at once, after what was collected.        *)

flush(state) == [buf |-> <<>>, console |-> state.console \o state.buf]

\* Mutant: a character that no longer fits overtakes the ones collected.
printf_char_overtakes(state, c) ==
  CASE c \in {NUL, "\n"} -> [flush(state) EXCEPT !.console = Append(@, c)]
    [] c \notin {NUL, "\n"} /\ Len(state.buf) >= PRINTF_BUFMAX -> [state EXCEPT !.console = Append(@, c)]
    [] OTHER -> [state EXCEPT !.buf = Append(@, c)]

printf_char(state, c) ==
  IF c \in {NUL, "\n"} \/ Len(state.buf) >= PRINTF_BUFMAX
  THEN [flush(state) EXCEPT !.console = Append(@, c)]
  ELSE [state EXCEPT !.buf = Append(@, c)]

\* What reaches the console.
printf(fmt, args) ==
  LET end == FoldLeft(printf_char, [buf |-> <<>>, console |-> <<>>], _doprnt(fmt, args, 0))
  IN IF end.buf # <<>> THEN flush(end).console ELSE end.console

puts(s) == Append(s, "\n")

SPRINTF_UNLIMITED == -1

savechar(state, c) ==
  IF state.max # SPRINTF_UNLIMITED /\ state.len = state.max THEN state
  ELSE [state EXCEPT !.len = @ + 1, !.buf = Append(@, c)]

\* The bytes stored, the terminator included, and the value returned.
vsnprintf(size, fmt, args) ==
  LET end == FoldLeft(savechar, [buf |-> <<>>, len |-> 0, max |-> size], _doprnt(fmt, args, 0))
  IN [stored |-> Append(end.buf, NUL), len |-> end.len]

vsprintf(fmt, args) == vsnprintf(SPRINTF_UNLIMITED, fmt, args)

---------------------------------------------------------------------------
(* strtol and strtoul.                                                     *)

Letters == <<"a", "b", "c", "d", "e", "f">>
Capitals == <<"A", "B", "C", "D", "E", "F">>

\* The value of a digit in bases up to 16, or 99 for any other character.
DigitValue(c) ==
  CASE isdigit(c) -> Ctod(c)
    [] \E k \in 1..6 : c \in {Letters[k], Capitals[k]} ->
         9 + (CHOOSE k \in 1..6 : c \in {Letters[k], Capitals[k]})
    [] OTHER -> 99

RECURSIVE SkipSpaces(_, _)
SkipSpaces(p, i) == IF isspace(At(p, i)) THEN SkipSpaces(p, i + 1) ELSE i

RECURSIVE Accumulate(_, _, _, _)
Accumulate(p, i, v, base) ==
  IF DigitValue(At(p, i)) < base
  THEN Accumulate(p, i + 1, (v * base + DigitValue(p[i])) % Long, base)
  ELSE [val |-> v, out_p |-> i]

\* From the prefix on: 0x, or a leading 0 when the base is to be found out.
ReadDigits(p, i, base) ==
  LET hex == base \in {0, 16} /\ At(p, i) = "0" /\ At(p, i + 1) \in {"x", "X"}
  IN CASE hex -> Accumulate(p, i + 2, 0, 16)
       [] ~hex /\ base = 0 -> Accumulate(p, i, 0, IF At(p, i) = "0" THEN 8 ELSE 10)
       [] OTHER -> Accumulate(p, i, 0, base)

strtoul(p, base) == ReadDigits(p, SkipSpaces(p, 1), base)

\* Mutant: the prefix is looked for before the sign is stepped over.
strtol_prefix_first(p, base) ==
  LET i == SkipSpaces(p, 1)
      r == ReadDigits(p, i + 1, IF base = 0 THEN 10 ELSE base)
  IN IF At(p, i) = "-" THEN [val |-> (Long - r.val) % Long, out_p |-> r.out_p]
     ELSE ReadDigits(p, i, base)

\* A leading '+' is seen but not stepped over.
strtol(p, base) ==
  LET i == SkipSpaces(p, 1)
      r == ReadDigits(p, i + 1, base)
  IN IF At(p, i) = "-" THEN [val |-> (Long - r.val) % Long, out_p |-> r.out_p]
     ELSE ReadDigits(p, i, base)

---------------------------------------------------------------------------
(* do_div64, with 64-bit numbers of two words.  Trap is the divide error   *)
(* of divl: a divisor of 0 or a quotient of more than a word.              *)

Trap == [val |-> -1, rem |-> -1]

log2(n) == CHOOSE l \in 0..(WordBits - 1) : 2 ^ l <= n /\ n < 2 ^ (l + 1)

\* Mutant: the shift instructions alone, which take the full word for no shift.
rshift64_modulo(x1, x0, n) ==
  LET k == n % WordBits IN [hi |-> x1 \div (2 ^ k), lo |-> ((x1 * Word + x0) \div (2 ^ k)) % Word]

\* shrd and shr count modulo the word, and the full word is a case of its own.
rshift64(x1, x0, n) ==
  IF n = WordBits THEN [hi |-> 0, lo |-> x1]
  ELSE [hi |-> x1 \div (2 ^ n), lo |-> ((x1 * Word + x0) \div (2 ^ n)) % Word]

div64_32(x1, x0, y) ==
  IF x1 >= y THEN Trap ELSE [val |-> (x1 * Word + x0) \div y, rem |-> (x1 * Word + x0) % y]

\* The quotient by the rounded-up divisor is too small by a little: corrected.
RECURSIVE CorrectQuotient(_, _, _)
CorrectQuotient(q, r, y) ==
  IF r >= y THEN CorrectQuotient((q + 1) % Word, r - y, y) ELSE [val |-> q, rem |-> r]

do_div64(x, y) ==
  LET y1 == y \div Word
      y0 == y % Word
      x1 == x \div Word
      x0 == x % Word
      l == log2(y1) + 1
      shifted == rshift64(x1, x0, l)
      estimate == div64_32(shifted.hi, shifted.lo, (rshift64(y1, y0, l).lo + 1) % Word)
      high == div64_32(0, x1, y0)
      low == div64_32(high.rem, x0, y0)
  IN CASE y1 > 0 -> IF estimate = Trap THEN Trap
                    ELSE CorrectQuotient(estimate.val, (x - y * estimate.val) % (Word * Word), y)
       [] y1 = 0 /\ x1 < y0 -> div64_32(x1, x0, y0)
       [] y1 = 0 /\ x1 >= y0 /\ y0 > 0 -> [val |-> high.val * Word + low.val, rem |-> low.rem]
       [] OTHER -> [val |-> 0, rem |-> x]

=============================================================================
