-------------------------------- MODULE Libc --------------------------------
(***************************************************************************)
(* Programs and the kernel calling the library of shared/.  The library    *)
(* keeps two things from one call to the next, the place where strtok      *)
(* stopped and the direction flag of the processor; everything else is a   *)
(* function of the arguments.  A behaviour is therefore one call on any    *)
(* memory, or a few of the calls that depend on what the previous one left *)
(* (strtok after strtok, a block operation after memmove).                 *)
(*                                                                         *)
(* The memory holds two strings, at A and B, in areas of SizeOf bytes; an  *)
(* empty memory stands for calls that are given texts and numbers only.    *)
(* Calls respect what C asks of their arguments: areas that hold what is   *)
(* written, no overlap except for memmove, strings that are terminated.    *)
(***************************************************************************)
EXTENDS Strings, Format, FiniteSets

CONSTANTS Memories,    \* the contents the two strings may have at first
          A, B,        \* the areas
          SizeOf,      \* bytes in each
          Chars,       \* the int arguments that are searched for or stored
          MaxTokens,   \* calls of strtok in a row
          Directives,  \* formats of one conversion, as records
          Formats,     \* whole calls of printf, a format and its arguments
          Readable     \* formats whose output strtol or strtoul reads back

VARIABLES mem, df, holder, last, calls

vars == <<mem, df, holder, last, calls>>

Areas == {A, B}
NoMemory == <<>>

Init ==
  /\ mem \in Memories \union {NoMemory}
  /\ df = Up
  /\ holder = NULL
  /\ last = [fn |-> "none", args |-> <<>>, val |-> 0]
  /\ calls = 0

---------------------------------------------------------------------------
(* What a call leaves behind.                                              *)

FirstCall(with) == calls = 0 /\ (with = (mem # NoMemory))
AfterMove == FirstCall(TRUE) \/ (calls = 1 /\ last.fn = "memmove")

Called(fn, args, val) ==
  /\ last' = [fn |-> fn, args |-> args, val |-> val]
  /\ calls' = calls + 1

Writes(fn, args, r) ==
  /\ Called(fn, args, r.val)
  /\ mem' = r.mem
  /\ df' = r.df
  /\ UNCHANGED holder

Reads(fn, args, val) ==
  /\ Called(fn, args, val)
  /\ UNCHANGED <<mem, df, holder>>

\* A call that builds the table of __strxspn clears it with memset.
Spans(fn, args, val) ==
  /\ Called(fn, args, val)
  /\ df' = Up
  /\ UNCHANGED <<mem, holder>>

\* A length that both areas hold.
Lengths(s, t) == 0..(IF SizeOf[s] < SizeOf[t] THEN SizeOf[s] ELSE SizeOf[t])

---------------------------------------------------------------------------
(* Blocks of bytes.                                                        *)

CallMemcpy == /\ AfterMove
              /\ \E dst, src \in Areas : dst # src /\ \E n \in Lengths(dst, src) :
                   Writes("memcpy", <<dst, src, n>>, memcpy(mem, df, dst, src, n))
CallMemset == /\ AfterMove
              /\ \E dst \in Areas, c \in Chars : \E n \in 0..SizeOf[dst] :
                   Writes("memset", <<dst, c, n>>, memset(mem, df, dst, c, n))
CallMemmove == /\ AfterMove
               /\ \E dst, src \in A..(A + SizeOf[A] - 1) : \E n \in 0..SizeOf[A] :
                    /\ dst + n <= A + SizeOf[A] /\ src + n <= A + SizeOf[A]
                    /\ Writes("memmove", <<dst, src, n>>, memmove(mem, df, dst, src, n))
CallMemccpy == /\ FirstCall(TRUE)
               /\ \E dst, src \in Areas, c \in Chars : dst # src /\ \E n \in Lengths(dst, src) :
                    Writes("memccpy", <<dst, src, c, n>>, memccpy(mem, df, dst, src, c, n))
CallMemswap == /\ FirstCall(TRUE)
               /\ \E n \in Lengths(A, B) : Writes("memswap", <<A, B, n>>, memswap(mem, df, A, B, n))
CallMemchr == FirstCall(TRUE) /\ \E s \in Areas, c \in Chars : \E n \in 0..SizeOf[s] :
  Reads("memchr", <<s, c, n>>, memchr(mem, s, c, n))
CallMemrchr == FirstCall(TRUE) /\ \E s \in Areas, c \in Chars : \E n \in 0..SizeOf[s] :
  Reads("memrchr", <<s, c, n>>, memrchr(mem, s, c, n))
CallMemcmp == FirstCall(TRUE) /\ \E n \in Lengths(A, B) : Reads("memcmp", <<A, B, n>>, memcmp(mem, A, B, n))
CallMemmem == FirstCall(TRUE) /\ \E s, t \in Areas : s # t /\ \E n \in 0..SizeOf[s], k \in 0..SizeOf[t] :
  Reads("memmem", <<s, n, t, k>>, memmem(mem, s, n, t, k))

---------------------------------------------------------------------------
(* Strings.                                                                *)

CallStrlen == FirstCall(TRUE) /\ \E s \in Areas : Reads("strlen", <<s>>, strlen(mem, s))
CallStrnlen == FirstCall(TRUE) /\ \E s \in Areas : \E n \in 0..SizeOf[s] : Reads("strnlen", <<s, n>>, strnlen(mem, s, n))
CallStrchr == FirstCall(TRUE) /\ \E s \in Areas, c \in Chars : Reads("strchr", <<s, c>>, strchr(mem, s, c))
CallStrrchr == FirstCall(TRUE) /\ \E s \in Areas, c \in Chars : Reads("strrchr", <<s, c>>, strrchr(mem, s, c))
CallStrcmp == FirstCall(TRUE) /\ Reads("strcmp", <<A, B>>, strcmp(mem, A, B))
CallStrncmp == FirstCall(TRUE) /\ \E n \in 0..(SizeOf[A] + 1) : Reads("strncmp", <<A, B, n>>, strncmp(mem, A, B, n))
CallStrcpy == /\ FirstCall(TRUE)
              /\ \E dst, src \in Areas : dst # src /\ strlen(mem, src) < SizeOf[dst]
                   /\ Writes("strcpy", <<dst, src>>, strcpy(mem, df, dst, src))
CallStrncpy == /\ FirstCall(TRUE)
               /\ \E dst, src \in Areas : dst # src /\ \E n \in 0..SizeOf[dst] :
                    Writes("strncpy", <<dst, src, n>>, strncpy(mem, df, dst, src, n))
CallStrcat == /\ FirstCall(TRUE)
              /\ \E dst, src \in Areas : dst # src /\ strlen(mem, dst) + strlen(mem, src) < SizeOf[dst]
                   /\ Writes("strcat", <<dst, src>>, strcat(mem, df, dst, src))
CallStrncat == /\ FirstCall(TRUE)
               /\ \E dst, src \in Areas, n \in 0..4 :
                    /\ dst # src /\ strlen(mem, dst) + strnlen(mem, src, n) < SizeOf[dst]
                    /\ Writes("strncat", <<dst, src, n>>, strncat(mem, df, dst, src, n))
CallStrlcat == /\ FirstCall(TRUE)
               /\ \E dst, src \in Areas : dst # src /\ \E size \in 0..SizeOf[dst] :
                    Writes("strlcat", <<dst, src, size>>, strlcat(mem, df, dst, src, size))
CallStrspn == FirstCall(TRUE) /\ Spans("strspn", <<A, B>>, strspn(mem, A, B))
CallStrcspn == FirstCall(TRUE) /\ Spans("strcspn", <<A, B>>, strcspn(mem, A, B))
CallStrpbrk == FirstCall(TRUE) /\ Spans("strpbrk", <<A, B>>, strpbrk(mem, A, B))
CallStrstr == FirstCall(TRUE) /\ Reads("strstr", <<A, B>>, strstr(mem, A, B))

\* The first call names the string, the next ones go on in it.
CallStrtok ==
  /\ FirstCall(TRUE) \/ (last.fn = "strtok" /\ calls < MaxTokens)
  /\ LET s == IF calls = 0 THEN A ELSE NULL
         r == strtok(mem, df, holder, s, B)
     IN /\ Called("strtok", <<s, B>>, r.ret.val)
        /\ mem' = r.ret.mem
        /\ df' = r.ret.df
        /\ holder' = r.next

---------------------------------------------------------------------------
(* Texts and numbers.                                                      *)

\* The format that a directive record stands for.
Text(d) == <<"%">> \o d.flags \o d.width \o d.prec \o <<d.conv>>
Arguments(d) == d.star \o <<d.arg>>

CallSprintf == FirstCall(FALSE) /\ \E d \in Directives :
  Reads("sprintf", d, vsprintf(Text(d), Arguments(d)))

CallPrintf == FirstCall(FALSE) /\ \E f \in Formats :
  Reads("printf", f, [console |-> printf(f.fmt, f.args),
                      all |-> vsprintf(f.fmt, f.args),
                      cut |-> [size \in 0..4 |-> vsnprintf(size, f.fmt, f.args)],
                      line |-> puts(f.fmt)])

CallStrtol == FirstCall(FALSE) /\ \E r \in Readable, v \in 0..(Long - 1) :
  LET text == Front(vsprintf(<<"%">> \o r.flags \o <<r.conv>>, <<v>>).stored)
      p == r.lead \o text \o r.tail
  IN Reads("strtol", [v |-> v, end |-> Len(r.lead \o text) + 1],
           IF r.signed THEN strtol(p, r.base) ELSE strtoul(p, r.base))

CallDiv64 == FirstCall(FALSE) /\ \E x, y \in 0..(Word * Word - 1) : Reads("do_div64", <<x, y>>, do_div64(x, y))

Next ==
  \/ CallMemcpy \/ CallMemset \/ CallMemmove \/ CallMemccpy \/ CallMemswap
  \/ CallMemchr \/ CallMemrchr \/ CallMemcmp \/ CallMemmem
  \/ CallStrlen \/ CallStrnlen \/ CallStrchr \/ CallStrrchr \/ CallStrcmp \/ CallStrncmp
  \/ CallStrcpy \/ CallStrncpy \/ CallStrcat \/ CallStrncat \/ CallStrlcat
  \/ CallStrspn \/ CallStrcspn \/ CallStrpbrk \/ CallStrstr \/ CallStrtok
  \/ CallSprintf \/ CallPrintf \/ CallStrtol \/ CallDiv64

Spec == Init /\ [][Next]_vars

---------------------------------------------------------------------------
(* What the calls promise, stated without loops: over the bytes of an area *)
(* and the text of a string in the memory before the call.                 *)

Area(s, n) == [k \in 1..n |-> mem[s + k - 1]]
TextAt(s) == LET end == CHOOSE n \in 0..Cardinality(DOMAIN mem) :
                          mem[s + n] = 0 /\ \A k \in 0..(n - 1) : mem[s + k] # 0
             IN Area(s, end)
CharsOf(s) == Range(TextAt(s))
Least(S, n) == IF S = {} THEN n ELSE Min(S)

\* The memory with bytes stored from dst on, and nothing else changed.
Stored(dst, bytes) ==
  [a \in DOMAIN mem |-> IF a - dst + 1 \in DOMAIN bytes THEN bytes[a - dst + 1] ELSE mem[a]]

\* The places of c in an area, and the places where a text is found.
Places(s, n, c) == {a \in s..(s + n - 1) : mem[a] = Char(c)}
Matches(s, n, t, k) == {a \in s..(s + n - k) : Area(a, k) = Area(t, k)}

FirstOf(S) == IF S = {} THEN NULL ELSE Min(S)
LastOf(S) == IF S = {} THEN NULL ELSE Max(S)

\* Bytes compare unsigned; the difference is that of the first pair that differs.
Compared(s, t) ==
  LET n == IF Len(s) < Len(t) THEN Len(s) ELSE Len(t)
      differ == {k \in 1..n : s[k] # t[k]}
  IN IF differ = {} THEN 0 ELSE s[Min(differ)] - t[Min(differ)]

Cut(s, n) == SubSeq(s, 1, IF Len(s) < n THEN Len(s) ELSE n)
Terminated(s) == Append(s, 0)

BlockPromise ==
  LET a == last'.args
      v == last'.val
  IN CASE last'.fn \in {"memcpy", "memmove"} -> mem' = Stored(a[1], Area(a[2], a[3])) /\ v = a[1]
       [] last'.fn = "memset" -> mem' = Stored(a[1], [k \in 1..a[3] |-> Char(a[2])]) /\ v = a[1]
       [] last'.fn = "memccpy" ->
            LET found == Places(a[2], a[4], a[3])
                n == Least({p - a[2] + 1 : p \in found}, a[4])
            IN mem' = Stored(a[1], Area(a[2], n)) /\ v = (IF found = {} THEN NULL ELSE a[1] + n)
       [] last'.fn = "memswap" ->
            mem' = [x \in DOMAIN mem |->
                      CASE x - a[1] \in 0..(a[3] - 1) -> mem[a[2] + (x - a[1])]
                        [] x - a[2] \in 0..(a[3] - 1) -> mem[a[1] + (x - a[2])]
                        [] OTHER -> mem[x]]
       [] last'.fn = "memchr" -> v = FirstOf(Places(a[1], a[3], a[2]))
       [] last'.fn = "memrchr" -> v = LastOf(Places(a[1], a[3], a[2]))
       [] last'.fn = "memcmp" -> v = Compared(Area(a[1], a[3]), Area(a[2], a[3]))
       [] last'.fn = "memmem" -> v = IF a[4] = 0 THEN NULL ELSE FirstOf(Matches(a[1], a[2], a[3], a[4]))
       [] OTHER -> TRUE

\* strrchr does not find the terminator and strstr no empty needle.
StringPromise ==
  LET a == last'.args
      v == last'.val
      s == TextAt(a[1])
      t == TextAt(a[2])
  IN CASE last'.fn = "strlen" -> v = Len(s)
       [] last'.fn = "strnlen" -> v = Len(Cut(s, a[2]))
       [] last'.fn = "strchr" -> v = FirstOf(Places(a[1], Len(s) + 1, a[2]))
       [] last'.fn = "strrchr" -> v = LastOf(Places(a[1], Len(s), a[2]))
       [] last'.fn = "strcmp" -> v = Compared(Terminated(s), Terminated(t))
       [] last'.fn = "strncmp" -> v = Compared(Cut(Terminated(s), a[3]), Cut(Terminated(t), a[3]))
       [] last'.fn = "strcpy" -> mem' = Stored(a[1], Terminated(t)) /\ v = a[1]
       [] last'.fn = "strncpy" ->
            mem' = Stored(a[1], [k \in 1..a[3] |-> IF k <= Len(t) THEN t[k] ELSE 0]) /\ v = a[1]
       [] last'.fn = "strcat" -> mem' = Stored(a[1], Terminated(s \o t)) /\ v = a[1]
       [] last'.fn = "strncat" -> mem' = Stored(a[1], Terminated(s \o Cut(t, a[3]))) /\ v = a[1]
       [] last'.fn = "strlcat" ->
            /\ mem' = IF a[3] <= Len(s) THEN mem ELSE Stored(a[1], Terminated(Cut(s \o t, a[3] - 1)))
            /\ v = Len(Cut(s, a[3])) + Len(t)
       [] last'.fn = "strspn" -> v = Least({k - 1 : k \in {k \in DOMAIN s : s[k] \notin Range(t)}}, Len(s))
       [] last'.fn = "strcspn" -> v = Least({k - 1 : k \in {k \in DOMAIN s : s[k] \in Range(t)}}, Len(s))
       [] last'.fn = "strpbrk" -> v = FirstOf({a[1] + k - 1 : k \in {k \in DOMAIN s : s[k] \in Range(t)}})
       [] last'.fn = "strstr" -> v = IF t = <<>> THEN NULL ELSE FirstOf(Matches(a[1], Len(s), a[2], Len(t)))
       [] OTHER -> TRUE

\* The next piece of the string is what precedes the next delimiter, and the
\* rest begins after it; two delimiters in a row leave an empty piece between.
TokenPromise ==
  LET s == IF last'.args[1] = NULL THEN holder ELSE last'.args[1]
      cuts == {a \in s..(s + Len(TextAt(s)) - 1) : mem[a] \in CharsOf(last'.args[2])}
  IN last'.fn = "strtok" =>
       /\ last'.val = s
       /\ s # NULL => /\ holder' = IF cuts = {} THEN NULL ELSE Min(cuts) + 1
                      /\ mem' = [a \in DOMAIN mem |-> IF cuts # {} /\ a = Min(cuts) THEN 0 ELSE mem[a]]

(* Every string function does to the memory, and returns, what its name    *)
(* promises, whatever the previous call left behind: memmove leaves the    *)
(* direction flag set, the word copies of memcpy and memset must still go  *)
(* up; strtok goes on where it stopped; string.c:102-188, 571-577.         *)
StringCallsKeepTheirPromise == [][BlockPromise /\ StringPromise /\ TokenPromise]_vars

\* What a number says that is written in a base, most significant digit first.
NumberOf(digits, base) == FoldLeft(LAMBDA v, c : v * base + DigitValue(c), 0, digits)

\* The parts of a number's field: what precedes and follows its characters.
LeadingBlanks(out) == Least({k - 1 : k \in {k \in DOMAIN out : out[k] # " "}}, Len(out))

\* The sign that is to be printed in front of a signed number.
SignOf(d, v) ==
  CASE d.conv \notin {"d", "z"} -> <<>>
    [] d.conv \in {"d", "z"} /\ Signed(v) < 0 -> <<"-">>
    [] d.conv \in {"d", "z"} /\ Signed(v) >= 0 /\ "+" \in Range(d.flags) -> <<"+">>
    [] d.conv \in {"d", "z"} /\ Signed(v) >= 0 /\ "+" \notin Range(d.flags) /\ " " \in Range(d.flags) -> <<" ">>
    [] OTHER -> <<>>

BaseOf(conv) == CASE conv = "o" -> 8 [] conv \in {"d", "u"} -> 10 [] OTHER -> 16
PrefixOf(d, v) ==
  CASE d.conv \in {"x", "z"} /\ "#" \in Range(d.flags) /\ v # 0 -> <<"0", "x">>
    [] d.conv = "o" /\ "#" \in Range(d.flags) /\ v # 0 -> <<"0">>
    [] OTHER -> <<>>

MaxOf(S) == Max(S)

\* A number's field is as wide as asked or as needed; what is in it is sign,
\* prefix and digits that say the number, with at least the digits asked for.
NumberField(d, out) ==
  LET v == d.arg
      size == IF d.conv \in {"d", "z"} /\ Signed(v) < 0 THEN Long - v ELSE v
      front == SignOf(d, v) \o PrefixOf(d, v)
      left == d.leftAdjusted
      blank == IF left THEN 0 ELSE LeadingBlanks(out) - (IF SignOf(d, v) = <<" ">> /\ ~d.zero THEN 1 ELSE 0)
      body == SubSeq(out, 1 + (IF left \/ d.zero THEN 0 ELSE blank), Len(out))
      digits == SelectSeq(SubSeq(body, Len(front) + 1, Len(body)), LAMBDA c : c # " ")
      least == MaxOf({1, d.digits} \union {k \in 1..LongBits : size >= BaseOf(d.conv) ^ (k - 1)})
  IN /\ Len(out) = MaxOf({d.columns, Len(front) + least})
     /\ SubSeq(body, 1, Len(front)) = front
     /\ NumberOf(digits, BaseOf(d.conv)) = size
     /\ Len(digits) = IF d.zero THEN Len(out) - Len(front) ELSE least
     /\ left /\ ~d.zero => body = front \o digits \o Repeat(" ", Len(out) - Len(front) - least)
     /\ ~left => body = front \o digits

\* A string is cut to the precision and padded to the width.  (When it is cut
\* and left-adjusted, doprnt.c:365-376 puts one blank too few.)
StringField(d, out) ==
  LET shown == IF d.digits < 0 THEN d.arg ELSE Cut(d.arg, d.digits)
      blanks == Repeat(" ", d.columns - Len(shown)
                            - (IF d.leftAdjusted /\ shown # d.arg THEN 1 ELSE 0))
  IN out = IF d.leftAdjusted THEN shown \o blanks ELSE blanks \o shown

(* A conversion puts the number or the string it was given, in the field   *)
(* that flags, width and precision ask for, whatever their combination and *)
(* up to the most negative long; doprnt.c:334-379, 518-599.                *)
FieldsAsAsked ==
  last.fn = "sprintf" =>
    LET out == Front(last.val.stored)
    IN /\ last.val.len = Len(out)
       /\ IF last.args.conv = "s" THEN StringField(last.args, out) ELSE NumberField(last.args, out)

(* What reaches the console through printf's buffer is what sprintf stores,*)
(* in the same order, however newlines and full buffers cut it up; and     *)
(* snprintf stores a prefix of it, with the terminator behind as many      *)
(* characters as it was given room for, one byte too far;                  *)
(* printf.c:60-77, sprintf.c:53-66.                                        *)
OutputsAgree ==
  last.fn = "printf" =>
    /\ Append(last.val.console, NUL) = last.val.all.stored
    /\ \A size \in 0..4 :
         last.val.cut[size].stored = Append(Cut(last.val.console, size), NUL)
    /\ last.val.line = Append(last.args.fmt, "\n")

\* Formatted output is what the format asks for, whichever way it is put out.
OutputAsAsked == FieldsAsAsked /\ OutputsAgree

(* A number that was printed is read back, with the reader's base given or *)
(* found from the prefix, and the reader stops right after it: every long  *)
(* from the most negative to the largest; strtol.c:21-61, strtoul.c.       *)
NumbersReadBack ==
  last.fn = "strtol" => last.val = [val |-> last.args.v, out_p |-> last.args.end]

(* The division of 64-bit numbers by 32-bit instructions: quotient and     *)
(* remainder are exact when the quotient estimate had to be corrected, and *)
(* no step traps but for one divisor in each size, whose shifted value has *)
(* no successor in a word (div64.c:35-37); div64.c:26-64.                  *)
DivisionExact ==
  last.fn = "do_div64" =>
    LET x == last.args[1]
        y == last.args[2]
        unlucky == \E l \in 1..WordBits : y >= Word * (2 ^ (l - 1)) /\ y \div (2 ^ l) = Word - 1
    IN IF y = 0 THEN last.val = [val |-> 0, rem |-> x]
       ELSE IF unlucky THEN last.val = Trap
       ELSE last.val = [val |-> x \div y, rem |-> x % y]
=============================================================================
