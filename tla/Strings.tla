------------------------------ MODULE Strings ------------------------------
(***************************************************************************)
(* The string functions of shared/string.c.  A memory is a function from   *)
(* addresses to bytes, a pointer is an address and NULL is 0; a function   *)
(* that writes returns the memory it leaves along with its value.  Reading *)
(* or writing outside the memory is an error of the evaluation, so a run   *)
(* also shows that no function leaves the areas it is given.               *)
(*                                                                         *)
(* On i386 memcpy, memmove and memset are string instructions, which run   *)
(* up or down as the direction flag says.  memmove leaves the flag set     *)
(* when it copies from the end; the flag is therefore a state that one     *)
(* call leaves to the next (Up or Down).  A machine word of four bytes is  *)
(* scaled to WordBytes.                                                    *)
(***************************************************************************)
EXTENDS Integers, Sequences

CONSTANTS WordBytes,  \* bytes that movsl and stosl move at once: 4
          Byte        \* the values of a byte, 0..UCHAR_MAX

NULL == 0
Up == 1
Down == -1

Char(c) == c % 256

\* What a call gives back: the memory, the value and the direction flag.
Ret(m, v, df) == [mem |-> m, val |-> v, df |-> df]

---------------------------------------------------------------------------
(* The string instructions, with count units left of unit bytes each.      *)

RECURSIVE RepMovs(_, _, _, _, _, _)
RepMovs(m, dst, src, count, unit, df) ==
  IF count = 0 THEN m
  ELSE RepMovs([a \in DOMAIN m |-> IF a - dst \in 0..(unit - 1) THEN m[src + (a - dst)] ELSE m[a]],
               dst + df * unit, src + df * unit, count - 1, unit, df)

RECURSIVE RepStos(_, _, _, _, _, _)
RepStos(m, dst, c, count, unit, df) ==
  IF count = 0 THEN m
  ELSE RepStos([a \in DOMAIN m |-> IF a - dst \in 0..(unit - 1) THEN c ELSE m[a]],
               dst + df * unit, c, count - 1, unit, df)

\* Mutant: the flag is taken as the previous call left it.
memcpy_no_cld(m, df, dst, src, n) ==
  LET nl == n \div WordBytes
      words == RepMovs(m, dst, src, nl, WordBytes, df)
  IN Ret(RepMovs(words, dst + df * nl * WordBytes, src + df * nl * WordBytes, n % WordBytes, 1, df), dst, df)

\* Each begins with cld: whole words first, then the bytes that are left.
memcpy(m, df, dst, src, n) ==
  LET nl == n \div WordBytes
      words == RepMovs(m, dst, src, nl, WordBytes, Up)
  IN Ret(RepMovs(words, dst + nl * WordBytes, src + nl * WordBytes, n % WordBytes, 1, Up), dst, Up)

memset(m, df, dst, c, n) ==
  LET nl == n \div WordBytes
      words == RepStos(m, dst, Char(c), nl, WordBytes, Up)
  IN Ret(RepStos(words, dst + nl * WordBytes, Char(c), n % WordBytes, 1, Up), dst, Up)

\* From the start when the destination is lower (cld), else from the end (std).
memmove(m, df, dst, src, n) ==
  IF dst < src THEN Ret(RepMovs(m, dst, src, n, 1, Up), dst, Up)
  ELSE Ret(RepMovs(m, dst + n - 1, src + n - 1, n, 1, Down), dst, Down)

---------------------------------------------------------------------------
(* Areas of n bytes.                                                       *)

RECURSIVE CopyUntil(_, _, _, _, _)
CopyUntil(m, q, p, c, n) ==
  CASE n = 0 -> [mem |-> m, val |-> NULL]
    [] n > 0 /\ m[p] = Char(c) -> [mem |-> [m EXCEPT ![q] = m[p]], val |-> q + 1]
    [] OTHER -> CopyUntil([m EXCEPT ![q] = m[p]], q + 1, p + 1, c, n - 1)

memccpy(m, df, dst, src, c, n) ==
  LET r == CopyUntil(m, dst, src, c, n) IN Ret(r.mem, r.val, df)

RECURSIVE memchr(_, _, _, _)
memchr(m, s, c, n) ==
  IF n = 0 THEN NULL ELSE IF m[s] = Char(c) THEN s ELSE memchr(m, s + 1, c, n - 1)

RECURSIVE SearchDown(_, _, _, _)
SearchDown(m, sp, c, n) ==
  IF n = 0 THEN NULL ELSE IF m[sp] = Char(c) THEN sp ELSE SearchDown(m, sp - 1, c, n - 1)

memrchr(m, s, c, n) == SearchDown(m, s + n - 1, c, n)

RECURSIVE memcmp(_, _, _, _)
memcmp(m, s1, s2, n) ==
  IF n = 0 THEN 0
  ELSE LET d == m[s1] - m[s2] IN IF d # 0 THEN d ELSE memcmp(m, s1 + 1, s2 + 1, n - 1)

\* The "Not So Naive" search: the first two bytes of the needle decide how far
\* to go on after a mismatch (skip) and after a second byte that matched (step).
RECURSIVE NotSoNaive(_, _, _, _, _, _)
NotSoNaive(m, y, n, x, len, j) ==
  LET same == m[x] = m[x + 1]
      skip == IF same THEN 2 ELSE 1
      step == IF same THEN 1 ELSE 2
  IN CASE j > n - len -> NULL
       [] j <= n - len /\ m[x + 1] # m[y + j + 1] -> NotSoNaive(m, y, n, x, len, j + skip)
       [] OTHER -> IF memcmp(m, x + 2, y + j + 2, len - 2) = 0 /\ m[x] = m[y + j] THEN y + j
                   ELSE NotSoNaive(m, y, n, x, len, j + step)

memmem(m, haystack, n, needle, len) ==
  IF len > n \/ len = 0 \/ n = 0 THEN NULL
  ELSE IF len = 1 THEN memchr(m, haystack, m[needle], n)
  ELSE NotSoNaive(m, haystack, n, needle, len, 0)

RECURSIVE SwapBytes(_, _, _, _)
SwapBytes(m, p, q, n) ==
  IF n = 0 THEN m ELSE SwapBytes([m EXCEPT ![p] = m[q], ![q] = m[p]], p + 1, q + 1, n - 1)

memswap(m, df, m1, m2, n) == Ret(SwapBytes(m, m1, m2, n), NULL, df)

---------------------------------------------------------------------------
(* Strings, which end at a zero byte.                                      *)

RECURSIVE strlen(_, _)
strlen(m, s) == IF m[s] = 0 THEN 0 ELSE 1 + strlen(m, s + 1)

RECURSIVE strnlen(_, _, _)
strnlen(m, s, maxlen) == IF maxlen = 0 THEN 0 ELSE IF m[s] = 0 THEN 0 ELSE 1 + strnlen(m, s + 1, maxlen - 1)

RECURSIVE strchr(_, _, _)
strchr(m, s, c) ==
  IF m[s] = Char(c) THEN s ELSE IF m[s] = 0 THEN NULL ELSE strchr(m, s + 1, c)

RECURSIVE LastFound(_, _, _, _)
LastFound(m, s, c, found) ==
  IF m[s] = 0 THEN found ELSE LastFound(m, s + 1, c, IF m[s] = Char(c) THEN s ELSE found)

strrchr(m, s, c) == LastFound(m, s, c, NULL)

RECURSIVE strcmp(_, _, _)
strcmp(m, s1, s2) ==
  LET d == m[s1] - m[s2] IN IF d # 0 \/ m[s1] = 0 THEN d ELSE strcmp(m, s1 + 1, s2 + 1)

RECURSIVE strncmp(_, _, _, _)
strncmp(m, s1, s2, n) ==
  IF n = 0 THEN 0
  ELSE LET d == m[s1] - m[s2] IN IF d # 0 \/ m[s1] = 0 THEN d ELSE strncmp(m, s1 + 1, s2 + 1, n - 1)

RECURSIVE CopyString(_, _, _)
CopyString(m, q, p) ==
  LET w == [m EXCEPT ![q] = m[p]] IN IF m[p] = 0 THEN w ELSE CopyString(w, q + 1, p + 1)

strcpy(m, df, dst, src) == Ret(CopyString(m, dst, src), dst, df)
strcat(m, df, dst, src) == Ret(CopyString(m, strchr(m, dst, 0), src), dst, df)

RECURSIVE AppendAtMost(_, _, _, _)
AppendAtMost(m, q, p, n) ==
  IF n = 0 THEN [m EXCEPT ![q] = 0]
  ELSE LET w == [m EXCEPT ![q] = m[p]] IN IF m[p] = 0 THEN w ELSE AppendAtMost(w, q + 1, p + 1, n - 1)

strncat(m, df, dst, src, n) == Ret(AppendAtMost(m, strchr(m, dst, 0), src, n), dst, df)

\* The bytes that no longer fit are counted, not stored.
RECURSIVE AppendWithin(_, _, _, _, _)
AppendWithin(m, q, p, bytes, size) ==
  CASE m[p] = 0 -> [mem |-> [m EXCEPT ![q] = 0], val |-> bytes]
    [] m[p] # 0 /\ bytes + 1 < size -> AppendWithin([m EXCEPT ![q] = m[p]], q + 1, p + 1, bytes + 1, size)
    [] OTHER -> AppendWithin(m, q, p + 1, bytes + 1, size)

strlcat(m, df, dst, src, size) ==
  LET bytes == strnlen(m, dst, size)
      r == AppendWithin(m, dst + bytes, src, bytes, size)
  IN IF bytes = size THEN Ret(m, bytes + strlen(m, src), df) ELSE Ret(r.mem, r.val, df)

\* Copies up to n bytes and fills what is left with zeroes (memset).
RECURSIVE CopyAndFill(_, _, _, _, _)
CopyAndFill(m, df, q, p, n) ==
  LET w == [m EXCEPT ![q] = m[p]]
  IN CASE n = 0 -> m
       [] n > 0 /\ m[p] = 0 -> memset(w, df, q + 1, 0, n - 1).mem
       [] OTHER -> CopyAndFill(w, df, q + 1, p + 1, n - 1)

strncpy(m, df, dst, src, n) == Ret(CopyAndFill(m, df, dst, src, n), dst, Up)

---------------------------------------------------------------------------
(* Sets of characters, through a table of all byte values.                 *)

RECURSIVE SpanLength(_, _, _, _)
SpanLength(m, s, matchmap, parity) ==
  IF matchmap[m[s]] = parity THEN 0 ELSE 1 + SpanLength(m, s + 1, matchmap, parity)

\* The terminator is entered as parity, so that it always ends the span.
__strxspn(m, s, map, parity) ==
  LET chars == {m[a] : a \in map..(map + strlen(m, map) - 1)}
      matchmap == [b \in Byte |-> IF b = 0 THEN parity ELSE IF b \in chars THEN 1 ELSE 0]
  IN SpanLength(m, s, matchmap, parity)

strspn(m, s, accept) == __strxspn(m, s, accept, 0)
strcspn(m, s, reject) == __strxspn(m, s, reject, 1)

strpbrk(m, s, accept) ==
  LET ss == s + __strxspn(m, s, accept, 1) IN IF m[ss] # 0 THEN ss ELSE NULL

strstr(m, haystack, needle) == memmem(m, haystack, strlen(m, haystack), needle, strlen(m, needle))

\* Cuts the string at the first delimiter; next is what *stringp becomes.  The
\* table of strpbrk is cleared with memset, which leaves the direction flag Up.
strsep(m, df, s, delim) ==
  LET e == strpbrk(m, s, delim)
  IN CASE s = NULL -> [ret |-> Ret(m, NULL, df), next |-> NULL]
       [] s # NULL /\ e = NULL -> [ret |-> Ret(m, s, Up), next |-> NULL]
       [] OTHER -> [ret |-> Ret([m EXCEPT ![e] = 0], s, Up), next |-> e + 1]

\* holder is strtok's static variable: where the previous call stopped.
strtok(m, df, holder, s, delim) == strsep(m, df, IF s # NULL THEN s ELSE holder, delim)

=============================================================================
