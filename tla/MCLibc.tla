------------------------------- MODULE MCLibc -------------------------------
(***************************************************************************)
(* The library on small arguments: two strings of up to three and two      *)
(* bytes over an alphabet with a byte above 127, every long of eight bits, *)
(* every 64-bit division scaled to words of four bits, and every           *)
(* combination of flags, width and precision of a conversion.              *)
(***************************************************************************)
EXTENDS Libc

MCByte == {0, 97, 200}
\* The areas are 3..6 and 7..9; the two bytes before them belong to nobody.
MCSizeOf == (3 :> 4) @@ (7 :> 3)
MCMemories == {m \in [1..9 -> MCByte] : \A a \in {1, 2, 6, 9} : m[a] = 0}
MCChars == {0, 97, 200 + 256}

FlagSets == {<<>>, <<"-">>, <<"+">>, <<" ">>, <<"#">>, <<"0">>, <<"-", "0">>, <<"+", " ">>, <<" ", "+", "#">>,
             <<"#", "0">>, <<"#", "-">>, <<"+", "0">>, <<"-", " ">>}
\* A width is written out or given as an argument, negative to turn it round.
Widths == {[text |-> <<>>, star |-> <<>>, columns |-> 0, turn |-> FALSE],
           [text |-> <<"1">>, star |-> <<>>, columns |-> 1, turn |-> FALSE],
           [text |-> <<"1", "2">>, star |-> <<>>, columns |-> 12, turn |-> FALSE],
           [text |-> <<"*">>, star |-> <<5>>, columns |-> 5, turn |-> FALSE],
           [text |-> <<"*">>, star |-> <<-6>>, columns |-> 6, turn |-> TRUE]}
Precisions == {[text |-> <<>>, star |-> <<>>, digits |-> -1],
               [text |-> <<".", "2">>, star |-> <<>>, digits |-> 2],
               [text |-> <<".", "*">>, star |-> <<7>>, digits |-> 7]}
Numbers == {0, 1, 9, 100, 127, 128, 255}
Strings3 == {<<>>, <<"h">>, <<"h", "e", "l", "l", "o">>}

Directive(f, w, p, c, a) ==
  [flags |-> f, width |-> w.text, prec |-> p.text, star |-> w.star \o p.star, conv |-> c, arg |-> a,
   columns |-> w.columns, digits |-> p.digits, zero |-> "0" \in Range(f),
   leftAdjusted |-> ("-" \in Range(f)) # w.turn]

\* Every combination, '0' with a precision or with a string included.
MCDirectives ==
  {Directive(f, w, p, c, a) : f \in FlagSets, w \in Widths, p \in Precisions,
                              c \in {"d", "u", "o", "x", "z"}, a \in Numbers}
  \union {Directive(f, w, p, "s", a) : f \in FlagSets, w \in Widths, p \in Precisions, a \in Strings3}

Bits == [base |-> 8, items |-> <<[bit |-> 4, low |-> 3, name |-> <<"F", "=">>],
                                 [bit |-> 2, low |-> 0, name |-> <<"B">>],
                                 [bit |-> 1, low |-> 0, name |-> <<"A">>]>>]
Call(fmt, args) == [fmt |-> fmt, args |-> args]
MCFormats ==
  {Call(<<>>, <<>>),
   Call(<<"a", "b", "c", "d", "e">>, <<>>),
   Call(<<"a", "b", "c", "\n", "d", "e", "f", "g">>, <<>>),
   Call(<<"\n", "%", "s", "\n">>, <<<<"x", "y", "z", "t">>>>),
   Call(<<"%", "c", "%", "c", "%", "%", "%", "y">>, <<NUL, "q">>),
   Call(<<"%", "d", "%", "-", "5", "s", "|", "%", "l", "i">>, <<255, <<"n">>, 3>>),
   Call(<<"%", "p", " ", "%", "#", "X">>, <<171, 171>>),
   Call(<<"%", "b", "%">>, <<11, Bits>>),
   Call(<<"%", "b">>, <<0, Bits>>)}

MCReadable ==
  {[flags |-> <<>>, conv |-> "d", base |-> b, signed |-> TRUE, lead |-> <<" ", "\t">>, tail |-> <<"g">>] : b \in {0, 10}}
  \union {[flags |-> <<"#">>, conv |-> c, base |-> 0, signed |-> s, lead |-> <<"\n">>, tail |-> <<" ", "1">>] :
            c \in {"x", "o", "z"}, s \in {TRUE}}
  \union {[flags |-> f, conv |-> "x", base |-> 16, signed |-> FALSE, lead |-> <<>>, tail |-> <<>>] :
            f \in {<<>>, <<"#">>}}
  \union {[flags |-> <<"0", "9">>, conv |-> "u", base |-> 10, signed |-> FALSE, lead |-> <<>>, tail |-> <<",">>],
          [flags |-> <<>>, conv |-> "o", base |-> 8, signed |-> FALSE, lead |-> <<" ">>, tail |-> <<"8">>]}
=============================================================================
