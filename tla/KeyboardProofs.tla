--------------------------- MODULE KeyboardProofs ---------------------------
(***************************************************************************)
(* The keyboard driver: what a scancode does to the modifiers and to the   *)
(* keys that are down, and that it sends characters, for every table of    *)
(* keys and every key map.                                                 *)
(***************************************************************************)
EXTENDS Keyboard, FiniteSetTheorems, TLAPS

\* A NUL ends a string.
Chars == 1..255

-----------------------------------------------------------------------------
(* The keyboard driver *)

\* The states of the driver.
DriverSet == [prev : 0..256, key_down : SUBSET Mapped, k_down : [Modifier -> Nat],
              shift_state : SUBSET Modifier, npadch : Int, caps : BOOLEAN, num : BOOLEAN]

\* The counters of the modifiers, the modifiers in force and the keys down agree.
DriverOK(d) ==
    /\ d \in DriverSet /\ d.npadch >= -1 /\ IsFiniteSet(d.key_down)
    /\ \A v \in Modifier : d.k_down[v] = Cardinality(holders(d.key_down, v))
    /\ d.shift_state = {v \in Modifier : d.k_down[v] > 0}

\* The state of the driver, part by part.
LEMMA DriverFields ==
    ASSUME NEW d \in DriverSet
    PROVE  /\ d.prev \in 0..256 /\ d.key_down \subseteq Mapped /\ d.k_down \in [Modifier -> Nat]
           /\ d.shift_state \subseteq Modifier /\ d.npadch \in Int /\ d.caps \in BOOLEAN /\ d.num \in BOOLEAN
  BY DEF DriverSet

\* A handler leaves the keys alone and sends characters.
Sent(d, r) ==
    /\ DriverOK(r.drv) /\ r.drv.key_down = d.key_down /\ r.drv.prev = d.prev
    /\ r.out \in Seq(Chars)

\* A handler that sends str.
LEMMA Sends ==
    ASSUME NEW d, NEW e, DriverOK(e), e.key_down = d.key_down, e.prev = d.prev, NEW str \in Seq(Chars)
    PROVE  Sent(d, sends(e, str))
  BY DEF Sent, sends

\* A handler that sends nothing.
LEMMA Silent ==
    ASSUME NEW d, NEW e, DriverOK(e), e.key_down = d.key_down, e.prev = d.prev
    PROVE  Sent(d, silent(e))
<1>1. <<>> \in Seq(Chars)
  OBVIOUS
<1>2. QED
  BY <1>1, Sends DEF silent

\* A handler that sends ch.
LEMMA PutQueue ==
    ASSUME NEW d, NEW e, DriverOK(e), e.key_down = d.key_down, e.prev = d.prev, NEW ch \in 0..255
    PROVE  Sent(d, put_queue(e, ch))
<1>1. (IF ch = 0 THEN <<>> ELSE <<ch>>) \in Seq(Chars)
  <2>1. ASSUME ch # 0 PROVE <<ch>> \in Seq(Chars)
    <3>1. ch \in Chars
      BY <2>1 DEF Chars
    <3>2. QED
      BY <3>1
  <2>2. <<>> \in Seq(Chars)
    OBVIOUS
  <2>3. QED
    BY <2>1, <2>2
<1>2. QED
  BY <1>1, Sends DEF put_queue

\* The code typed on the pad and the locks do not matter to the modifiers.
LEMMA Alike ==
    ASSUME NEW d, DriverOK(d), NEW e \in DriverSet, e.npadch >= -1, e.key_down = d.key_down,
           e.k_down = d.k_down, e.shift_state = d.shift_state
    PROVE  DriverOK(e)
  BY DEF DriverOK

-----------------------------------------------------------------------------
(* The handlers *)

\* A function key.
LEMMA Function ==
    ASSUME NEW d, DriverOK(d), NEW v
    PROVE  Sent(d, do_fn(d, v))
<1>1. (IF v \in DOMAIN func_table THEN func_table[v] ELSE <<>>) \in Seq(Chars)
  BY KeyMapAssumption DEF Chars
<1>2. QED
  BY <1>1, Sends DEF do_fn

\* A cursor key.
LEMMA Application ==
    ASSUME NEW d, DriverOK(d), NEW letter \in Chars
    PROVE  Sent(d, applkey(d, letter))
<1>1. <<ESC, 91, letter>> \in Seq(Chars)
  BY DEF ESC, Chars
<1>2. QED
  BY <1>1, Sends DEF applkey

\* The four cursor keys.
LEMMA Cursors ==
    ASSUME NEW d, DriverOK(d), NEW v \in 0..3
    PROVE  Sent(d, do_cur(d, v))
<1>1. cur_chars[v + 1] \in Chars
  BY DEF cur_chars, Chars
<1>2. QED
  BY <1>1, Application DEF do_cur

\* The characters of the pad.
LEMMA PadChars == \A v \in 0..19 : pad_chars[v + 1] \in 0..255
  BY DEF pad_chars

\* A key of the pad.
LEMMA Pad ==
    ASSUME NEW d, DriverOK(d), NEW v \in 0..19
    PROVE  Sent(d, do_pad(d, v))
<1>1. v \in DOMAIN pad_cur => pad_cur[v] \in 0..3
  BY DEF pad_cur
<1>2. Sent(d, put_queue(d, pad_chars[v + 1]))
  BY PadChars, PutQueue
<1>3. Sent(d, applkey(d, 71))
  BY Application DEF Chars
<1>4. \A f : Sent(d, do_fn(d, f))
  BY Function
<1>5. v \in DOMAIN pad_cur => Sent(d, do_cur(d, pad_cur[v]))
  BY <1>1, Cursors
<1>6. QED
  BY <1>2, <1>3, <1>4, <1>5 DEF do_pad

\* A digit of a code.
LEMMA Ascii ==
    ASSUME NEW d, DriverOK(d), NEW v \in 0..25
    PROVE  Sent(d, do_ascii(d, v))
<1>1. PICK n \in Int : n = d.npadch /\ n >= -1
  BY DriverFields DEF DriverOK
<1> DEFINE digit == IF v < 10 THEN v ELSE v - 10
           base == IF v < 10 THEN 10 ELSE 16
           code == IF n = -1 THEN digit ELSE n * base + digit
<1>2. PICK m \in Int : m >= -1 /\ m = code
  <2>1. digit \in Nat /\ (v < 10 => base = 10) /\ (~(v < 10) => base = 16)
    OBVIOUS
  <2>2. CASE v < 10
    <3>1. code \in Int /\ code >= -1
      BY <1>1, <2>2
    <3>2. QED
      BY <3>1
  <2>3. CASE ~(v < 10)
    <3>1. code \in Int /\ code >= -1
      BY <1>1, <2>3
    <3>2. QED
      BY <3>1
  <2>4. QED
    BY <2>2, <2>3
<1>3. PICK e : e = [d EXCEPT !.npadch = m]
  OBVIOUS
<1>4. do_ascii(d, v) = silent(e)
  BY <1>1, <1>2, <1>3 DEF do_ascii
<1>5. /\ e \in DriverSet /\ e.npadch = m /\ e.key_down = d.key_down /\ e.prev = d.prev
      /\ e.k_down = d.k_down /\ e.shift_state = d.shift_state
  BY <1>2, <1>3 DEF DriverOK, DriverSet
<1>6. DriverOK(e)
  BY <1>2, <1>5, Alike
<1>7. QED
  BY <1>4, <1>5, <1>6, Silent

\* The modifiers may be computed anew from the keys that are down.
LEMMA Recomputed ==
    ASSUME NEW d \in DriverSet, d.npadch >= -1, IsFiniteSet(d.key_down)
    PROVE  LET e == compute_shiftstate(d)
           IN  DriverOK(e) /\ e.key_down = d.key_down /\ e.prev = d.prev
<1>1. PICK k : k = [v \in Modifier |-> Cardinality(holders(d.key_down, v))]
  OBVIOUS
<1>2. \A v \in Modifier : /\ Cardinality(holders(d.key_down, v)) \in Nat
                          /\ Cardinality(holders(d.key_down, v)) > 0 <=> holders(d.key_down, v) # {}
  <2>1. ASSUME NEW v \in Modifier
        PROVE  /\ Cardinality(holders(d.key_down, v)) \in Nat
               /\ Cardinality(holders(d.key_down, v)) > 0 <=> holders(d.key_down, v) # {}
    <3>1. holders(d.key_down, v) \subseteq d.key_down
      BY DEF holders
    <3>2. IsFiniteSet(holders(d.key_down, v))
      BY <3>1, FS_Subset
    <3>3. Cardinality(holders(d.key_down, v)) \in Nat
          /\ (Cardinality(holders(d.key_down, v)) = 0 <=> holders(d.key_down, v) = {})
      BY <3>2, FS_CardinalityType, FS_EmptySet
    <3>4. QED
      BY <3>3
  <2>2. QED
    BY <2>1
<1>3. k \in [Modifier -> Nat]
  BY <1>1, <1>2
<1>4. PICK s : s = {v \in Modifier : holders(d.key_down, v) # {}}
  OBVIOUS
<1>5. s = {v \in Modifier : k[v] > 0}
  BY <1>1, <1>2, <1>4
<1>6. PICK e : e = [d EXCEPT !.k_down = k, !.shift_state = s]
  OBVIOUS
<1>7. compute_shiftstate(d) = e
  BY <1>1, <1>4, <1>6 DEF compute_shiftstate
<1>8. /\ e \in DriverSet /\ e.k_down = k /\ e.shift_state = s /\ e.npadch = d.npadch
      /\ e.key_down = d.key_down /\ e.prev = d.prev
  BY <1>3, <1>4, <1>6 DEF DriverSet
<1>9. QED
  BY <1>1, <1>5, <1>7, <1>8 DEF DriverOK

\* A special key.
LEMMA Special ==
    ASSUME NEW d, DriverOK(d), NEW v, NEW rep \in BOOLEAN
    PROVE  Sent(d, spec_fn(d, v, rep))
<1>1. Sent(d, silent(compute_shiftstate(d)))
  BY Recomputed, Silent DEF DriverOK
<1>2. Sent(d, put_queue(d, 13)) /\ Sent(d, silent(d))
  BY PutQueue, Silent
<1>3. Sent(d, silent([d EXCEPT !.caps = ~@]))
  <2>1. PICK e : e = [d EXCEPT !.caps = ~@]
    OBVIOUS
  <2>2. /\ e \in DriverSet /\ e.npadch = d.npadch /\ e.key_down = d.key_down /\ e.prev = d.prev
        /\ e.k_down = d.k_down /\ e.shift_state = d.shift_state
    BY <2>1 DEF DriverOK, DriverSet
  <2>3. DriverOK(e)
    BY <2>2, Alike DEF DriverOK
  <2>4. QED
    BY <2>1, <2>2, <2>3, Silent
<1>4. Sent(d, silent([d EXCEPT !.num = ~@]))
  <2>1. PICK e : e = [d EXCEPT !.num = ~@]
    OBVIOUS
  <2>2. /\ e \in DriverSet /\ e.npadch = d.npadch /\ e.key_down = d.key_down /\ e.prev = d.prev
        /\ e.k_down = d.k_down /\ e.shift_state = d.shift_state
    BY <2>1 DEF DriverOK, DriverSet
  <2>3. DriverOK(e)
    BY <2>2, Alike DEF DriverOK
  <2>4. QED
    BY <2>1, <2>2, <2>3, Silent
<1>5. QED
  BY <1>1, <1>2, <1>3, <1>4 DEF spec_fn

\* Every key but a modifier.
LEMMA Handled ==
    ASSUME NEW d, DriverOK(d), NEW sym \in Symbol, sym[1] # "SHIFT", NEW up \in BOOLEAN, NEW rep \in BOOLEAN
    PROVE  Sent(d, key_handler(d, sym, up, rep))
<1>1. CASE up
  <2>1. key_handler(d, sym, up, rep) = silent(d)
    BY <1>1 DEF key_handler
  <2>2. QED
    BY <2>1, Silent
<1>2. CASE ~up
  <2>1. \/ sym[1] \in {"LATIN", "LETTER"} /\ sym[2] \in 0..255
        \/ sym[1] = "META" /\ sym[2] \in 1..255
        \/ sym[1] \in {"FN", "SPEC", "CONS"}
        \/ sym[1] = "PAD" /\ sym[2] \in 0..19
        \/ sym[1] = "CUR" /\ sym[2] \in 0..3
        \/ sym[1] = "ASCII" /\ sym[2] \in 0..25
    BY DEF Symbol
  <2>2. CASE sym[1] \in {"LATIN", "LETTER"} /\ sym[2] \in 0..255
    <3>1. key_handler(d, sym, up, rep) = put_queue(d, sym[2])
      BY <1>2, <2>2 DEF key_handler
    <3>2. QED
      BY <2>2, <3>1, PutQueue
  <2>3. CASE sym[1] = "META" /\ sym[2] \in 1..255
    <3>1. key_handler(d, sym, up, rep) = sends(d, <<ESC, sym[2]>>)
      BY <1>2, <2>3 DEF key_handler
    <3>2. <<ESC, sym[2]>> \in Seq(Chars)
      BY <2>3 DEF ESC, Chars
    <3>3. QED
      BY <3>1, <3>2, Sends
  <2>4. CASE sym[1] = "FN"
    BY <1>2, <2>4, Function DEF key_handler
  <2>5. CASE sym[1] = "SPEC"
    BY <1>2, <2>5, Special DEF key_handler
  <2>6. CASE sym[1] = "CONS"
    BY <1>2, <2>6, Silent DEF key_handler
  <2>7. CASE sym[1] = "PAD" /\ sym[2] \in 0..19
    <3>1. key_handler(d, sym, up, rep) = do_pad(d, sym[2])
      BY <1>2, <2>7 DEF key_handler
    <3>2. QED
      BY <2>7, <3>1, Pad
  <2>8. CASE sym[1] = "CUR" /\ sym[2] \in 0..3
    <3>1. key_handler(d, sym, up, rep) = do_cur(d, sym[2])
      BY <1>2, <2>8 DEF key_handler
    <3>2. QED
      BY <2>8, <3>1, Cursors
  <2>9. CASE sym[1] = "ASCII" /\ sym[2] \in 0..25
    <3>1. key_handler(d, sym, up, rep) = do_ascii(d, sym[2])
      BY <1>2, <2>9 DEF key_handler
    <3>2. QED
      BY <2>9, <3>1, Ascii
  <2>10. QED
    BY <2>1, <2>2, <2>3, <2>4, <2>5, <2>6, <2>7, <2>8, <2>9
<1>3. QED
  BY <1>1, <1>2

-----------------------------------------------------------------------------
(* Keys that go down and up *)

\* A key is a modifier in all maps or in none.
Is(key, v) == key_maps[{}][key] = <<"SHIFT", v>>

\* A modifier has one key more, or one less; another key changes nothing.
LEMMA OneMore ==
    ASSUME NEW down, IsFiniteSet(down), NEW key, key \notin down, NEW v \in Modifier
    PROVE  IF Is(key, v) THEN Cardinality(holders(down \union {key}, v)) = Cardinality(holders(down, v)) + 1
           ELSE holders(down \union {key}, v) = holders(down, v)
<1>1. CASE Is(key, v)
  <2>1. holders(down \union {key}, v) = holders(down, v) \union {key} /\ key \notin holders(down, v)
    BY <1>1 DEF holders, Is
  <2>2. IsFiniteSet(holders(down, v))
    <3>1. holders(down, v) \subseteq down
      BY DEF holders
    <3>2. QED
      BY <3>1, FS_Subset
  <2>3. QED
    BY <1>1, <2>1, <2>2, FS_AddElement
<1>2. CASE ~Is(key, v)
  BY <1>2 DEF holders, Is
<1>3. QED
  BY <1>1, <1>2

\* A key goes up.
LEMMA OneLess ==
    ASSUME NEW down, IsFiniteSet(down), NEW key \in down, NEW v \in Modifier
    PROVE  IF Is(key, v) THEN /\ Cardinality(holders(down \ {key}, v)) = Cardinality(holders(down, v)) - 1
                              /\ Cardinality(holders(down, v)) > 0
           ELSE holders(down \ {key}, v) = holders(down, v)
<1>1. CASE Is(key, v)
  <2>1. holders(down \ {key}, v) = holders(down, v) \ {key} /\ key \in holders(down, v)
    BY <1>1 DEF holders, Is
  <2>2. IsFiniteSet(holders(down, v))
    <3>1. holders(down, v) \subseteq down
      BY DEF holders
    <3>2. QED
      BY <3>1, FS_Subset
  <2>3. Cardinality(holders(down, v)) \in Nat /\ Cardinality(holders(down, v)) # 0
    BY <2>1, <2>2, FS_CardinalityType, FS_EmptySet
  <2>4. Cardinality(holders(down, v) \ {key}) = Cardinality(holders(down, v)) - 1
    BY <2>1, <2>2, FS_RemoveElement
  <2>5. QED
    BY <1>1, <2>1, <2>3, <2>4
<1>2. CASE ~Is(key, v)
  BY <1>2 DEF holders, Is
<1>3. QED
  BY <1>1, <1>2

\* A key more or less.
LEMMA Finite ==
    ASSUME NEW down, IsFiniteSet(down), NEW key
    PROVE  IsFiniteSet(down \union {key}) /\ IsFiniteSet(down \ {key})
  BY FS_AddElement, FS_RemoveElement

\* The driver state d with the keys down and the prefix p.
typing(d, p, down) == [d EXCEPT !.prev = p, !.key_down = down]

\* The other variables stay.
LEMMA Typing ==
    ASSUME NEW d \in DriverSet, NEW p \in 0..256, NEW down \in SUBSET Mapped, NEW e, e = typing(d, p, down)
    PROVE  /\ e \in DriverSet /\ e.prev = p /\ e.key_down = down /\ e.k_down = d.k_down
           /\ e.shift_state = d.shift_state /\ e.npadch = d.npadch
  BY DEF typing, DriverSet

\* The counter of v becomes n.
counting(e, v, n) ==
    [e EXCEPT !.k_down[v] = n, !.shift_state = IF n > 0 THEN e.shift_state \union {v} ELSE e.shift_state \ {v}]

\* A counter that is right makes the driver right.
LEMMA Counting ==
    ASSUME NEW e \in DriverSet, NEW v \in Modifier, NEW n \in Nat, e.npadch >= -1, IsFiniteSet(e.key_down),
           e.shift_state = {w \in Modifier : e.k_down[w] > 0},
           n = Cardinality(holders(e.key_down, v)),
           \A w \in Modifier : w # v => e.k_down[w] = Cardinality(holders(e.key_down, w)),
           NEW f, f = counting(e, v, n)
    PROVE  DriverOK(f) /\ f.key_down = e.key_down /\ f.prev = e.prev /\ f.npadch = e.npadch
<1>1. PICK k : k = [e.k_down EXCEPT ![v] = n]
  OBVIOUS
<1>2. PICK s : s = IF n > 0 THEN e.shift_state \union {v} ELSE e.shift_state \ {v}
  OBVIOUS
<1>3. e.k_down \in [Modifier -> Nat] /\ e.shift_state \subseteq Modifier
  BY DriverFields
<1>4. k \in [Modifier -> Nat] /\ k[v] = n /\ \A w \in Modifier : w # v => k[w] = e.k_down[w]
  BY <1>1, <1>3
<1>5. s \subseteq Modifier
  BY <1>2, <1>3
<1>6. s = {w \in Modifier : k[w] > 0}
  BY <1>2, <1>4
<1>7. f = [e EXCEPT !.k_down = k, !.shift_state = s]
  BY <1>1, <1>2 DEF counting
<1>8. /\ f \in DriverSet /\ f.k_down = k /\ f.shift_state = s /\ f.npadch = e.npadch
      /\ f.key_down = e.key_down /\ f.prev = e.prev
  BY <1>4, <1>5, <1>7 DEF DriverSet
<1>9. \A w \in Modifier : k[w] = Cardinality(holders(e.key_down, w))
  BY <1>4
<1>10. QED
  BY <1>6, <1>8, <1>9 DEF DriverOK

\* Key goes down, repeats, or goes up, when it was down.
Moves(d, key, released) == key \in Mapped /\ (released => key \in d.key_down)

\* The keys down after that.
downs(d, key, released) == IF released THEN d.key_down \ {key} ELSE d.key_down \union {key}

\* A modifier counts the keys that hold it.
LEMMA Shifts ==
    ASSUME NEW d, DriverOK(d), NEW key, NEW released \in BOOLEAN, Moves(d, key, released),
           NEW v \in Modifier, Is(key, v), NEW p \in 0..256,
           NEW e, e = typing(d, p, downs(d, key, released)),
           NEW rep, rep <=> ~released /\ key \in d.key_down
    PROVE  Sent(e, do_shift(e, v, released, rep))
<1>0. d \in DriverSet /\ IsFiniteSet(d.key_down) /\ d.npadch \in Int /\ d.npadch >= -1
  BY DriverFields DEF DriverOK
<1>1. PICK down \in SUBSET Mapped : down = downs(d, key, released) /\ IsFiniteSet(down)
  <2>1. d.key_down \subseteq Mapped /\ key \in Mapped
    BY <1>0, DriverFields DEF Moves
  <2>2. QED
    <3>1. d.key_down \ {key} \in SUBSET Mapped /\ d.key_down \union {key} \in SUBSET Mapped
      BY <2>1
    <3>2. IsFiniteSet(d.key_down \ {key}) /\ IsFiniteSet(d.key_down \union {key})
      BY <1>0, Finite
    <3>3. QED
      BY <3>1, <3>2 DEF downs
<1>2. /\ e \in DriverSet /\ e.prev = p /\ e.key_down = down /\ e.k_down = d.k_down
      /\ e.shift_state = d.shift_state /\ e.npadch = d.npadch
  BY <1>0, <1>1, Typing
<1>3. \A w \in Modifier : e.k_down[w] = Cardinality(holders(d.key_down, w))
  BY <1>2 DEF DriverOK
<1>4. e.shift_state = {w \in Modifier : e.k_down[w] > 0}
  BY <1>2 DEF DriverOK
<1>5. \A w \in Modifier : w # v => ~Is(key, w)
  BY DEF Is
<1>6. e.k_down \in [Modifier -> Nat] /\ e.k_down[v] \in Nat
  BY <1>2, DriverFields
<1>7. CASE rep
  <2>1. down = d.key_down
    BY <1>1, <1>7 DEF downs
  <2>2. DriverOK(e)
    BY <1>0, <1>2, <1>3, <1>4, <2>1 DEF DriverOK
  <2>3. do_shift(e, v, released, rep) = silent(e)
    BY <1>7 DEF do_shift
  <2>4. QED
    BY <2>2, <2>3, Silent
<1>8. CASE ~rep /\ ~released
  <2>1. key \notin d.key_down /\ down = d.key_down \union {key}
    BY <1>1, <1>8 DEF downs
  <2>2. PICK n \in Nat : n = e.k_down[v] + 1
    BY <1>6
  <2>3. n = Cardinality(holders(down, v))
    BY <1>0, <1>3, <2>1, <2>2, OneMore
  <2>4. \A w \in Modifier : w # v => e.k_down[w] = Cardinality(holders(down, w))
    BY <1>0, <1>3, <1>5, <2>1, OneMore
  <2>5. PICK f : f = counting(e, v, n)
    OBVIOUS
  <2>6. DriverOK(f) /\ f.key_down = e.key_down /\ f.prev = e.prev
    BY <1>0, <1>1, <1>2, <1>4, <2>3, <2>4, <2>5, Counting
  <2>7. do_shift(e, v, released, rep) = silent(f)
    BY <1>8, <2>2, <2>5 DEF do_shift, counting
  <2>8. QED
    BY <2>6, <2>7, Silent
<1>9. CASE ~rep /\ released
  <2>1. key \in d.key_down /\ down = d.key_down \ {key}
    BY <1>1, <1>9 DEF downs, Moves
  <2>a. /\ Cardinality(holders(down, v)) = e.k_down[v] - 1 /\ e.k_down[v] > 0
    BY <1>0, <1>3, <2>1, OneLess
  <2>2. PICK n \in Nat : n = e.k_down[v] - 1
    BY <1>6, <2>a
  <2>3. n = Cardinality(holders(down, v))
    BY <2>a, <2>2
  <2>4. \A w \in Modifier : w # v => e.k_down[w] = Cardinality(holders(down, w))
    BY <1>0, <1>3, <1>5, <2>1, OneLess
  <2>5. PICK f : f = counting(e, v, n)
    OBVIOUS
  <2>6. DriverOK(f) /\ f.key_down = e.key_down /\ f.prev = e.prev /\ f.npadch = e.npadch
    BY <1>0, <1>1, <1>2, <1>4, <2>3, <2>4, <2>5, Counting
  <2>7. PICK g : g = [f EXCEPT !.npadch = -1]
    OBVIOUS
  <2>8. do_shift(e, v, released, rep) = silent(f)
        \/ (e.npadch # -1 /\ do_shift(e, v, released, rep) = put_queue(g, e.npadch % 256))
    <3>1. (IF e.k_down[v] > 0 THEN e.k_down[v] - 1 ELSE 0) = n
      BY <2>a, <2>2
    <3>2. PICK s : s = IF n > 0 THEN e.shift_state \union {v} ELSE e.shift_state \ {v}
      OBVIOUS
    <3>3. f = [e EXCEPT !.k_down[v] = n, !.shift_state = s]
      BY <2>5, <3>2 DEF counting
    <3>4. do_shift(e, v, released, rep) =
             IF released /\ s # e.shift_state /\ e.npadch # -1
             THEN put_queue([f EXCEPT !.npadch = -1], e.npadch % 256) ELSE silent(f)
      <4>1. PICK m : m = IF released THEN IF e.k_down[v] > 0 THEN e.k_down[v] - 1 ELSE 0
                         ELSE e.k_down[v] + 1
        OBVIOUS
      <4>2. PICK h : h = IF m > 0 THEN e.shift_state \union {v} ELSE e.shift_state \ {v}
        OBVIOUS
      <4>3. do_shift(e, v, released, rep) =
               IF rep THEN silent(e)
               ELSE IF released /\ h # e.shift_state /\ e.npadch # -1
               THEN put_queue([[e EXCEPT !.k_down[v] = m, !.shift_state = h] EXCEPT !.npadch = -1], e.npadch % 256)
               ELSE silent([e EXCEPT !.k_down[v] = m, !.shift_state = h])
        BY <4>1, <4>2 DEF do_shift
      <4>4. m = n /\ h = s
        BY <1>9, <3>1, <3>2, <4>1, <4>2
      <4>5. QED
        BY <1>9, <3>3, <4>3, <4>4
    <3>5. QED
      BY <2>7, <3>4
  <2>9. g \in DriverSet /\ g.npadch = -1 /\ g.key_down = f.key_down /\ g.prev = f.prev
        /\ g.k_down = f.k_down /\ g.shift_state = f.shift_state
    BY <2>6, <2>7 DEF DriverOK, DriverSet
  <2>10. DriverOK(g)
    BY <2>6, <2>9, Alike
  <2>11. e.npadch % 256 \in 0..255
    BY <1>0, <1>2
  <2>12. Sent(e, silent(f))
    BY <2>6, Silent
  <2>13. Sent(e, put_queue(g, e.npadch % 256))
    BY <2>6, <2>9, <2>10, <2>11, PutQueue
  <2>14. QED
    BY <2>8, <2>12, <2>13
<1>10. QED
  BY <1>7, <1>8, <1>9

-----------------------------------------------------------------------------
(* One byte *)

\* CapsLock changes the map, but not what is a modifier.
LEMMA Keysym ==
    ASSUME NEW d \in DriverSet, d.shift_state \in DOMAIN key_maps, NEW key \in Mapped
    PROVE  /\ keysym(d, key) \in Symbol
           /\ \A v \in Modifier : keysym(d, key) = <<"SHIFT", v>> <=> Is(key, v)
<1>1. \A s \in DOMAIN key_maps : /\ key_maps[s][key] \in Symbol
                                 /\ \A v \in Modifier : key_maps[s][key] = <<"SHIFT", v>> <=> Is(key, v)
  BY KeyMapAssumption DEF Is
<1>2. \E s \in DOMAIN key_maps : keysym(d, key) = key_maps[s][key]
  BY DEF keysym
<1>3. QED
  BY <1>1, <1>2

\* The symbol of a modifier names it.
LEMMA Modifiers ==
    ASSUME NEW sym \in Symbol, sym[1] = "SHIFT"
    PROVE  \E v \in Modifier : sym = <<"SHIFT", v>>
  BY DEF Symbol

\* A key that is no modifier leaves the counters right.
LEMMA Unmodified ==
    ASSUME NEW d, DriverOK(d), NEW key, NEW released \in BOOLEAN, Moves(d, key, released),
           \A v \in Modifier : ~Is(key, v), NEW p \in 0..256,
           NEW e, e = typing(d, p, downs(d, key, released))
    PROVE  DriverOK(e)
<1>0. d \in DriverSet /\ IsFiniteSet(d.key_down) /\ d.npadch \in Int /\ d.npadch >= -1
  BY DriverFields DEF DriverOK
<1>1. PICK down \in SUBSET Mapped : down = downs(d, key, released) /\ IsFiniteSet(down)
  <2>1. d.key_down \subseteq Mapped /\ key \in Mapped
    BY <1>0, DriverFields DEF Moves
  <2>2. QED
    <3>1. d.key_down \ {key} \in SUBSET Mapped /\ d.key_down \union {key} \in SUBSET Mapped
      BY <2>1
    <3>2. IsFiniteSet(d.key_down \ {key}) /\ IsFiniteSet(d.key_down \union {key})
      BY <1>0, Finite
    <3>3. QED
      BY <3>1, <3>2 DEF downs
<1>2. /\ e \in DriverSet /\ e.prev = p /\ e.key_down = down /\ e.k_down = d.k_down
      /\ e.shift_state = d.shift_state /\ e.npadch = d.npadch
  BY <1>0, <1>1, Typing
<1>3. \A v \in Modifier : holders(down, v) = holders(d.key_down, v)
  BY <1>1 DEF downs, holders, Is
<1>4. QED
  BY <1>0, <1>1, <1>2, <1>3 DEF DriverOK

\* The byte, decoded as t, names no key, or key, which is down if it goes up.
Names(d, byte, key, t) ==
    /\ t = kbd_translate(d.prev, byte) /\ t.prev \in 0..256 /\ t.keycode \in {0, key}
    /\ t.keycode # 0 /\ byte >= 128 => key \in d.key_down

\* The driver passes on characters, and takes key to be down or not.
Hears(d, byte, key, t, r) ==
    /\ DriverOK(r.drv) /\ r.out \in Seq(Chars) /\ r.drv.prev = t.prev
    /\ r.drv.key_down = IF t.keycode = 0 THEN d.key_down
                        ELSE IF byte >= 128 THEN d.key_down \ {key} ELSE d.key_down \union {key}

\* What such a byte does.
LEMMA Scancode ==
    ASSUME NEW d, DriverOK(d), NEW byte \in 1..254, NEW key \in Mapped \ {0}, NEW t,
           Names(d, byte, key, t), NEW r, r = do_scancode(d, byte)
    PROVE  Hears(d, byte, key, t, r)
<1>0. d \in DriverSet /\ IsFiniteSet(d.key_down) /\ d.npadch \in Int /\ d.npadch >= -1
  BY DriverFields DEF DriverOK
<1>a. /\ t = kbd_translate(d.prev, byte) /\ t.prev \in 0..256 /\ t.keycode \in {0, key}
      /\ t.keycode # 0 /\ byte >= 128 => key \in d.key_down
  BY DEF Names
<1>1. r = handle_scancode(d, byte)
  BY DEF do_scancode
<1>2. CASE t.keycode = 0
  <2>1. PICK e : e = typing(d, t.prev, d.key_down)
    OBVIOUS
  <2>2. [d EXCEPT !.prev = t.prev] = e
    BY <1>0, <2>1 DEF typing, DriverSet
  <2>3. handle_scancode(d, byte) = silent(e)
    BY <1>2, <1>a, <2>2 DEF handle_scancode
  <2>4. /\ e \in DriverSet /\ e.prev = t.prev /\ e.key_down = d.key_down /\ e.k_down = d.k_down
        /\ e.shift_state = d.shift_state /\ e.npadch = d.npadch
    <3>1. PICK down \in SUBSET Mapped : down = d.key_down
      BY <1>0, DriverFields
    <3>2. PICK p \in 0..256 : p = t.prev
      BY <1>a
    <3>3. e = typing(d, p, down)
      BY <2>1, <3>1, <3>2
    <3>4. /\ e \in DriverSet /\ e.prev = p /\ e.key_down = down /\ e.k_down = d.k_down
          /\ e.shift_state = d.shift_state /\ e.npadch = d.npadch
      BY <1>0, <3>3, Typing
    <3>5. QED
      BY <3>1, <3>2, <3>4
  <2>5. DriverOK(e)
    BY <1>0, <2>4, Alike
  <2>6. Sent(e, silent(e))
    BY <2>5, Silent
  <2>7. QED
    BY <1>1, <1>2, <2>3, <2>4, <2>6 DEF Sent, Hears
<1>3. CASE t.keycode = key
  <2>1. PICK released \in BOOLEAN : released <=> byte >= 128
    OBVIOUS
  <2>2. Moves(d, key, released)
    BY <1>3, <1>a, <2>1 DEF Moves
  <2>3. PICK down \in SUBSET Mapped : down = downs(d, key, released) /\ IsFiniteSet(down)
    <3>1. d.key_down \subseteq Mapped /\ key \in Mapped
      BY <1>0, DriverFields
    <3>2. QED
      <4>1. d.key_down \ {key} \in SUBSET Mapped /\ d.key_down \union {key} \in SUBSET Mapped
        BY <3>1
      <4>2. IsFiniteSet(d.key_down \ {key}) /\ IsFiniteSet(d.key_down \union {key})
        BY <1>0, Finite
      <4>3. QED
        BY <4>1, <4>2 DEF downs
  <2>4. PICK e : e = typing(d, t.prev, down)
    OBVIOUS
  <2>5. /\ e \in DriverSet /\ e.prev = t.prev /\ e.key_down = down /\ e.k_down = d.k_down
        /\ e.shift_state = d.shift_state /\ e.npadch = d.npadch
    <3>1. PICK p \in 0..256 : p = t.prev
      BY <1>a
    <3>2. e = typing(d, p, down)
      BY <2>4, <3>1
    <3>3. /\ e \in DriverSet /\ e.prev = p /\ e.key_down = down /\ e.k_down = d.k_down
          /\ e.shift_state = d.shift_state /\ e.npadch = d.npadch
      BY <1>0, <3>2, Typing
    <3>4. QED
      BY <3>1, <3>3
  <2>6. PICK rep \in BOOLEAN : rep <=> ~released /\ key \in d.key_down
    OBVIOUS
  <2>7. handle_scancode(d, byte) =
           IF d.shift_state \notin DOMAIN key_maps THEN silent(compute_shiftstate(e))
           ELSE key_handler(e, keysym(e, key), released, rep)
    <3>1. (released /\ (key \in d.key_down \/ kbd_unexpected_up(key))) <=> released
      BY <2>2 DEF Moves
    <3>2. [d EXCEPT !.prev = t.prev, !.key_down = IF released THEN @ \ {key} ELSE @ \union {key}] = e
      BY <1>0, <2>3, <2>4 DEF typing, downs, DriverSet
    <3>3. QED
      BY <1>3, <1>a, <2>1, <2>6, <3>1, <3>2 DEF handle_scancode
  <2>8. Sent(e, handle_scancode(d, byte))
    <3>1. CASE d.shift_state \notin DOMAIN key_maps
      <4>1. DriverOK(compute_shiftstate(e)) /\ compute_shiftstate(e).key_down = e.key_down
            /\ compute_shiftstate(e).prev = e.prev
        BY <1>0, <2>3, <2>5, Recomputed
      <4>2. QED
        BY <2>7, <3>1, <4>1, Silent
    <3>2. CASE d.shift_state \in DOMAIN key_maps
      <4>1. PICK sym \in Symbol : /\ sym = keysym(e, key)
                                  /\ \A v \in Modifier : sym = <<"SHIFT", v>> <=> Is(key, v)
        BY <2>5, <3>2, Keysym
      <4>2. CASE sym[1] = "SHIFT"
        <5>1. PICK v \in Modifier : sym = <<"SHIFT", v>>
          BY <4>1, <4>2, Modifiers
        <5>2. key_handler(e, sym, released, rep) = do_shift(e, v, released, rep)
          BY <5>1 DEF key_handler
        <5>3. Is(key, v)
          BY <4>1, <5>1
        <5>4. Sent(e, do_shift(e, v, released, rep))
          BY <1>a, <2>1, <2>2, <2>3, <2>4, <2>6, <5>1, <5>3, Shifts
        <5>5. QED
          BY <2>7, <3>2, <4>1, <5>2, <5>4
      <4>3. CASE sym[1] # "SHIFT"
        <5>1. \A v \in Modifier : ~Is(key, v)
          BY <4>1, <4>3
        <5>2. DriverOK(e)
          BY <1>a, <2>1, <2>2, <2>3, <2>4, <5>1, Unmodified
        <5>3. Sent(e, key_handler(e, sym, released, rep))
          BY <2>1, <2>6, <4>1, <4>3, <5>2, Handled
        <5>4. QED
          BY <2>7, <3>2, <4>1, <5>3
      <4>4. QED
        BY <4>2, <4>3
    <3>3. QED
      BY <3>1, <3>2
  <2>9. down = IF byte >= 128 THEN d.key_down \ {key} ELSE d.key_down \union {key}
    BY <2>1, <2>3 DEF downs
  <2>10. QED
    BY <1>1, <1>3, <2>5, <2>8, <2>9 DEF Sent, Hears
<1>4. QED
  BY <1>2, <1>3, <1>a
=============================================================================
