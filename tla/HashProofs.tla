------------------------------ MODULE HashProofs ------------------------------
(***************************************************************************)
(* The table of hash.c is consistent, its searches end, and it implements  *)
(* a map, for every set of keys and every least size, as long as the heap  *)
(* refuses memory so rarely that the least table cannot fill up.           *)
(*                                                                         *)
(* Powers of two; the recurrence 5 * index + 1 visits every slot; what     *)
(* hash_lookup returns; hash_copy; the inductive invariant; the calls; the *)
(* theorems.                                                               *)
(***************************************************************************)
EXTENDS Hash, PrioQueueProofs, FiniteSetTheorems

-----------------------------------------------------------------------------
(* Powers of two *)

\* pow2 is a function on the naturals and follows its recursion.
LEMMA Pow2 ==
    /\ pow2 \in [Nat -> Nat] /\ pow2[0] = 1
    /\ \A n \in Nat : pow2[n + 1] = 2 * pow2[n]
<1> DEFINE F == [x \in Nat \X Nat |-> 2 * x[2]]
<1>1. F \in [Nat \X Nat -> Nat]
  OBVIOUS
<1>2. PICK g \in [Nat -> Nat] : g[0] = 1 /\ \A i \in Nat : g[i + 1] = F[<<i, g[i]>>]
  <2>1. 1 \in Nat
    OBVIOUS
  <2> HIDE DEF F
  <2>2. \E g : Follows(g, Nat, 1, F)
    BY <1>1, <2>1, Recursion
  <2>3. QED
    BY <2>2 DEF Follows
<1>3. \A i \in Nat : g[i + 1] = 2 * g[i]
  BY <1>2
<1> DEFINE rec(f) == [n \in Nat |-> IF n = 0 THEN 1 ELSE 2 * f[n - 1]]
<1>4. g = rec(g)
  <2>1. ASSUME NEW n \in Nat PROVE g[n] = IF n = 0 THEN 1 ELSE 2 * g[n - 1]
    <3>1. CASE n = 0
      BY <1>2, <3>1
    <3>2. CASE n # 0
      <4>1. n - 1 \in Nat /\ (n - 1) + 1 = n
        BY <3>2
      <4>2. QED
        BY <1>3, <3>2, <4>1
    <3>3. QED
      BY <3>1, <3>2
  <2>2. QED
    BY <1>2, <2>1
<1>5. pow2 = rec(pow2)
  <2>1. pow2 = CHOOSE f : f = rec(f)
    BY DEF pow2
  <2> HIDE DEF rec
  <2>2. QED
    BY <1>4, <2>1
<1>6. ASSUME NEW n \in Nat PROVE pow2[n] = IF n = 0 THEN 1 ELSE 2 * pow2[n - 1]
  BY <1>5
<1>7. pow2[0] = 1
  BY <1>6
<1>8. ASSUME NEW n \in Nat PROVE pow2[n + 1] = 2 * pow2[n]
  <2>1. n + 1 \in Nat /\ n + 1 # 0 /\ (n + 1) - 1 = n
    OBVIOUS
  <2>2. QED
    BY <1>6, <2>1
<1>9. ASSUME NEW n \in Nat PROVE pow2[n] \in Nat
  <2> DEFINE T == {i \in Nat : pow2[i] \notin Nat}
  <2>1. SUFFICES ASSUME T # {} PROVE FALSE
    OBVIOUS
  <2>2. PICK i \in T : \A j \in T : i <= j
    BY <2>1, LeastNat
  <2>3. i # 0
    BY <1>7, <2>2
  <2>4. i - 1 \in Nat /\ i - 1 \notin T /\ (i - 1) + 1 = i
    BY <2>2, <2>3
  <2>5. pow2[(i - 1) + 1] = 2 * pow2[i - 1] /\ pow2[i - 1] \in Nat
    BY <1>8, <2>4
  <2>6. QED
    BY <2>2, <2>4, <2>5
<1>10. DOMAIN pow2 = Nat
  <2>1. DOMAIN rec(pow2) = Nat
    OBVIOUS
  <2> HIDE DEF rec
  <2>2. QED
    BY <1>5, <2>1
<1>11. pow2 = [n \in Nat |-> pow2[n]]
  BY <1>5, <1>10
<1>12. pow2 \in [Nat -> Nat]
  BY <1>9, <1>11
<1>13. QED
  BY <1>7, <1>8, <1>12

\* A power of two is positive and not below its exponent.
LEMMA Pow2Grows ==
    ASSUME NEW n \in Nat
    PROVE  pow2[n] \in Nat /\ pow2[n] >= 1 /\ n <= pow2[n]
<1> DEFINE T == {i \in Nat : pow2[i] >= 1 /\ i <= pow2[i]}
<1>1. 0 \in T
  BY Pow2
<1>2. ASSUME NEW i \in Nat, i \in T PROVE i + 1 \in T
  <2>1. pow2[i] \in Nat /\ pow2[i + 1] = 2 * pow2[i] /\ pow2[i] >= 1 /\ i <= pow2[i]
    BY <1>2, Pow2
  <2>2. pow2[i + 1] >= 1 /\ i + 1 <= pow2[i + 1] /\ i + 1 \in Nat
    BY <2>1
  <2>3. QED
    BY <2>2
<1>3. Nat \subseteq T
  <2> HIDE DEF T
  <2> QED BY <1>1, <1>2, Induction
<1>4. QED
  BY <1>3, Pow2

\* A size that is doubled d times is multiplied by pow2[d].
LEMMA Pow2Sum ==
    ASSUME NEW m \in Nat, NEW d \in Nat
    PROVE  pow2[m] * pow2[d] = pow2[m + d]
<1> DEFINE T == {i \in Nat : pow2[m] * pow2[i] = pow2[m + i]}
<1>0. pow2[m] \in Nat
  BY Pow2
<1>1. 0 \in T
  <2>1. pow2[m] * 1 = pow2[m] /\ m + 0 = m
    BY <1>0
  <2>2. QED
    BY <2>1, Pow2
<1>2. ASSUME NEW i \in Nat, i \in T PROVE i + 1 \in T
  <2>1. pow2[i] \in Nat /\ pow2[i + 1] = 2 * pow2[i] /\ m + i \in Nat
    BY Pow2
  <2>2. pow2[(m + i) + 1] = 2 * pow2[m + i] /\ (m + i) + 1 = m + (i + 1)
    BY <2>1, Pow2
  <2>3. pow2[m] * (2 * pow2[i]) = 2 * (pow2[m] * pow2[i])
    BY <1>0, <2>1
  <2>4. QED
    BY <1>2, <2>1, <2>2, <2>3
<1>3. Nat \subseteq T
  <2> HIDE DEF T
  <2> QED BY <1>1, <1>2, Induction
<1>4. QED
  BY <1>3

-----------------------------------------------------------------------------
(* The recurrence 5 * index + 1 *)

\* The indices before they are masked.
Affine(W) == W \in [Nat -> Nat] /\ \A i \in Nat : W[i + 1] = 5 * W[i] + 1

\* One leap after another, for Leap.
LEMMA Twice ==
    ASSUME NEW x \in Nat, NEW c \in Nat, NEW y \in Nat, NEW z \in Nat,
           y = x + c * (4 * x + 1), z = y + c * (4 * y + 1)
    PROVE  z = x + (2 * c * (2 * c + 1)) * (4 * x + 1)
<1> DEFINE u == 4 * x + 1
<1>1. u \in Nat /\ c * u \in Nat
  OBVIOUS
<1>2. 4 * y + 1 = u + 4 * (c * u)
  BY <1>1
<1>3. c * (4 * y + 1) = c * u + 4 * (c * (c * u))
  BY <1>1, <1>2
<1>4. (2 * c * (2 * c + 1)) * u = 2 * (c * u) + 4 * (c * (c * u))
  OBVIOUS
<1>5. QED
  BY <1>1, <1>3, <1>4

\* 2^k steps add an odd multiple of 2^k times an odd number.
LEMMA Leap ==
    ASSUME NEW W, Affine(W), NEW k \in Nat
    PROVE  \E s \in Nat : \A i \in Nat :
               W[i + pow2[k]] = W[i] + (pow2[k] * (2 * s + 1)) * (4 * W[i] + 1)
<1> DEFINE leaps(m, c) == \A i \in Nat : W[i + m] = W[i] + c * (4 * W[i] + 1)
           T == {h \in Nat : \E s \in Nat : leaps(pow2[h], pow2[h] * (2 * s + 1))}
<1>1. 0 \in T
  <2>1. leaps(1, 1)
    BY DEF Affine
  <2>2. pow2[0] * (2 * 0 + 1) = 1 /\ pow2[0] = 1
    BY Pow2
  <2> HIDE DEF leaps
  <2>3. QED
    BY <2>1, <2>2
<1>2. ASSUME NEW h \in Nat, h \in T PROVE h + 1 \in T
  <2>1. PICK s \in Nat : leaps(pow2[h], pow2[h] * (2 * s + 1))
    BY <1>2
  <2>2. PICK P \in Nat : P = pow2[h]
    BY Pow2
  <2>3. PICK c \in Nat : c = P * (2 * s + 1)
    OBVIOUS
  <2>4. leaps(P, c)
    BY <2>1, <2>2, <2>3
  <2>5. leaps(2 * P, 2 * c * (2 * c + 1))
    <3>1. ASSUME NEW i \in Nat
          PROVE  W[i + 2 * P] = W[i] + (2 * c * (2 * c + 1)) * (4 * W[i] + 1)
      <4>1. i + P \in Nat /\ (i + P) + P = i + 2 * P /\ i + 2 * P \in Nat
        OBVIOUS
      <4>2. W[i] \in Nat /\ W[i + P] \in Nat /\ W[i + 2 * P] \in Nat
        BY <4>1 DEF Affine
      <4>3. W[i + P] = W[i] + c * (4 * W[i] + 1)
        BY <2>4
      <4>4. W[i + 2 * P] = W[i + P] + c * (4 * W[i + P] + 1)
        BY <2>4, <4>1
      <4>5. QED
        BY <4>2, <4>3, <4>4, Twice
    <3>2. QED
      BY <3>1
  <2>6. PICK s2 \in Nat : s2 = 2 * (s * c) + s + c
    OBVIOUS
  <2>7. 2 * c * (2 * c + 1) = (2 * P) * (2 * s2 + 1)
    <3>1. (2 * s + 1) * (2 * c + 1) = 2 * s2 + 1
      BY <2>6
    <3>2. 2 * (P * (2 * s + 1)) * (2 * c + 1) = (2 * P) * ((2 * s + 1) * (2 * c + 1))
      OBVIOUS
    <3>3. QED
      BY <2>3, <3>1, <3>2
  <2>8. pow2[h + 1] = 2 * P /\ h + 1 \in Nat
    BY <2>2, Pow2
  <2>9. \A c2 : c2 = 2 * c * (2 * c + 1) => leaps(2 * P, c2)
    BY <2>5
  <2>10. leaps(2 * P, (2 * P) * (2 * s2 + 1))
    <3> HIDE DEF leaps
    <3> QED BY <2>7, <2>9
  <2>11. leaps(pow2[h + 1], pow2[h + 1] * (2 * s2 + 1))
    <3> HIDE DEF leaps
    <3> QED BY <2>8, <2>10
  <2>12. QED
    BY <2>8, <2>11
<1>3. Nat \subseteq T
  <2> HIDE DEF T
  <2> QED BY <1>1, <1>2, Induction
<1>4. QED
  BY <1>3
MeetsAll(W, m) ==
    \A i \in Nat : \A r \in Nat : \E j \in 0..(m - 1) : \E q \in Int : W[i + j] = r + m * q

\* So 2^k steps in a row meet every remainder by 2^k.
LEMMA Residues ==
    ASSUME NEW W, Affine(W), NEW k \in Nat
    PROVE  MeetsAll(W, pow2[k])
<1> DEFINE meets(i, r, m) == \E j \in 0..(m - 1) : \E q \in Int : W[i + j] = r + m * q
           T == {h \in Nat : \A i \in Nat : \A r \in Nat : meets(i, r, pow2[h])}
<1>1. 0 \in T
  <2>1. ASSUME NEW i \in Nat, NEW r \in Nat
        PROVE  meets(i, r, 1)
    <3>1. W[i] \in Nat /\ i + 0 = i
      BY DEF Affine
    <3>2. PICK q \in Int : q = W[i] - r
      BY <3>1
    <3>3. W[i + 0] = r + 1 * q /\ 0 \in 0..(1 - 1)
      BY <3>1, <3>2
    <3>4. QED
      BY <3>3
  <2> HIDE DEF meets
  <2>2. QED
    BY <2>1, Pow2
<1>2. ASSUME NEW h \in Nat, h \in T PROVE h + 1 \in T
  <2>1. PICK P \in Nat : P = pow2[h] /\ P >= 1
    BY Pow2Grows
  <2>2. PICK s \in Nat : \A i \in Nat : W[i + P] = W[i] + (P * (2 * s + 1)) * (4 * W[i] + 1)
    BY <2>1, Leap
  <2>3. ASSUME NEW i \in Nat, NEW r \in Nat
        PROVE  meets(i, r, 2 * P)
    <3>0. meets(i, r, P)
      <4> HIDE DEF meets
      <4> QED BY <1>2, <2>1
    <3>1. PICK j \in 0..(P - 1) : \E q \in Int : W[i + j] = r + P * q
      BY <3>0
    <3>2. PICK q \in Int : W[i + j] = r + P * q
      BY <3>1
    <3>3. i + j \in Nat /\ (i + j) + P = i + (j + P) /\ j \in 0..(2 * P - 1) /\ j + P \in 0..(2 * P - 1)
      BY <2>1
    <3>4. PICK x \in Nat : x = W[i + j]
      BY <3>3 DEF Affine
    <3>5. W[i + (j + P)] = x + (P * (2 * s + 1)) * (4 * x + 1)
      BY <2>2, <3>3, <3>4
    <3>6. PICK a \in Int : q = 2 * a \/ q = 2 * a + 1
      <4>1. q = 2 * (q \div 2) \/ q = 2 * (q \div 2) + 1
        OBVIOUS
      <4>2. q \div 2 \in Int
        OBVIOUS
      <4>3. QED
        BY <4>1, <4>2
    <3>7. CASE q = 2 * a
      <4>1. P * (2 * a) = (2 * P) * a
        OBVIOUS
      <4>2. QED
        BY <3>2, <3>3, <3>7, <4>1
    <3>8. CASE q = 2 * a + 1
      <4>1. PICK b \in Int : b = (a + s) + (1 + 2 * x * (2 * s + 1))
        OBVIOUS
      <4>2. q + (2 * s + 1) * (4 * x + 1) = 2 * b
        BY <3>8, <4>1
      <4>3. (P * (2 * s + 1)) * (4 * x + 1) = P * ((2 * s + 1) * (4 * x + 1))
        OBVIOUS
      <4>4. PICK u \in Int : u = (2 * s + 1) * (4 * x + 1)
        OBVIOUS
      <4>5. P * q + P * u = P * (q + u) /\ P * (2 * b) = (2 * P) * b
        OBVIOUS
      <4>6. W[i + (j + P)] = r + (P * q + P * u)
        BY <3>2, <3>4, <3>5, <4>3, <4>4
      <4>7. W[i + (j + P)] = r + (2 * P) * b
        BY <4>2, <4>4, <4>5, <4>6
      <4>8. QED
        BY <3>3, <4>7
    <3>9. QED
      BY <3>6, <3>7, <3>8
  <2>4. pow2[h + 1] = 2 * P /\ h + 1 \in Nat
    BY <2>1, Pow2
  <2> HIDE DEF meets
  <2>5. QED
    BY <2>3, <2>4
<1>3. Nat \subseteq T
  <2> HIDE DEF T
  <2> QED BY <1>1, <1>2, Induction
<1>4. QED
  BY <1>3 DEF MeetsAll

\* What \div and % by a positive number are.
LEMMA Remainder ==
    ASSUME NEW a \in Nat, NEW n \in Nat, n >= 1
    PROVE  /\ a % n \in 0..(n - 1) /\ a \div n \in Nat
           /\ a = (a % n) + n * (a \div n)
  OBVIOUS

\* A step of the recurrence from an index or from its remainder gives the same remainder.
LEMMA Masked ==
    ASSUME NEW x \in Nat, NEW q \in Int, NEW n \in Nat, n >= 1
    PROVE  \E d \in Int : 5 * (x + n * q) + 1 = ((5 * x + 1) % n) + n * d
<1>1. PICK y \in Nat : y = 5 * x + 1
  OBVIOUS
<1>2. PICK g \in Nat : y = (y % n) + n * g
  BY Remainder
<1>3. PICK m \in Nat : m = y % n
  BY Remainder
<1>4. 5 * (x + n * q) + 1 = (5 * x + 1) + n * (5 * q) /\ n * g + n * (5 * q) = n * (g + 5 * q)
  OBVIOUS
<1>5. 5 * (x + n * q) + 1 = m + n * (g + 5 * q)
  BY <1>1, <1>2, <1>3, <1>4
<1>6. PICK d \in Int : d = g + 5 * q
  OBVIOUS
<1>7. 5 * (x + n * q) + 1 = m + n * d
  BY <1>5, <1>6
<1>8. m = (5 * x + 1) % n
  BY <1>1, <1>3, Zenon
<1>9. QED
  BY <1>7, <1>8

\* The slots that a search looks at once perturb is 0.
Cyclic(p, n) ==
    p \in [Nat -> 0..(n - 1)] /\ \A i \in Nat : p[i + 1] = (5 * p[i] + 1) % n

\* The first n elements of p are all the slots.
Onto(p, n) == \A r \in 0..(n - 1) : \E j \in 0..(n - 1) : p[j] = r

\* A search whose perturb is 0 looks at every slot of a table of 2^e slots.
LEMMA FullCycle ==
    ASSUME NEW e \in Nat, NEW n \in Nat, n = pow2[e], NEW p, Cyclic(p, n)
    PROVE  Onto(p, n)
<1>0. n >= 1
  BY Pow2Grows
<1>a. p \in [Nat -> 0..(n - 1)] /\ \A i \in Nat : p[i + 1] = (5 * p[i] + 1) % n
  BY DEF Cyclic
<1>1. PICK W : Affine(W) /\ W[0] = p[0]
  <2> DEFINE F == [x \in Nat \X Nat |-> 5 * x[2] + 1]
  <2>1. F \in [Nat \X Nat -> Nat] /\ p[0] \in Nat
    BY <1>0, <1>a
  <2>2. PICK W : Follows(W, Nat, p[0], F)
    <3> HIDE DEF F
    <3> QED BY <2>1, Recursion
  <2>3. W \in [Nat -> Nat] /\ W[0] = p[0]
    BY <2>2 DEF Follows
  <2>4. ASSUME NEW i \in Nat PROVE W[i + 1] = 5 * W[i] + 1
    <3>1. W[i + 1] = F[<<i, W[i]>>] /\ W[i] \in Nat
      <4> HIDE DEF F
      <4> QED BY <2>2, <2>3 DEF Follows
    <3>2. QED
      BY <3>1
  <2>5. QED
    BY <2>3, <2>4 DEF Affine
<1> DEFINE T == {i \in Nat : \E q \in Int : W[i] = p[i] + n * q}
<1>2. 0 \in T
  <2>1. p[0] + n * 0 = p[0]
    BY <1>0, <1>a
  <2>2. QED
    BY <1>1, <2>1
<1>3. ASSUME NEW i \in Nat, i \in T PROVE i + 1 \in T
  <2>1. PICK q \in Int : W[i] = p[i] + n * q
    BY <1>3
  <2>2. PICK x \in Nat : x = p[i]
    BY <1>0, <1>a
  <2>3. p[i + 1] = (5 * x + 1) % n /\ W[i + 1] = 5 * (x + n * q) + 1
    BY <1>1, <1>a, <2>1, <2>2 DEF Affine
  <2>4. PICK d \in Int : 5 * (x + n * q) + 1 = ((5 * x + 1) % n) + n * d
    BY <1>0, Masked
  <2>5. QED
    BY <2>3, <2>4
<1>4. Nat \subseteq T
  <2> HIDE DEF T
  <2> QED BY <1>2, <1>3, Induction
<1>5. ASSUME NEW r \in 0..(n - 1) PROVE \E j \in 0..(n - 1) : p[j] = r
  <2>1. PICK j \in 0..(n - 1) : \E q \in Int : W[0 + j] = r + n * q
    <3>1. r \in Nat /\ 0 \in Nat
      OBVIOUS
    <3>2. MeetsAll(W, n)
      BY <1>1, Residues
    <3>3. QED
      BY <3>1, <3>2 DEF MeetsAll
  <2>2. PICK q \in Int : W[j] = r + n * q
    BY <2>1
  <2>3. PICK g \in Int : W[j] = p[j] + n * g
    BY <1>4
  <2>4. PICK x \in 0..(n - 1) : x = p[j]
    BY <1>a
  <2>5. PICK f \in Int : f = g - q
    OBVIOUS
  <2>6. n * g - n * q = n * f
    BY <2>5
  <2>7. r = x + n * f
    <3>1. r + n * q = x + n * g
      BY <2>2, <2>3, <2>4
    <3>2. QED
      BY <2>6, <3>1
  <2>8. f = 0
    <3>1. CASE f >= 1
      <4>1. PICK m \in Nat : f = 1 + m
        <5>1. f - 1 \in Nat /\ f = 1 + (f - 1)
          BY <3>1
        <5>2. QED
          BY <5>1
      <4>2. n * (1 + m) = n + n * m /\ n * m \in Nat
        OBVIOUS
      <4>3. QED
        BY <2>7, <4>1, <4>2
    <3>2. CASE f <= -1
      <4>1. PICK m \in Nat : f = -1 - m
        <5>1. -1 - f \in Nat /\ f = -1 - (-1 - f)
          BY <3>2
        <5>2. QED
          BY <5>1
      <4>2. n * (-1 - m) = -n - n * m /\ n * m \in Nat
        OBVIOUS
      <4>3. QED
        BY <2>7, <4>1, <4>2
    <3>3. QED
      BY <3>1, <3>2
  <2>9. QED
    BY <2>4, <2>7, <2>8
<1>6. QED
  BY <1>5 DEF Onto

-----------------------------------------------------------------------------
(* The path of a search: the slots it looks at, until it ends *)

\* The last assignments of the loop of hash_lookup, to index (masked) and perturb.
PathStep(n) == [x \in Nat \X (Nat \X Nat) |->
                  <<(5 * x[2][1] + x[2][2] + 1) % n, x[2][2] \div 32>>]
Path(h, n) == CHOOSE g : Follows(g, Nat \X Nat, <<h % n, h>>, PathStep(n))
At(h, n, i) == Path(h, n)[i][1]
Perturb(h, n, i) == Path(h, n)[i][2]

\* The path of a search starts at hash & mask and follows the assignments to index and perturb
\* at the end of the loop.
LEMMA PathProperties ==
    ASSUME NEW h \in Nat, NEW n \in Nat, n >= 1
    PROVE  /\ At(h, n, 0) = h % n /\ Perturb(h, n, 0) = h
           /\ \A i \in Nat :
                  /\ At(h, n, i) \in 0..(n - 1) /\ Perturb(h, n, i) \in Nat
                  /\ At(h, n, i + 1) = (5 * At(h, n, i) + Perturb(h, n, i) + 1) % n
                  /\ Perturb(h, n, i + 1) = Perturb(h, n, i) \div 32
<1>1. <<h % n, h>> \in Nat \X Nat
  BY Remainder
<1>2. PathStep(n) \in [Nat \X (Nat \X Nat) -> Nat \X Nat]
  <2>1. ASSUME NEW x \in Nat \X (Nat \X Nat)
        PROVE  <<(5 * x[2][1] + x[2][2] + 1) % n, x[2][2] \div 32>> \in Nat \X Nat
    <3>1. PICK a \in Nat : a = 5 * x[2][1] + x[2][2] + 1
      OBVIOUS
    <3>2. PICK b \in Nat : b = x[2][2]
      OBVIOUS
    <3>3. a % n \in Nat /\ b \div 32 \in Nat
      BY Remainder
    <3>4. QED
      BY <3>1, <3>2, <3>3
  <2>2. QED
    BY <2>1 DEF PathStep
<1>3. \E g : Follows(g, Nat \X Nat, <<h % n, h>>, PathStep(n))
  BY <1>1, <1>2, Recursion
<1>4. Follows(Path(h, n), Nat \X Nat, <<h % n, h>>, PathStep(n))
  BY <1>3 DEF Path
<1>5. PICK p : p = Path(h, n)
  OBVIOUS
<1>6. /\ p \in [Nat -> Nat \X Nat] /\ p[0] = <<h % n, h>>
      /\ \A i \in Nat : p[i + 1] = PathStep(n)[<<i, p[i]>>]
  BY <1>4, <1>5 DEF Follows
<1>7. ASSUME NEW i \in Nat
      PROVE  /\ p[i][1] \in Nat /\ p[i][2] \in Nat
             /\ p[i + 1] = <<(5 * p[i][1] + p[i][2] + 1) % n, p[i][2] \div 32>>
  <2>1. p[i] \in Nat \X Nat /\ p[i + 1] = PathStep(n)[<<i, p[i]>>]
    BY <1>6
  <2>2. QED
    BY <2>1 DEF PathStep
<1>8. ASSUME NEW i \in Nat PROVE p[i][1] \in 0..(n - 1)
  <2>1. CASE i = 0
    <3>1. p[0][1] = h % n
      BY <1>6
    <3>2. h % n \in 0..(n - 1)
      BY Remainder
    <3>3. QED
      BY <2>1, <3>1, <3>2
  <2>2. CASE i # 0
    <3>1. PICK j \in Nat : i = j + 1
      <4>1. i - 1 \in Nat /\ i = (i - 1) + 1
        BY <2>2
      <4>2. QED
        BY <4>1
    <3>a. p[j][1] \in Nat /\ p[j][2] \in Nat
      BY <1>7
    <3>2. PICK a \in Nat : a = 5 * p[j][1] + p[j][2] + 1
      BY <3>a
    <3>3. p[i][1] = a % n
      BY <1>7, <3>1, <3>2
    <3>4. QED
      BY <3>3, Remainder
  <2>3. QED
    BY <2>1, <2>2
<1>9. At(h, n, 0) = h % n /\ Perturb(h, n, 0) = h
  <2>1. p[0][1] = h % n /\ p[0][2] = h
    BY <1>6
  <2>2. QED
    BY <1>5, <2>1 DEF At, Perturb
<1>10. ASSUME NEW i \in Nat
       PROVE  /\ At(h, n, i) \in 0..(n - 1) /\ Perturb(h, n, i) \in Nat
              /\ At(h, n, i + 1) = (5 * At(h, n, i) + Perturb(h, n, i) + 1) % n
              /\ Perturb(h, n, i + 1) = Perturb(h, n, i) \div 32
  <2>1. /\ p[i + 1][1] = (5 * p[i][1] + p[i][2] + 1) % n
        /\ p[i + 1][2] = p[i][2] \div 32
    BY <1>7
  <2>2. QED
    BY <1>5, <1>7, <1>8, <2>1 DEF At, Perturb
<1>11. QED
  BY <1>9, <1>10

\* The next slot on a path.
LEMMA PathNext ==
    ASSUME NEW h \in Nat, NEW n \in Nat, n >= 1, NEW i \in Nat
    PROVE  At(h, n, i + 1) = (5 * At(h, n, i) + Perturb(h, n, i) + 1) % n
  BY PathProperties, ZenonT(60)

\* perturb is a 32-bit word, shifted by 5 at each probe.
LEMMA PerturbGone ==
    ASSUME NEW h \in Nat, h \div pow2[30] < 4, NEW n \in Nat, n >= 1, NEW j \in Nat
    PROVE  Perturb(h, n, PERTURB_STEPS + j) = 0
<1> DEFINE q(i) == Perturb(h, n, i)
<1>0. \A i \in Nat : q(i) \in Nat /\ q(i + 1) = q(i) \div 32
  BY PathProperties, ZenonT(60)
<1>1. q(0) = h
  BY PathProperties
<1> HIDE DEF q
<1>2. ASSUME NEW m \in Nat PROVE pow2[m] \in Nat /\ pow2[m + 5] = 32 * pow2[m]
  <2>1. /\ pow2[m + 1] = 2 * pow2[m] /\ pow2[(m + 1) + 1] = 2 * pow2[m + 1]
        /\ pow2[(m + 2) + 1] = 2 * pow2[m + 2] /\ pow2[(m + 3) + 1] = 2 * pow2[m + 3]
        /\ pow2[(m + 4) + 1] = 2 * pow2[m + 4] /\ pow2[m] \in Nat
    BY Pow2
  <2>2. (m + 1) + 1 = m + 2 /\ (m + 2) + 1 = m + 3 /\ (m + 3) + 1 = m + 4 /\ (m + 4) + 1 = m + 5
    OBVIOUS
  <2>3. QED
    BY <2>1, <2>2
<1>3. ASSUME NEW i \in Nat, NEW m \in Nat, q(i) < pow2[m + 5] PROVE q(i + 1) < pow2[m]
  <2>1. q(i) \in Nat /\ q(i + 1) = q(i) \div 32
    BY <1>0
  <2>2. PICK b \in Nat : b = pow2[m] /\ q(i) < 32 * b
    BY <1>2, <1>3
  <2>3. QED
    BY <2>1, <2>2
<1>4. q(0) < pow2[27 + 5]
  <2>1. PICK P \in Nat : P = pow2[30] /\ P >= 1
    BY Pow2Grows
  <2>2. h \div P \in Nat /\ h % P \in 0..(P - 1) /\ h = (h % P) + P * (h \div P)
    BY ONLY <2>1, Remainder, h \in Nat, P \in Nat
  <2>a. PICK d \in Nat : d = h \div P
    BY <2>2
  <2>b. PICK m \in 0..(P - 1) : m = h % P
    BY <2>2
  <2>c. h = m + P * d
    BY <2>2, <2>a, <2>b
  <2>3. d \in 0..3
    <3>1. h \div P < 4
      BY <2>1, Zenon
    <3>2. QED
      BY <2>a, <3>1
  <2>4. P * 0 = 0 /\ P * 1 = P /\ P * 2 = 2 * P /\ P * 3 = 3 * P
    OBVIOUS
  <2>5. h < 4 * P
    BY <2>1, <2>3, <2>4, <2>c
  <2>6. pow2[30 + 1] = 2 * P /\ pow2[31 + 1] = 2 * pow2[31]
    BY <2>1, Pow2
  <2>7. QED
    BY <1>1, <2>5, <2>6
<1>5. q(1) < pow2[22 + 5]
  BY <1>4, <1>3
<1>6. q(2) < pow2[17 + 5]
  BY <1>5, <1>3
<1>7. q(3) < pow2[12 + 5]
  BY <1>6, <1>3
<1>8. q(4) < pow2[7 + 5]
  BY <1>7, <1>3
<1>9. q(5) < pow2[2 + 5]
  BY <1>8, <1>3
<1>10. q(6) < 4
  <2>1. q(6) < pow2[2]
    BY <1>9, <1>3
  <2>2. pow2[0 + 1] = 2 * pow2[0] /\ pow2[1 + 1] = 2 * pow2[1] /\ pow2[0] = 1
    BY Pow2
  <2>3. QED
    BY <2>1, <2>2
<1> DEFINE T == {i \in Nat : q(7 + i) = 0}
<1>11. 0 \in T
  <2>1. q(6) \in Nat /\ q(6 + 1) = q(6) \div 32
    BY <1>0
  <2>2. QED
    BY <1>10, <2>1
<1>12. ASSUME NEW i \in Nat, i \in T PROVE i + 1 \in T
  <2>1. 7 + i \in Nat /\ (7 + i) + 1 = 7 + (i + 1)
    OBVIOUS
  <2>2. q(7 + (i + 1)) = q(7 + i) \div 32
    BY <1>0, <2>1
  <2>3. QED
    BY <1>12, <2>2
<1>13. Nat \subseteq T
  <2> HIDE DEF T
  <2> QED BY <1>11, <1>12, Induction
<1>14. QED
  BY <1>13 DEF q, PERTURB_STEPS

\* A search that does not end looks at every slot in PERTURB_STEPS + n probes.
LEMMA Visits ==
    ASSUME NEW h \in Nat, h \div pow2[30] < 4, NEW e \in Nat, NEW n \in Nat, n = pow2[e],
           NEW r \in 0..(n - 1)
    PROVE  \E j \in 0..(PERTURB_STEPS + n) : At(h, n, j) = r
<1>0. n >= 1
  BY Pow2Grows
<1> DEFINE p == [i \in Nat |-> At(h, n, PERTURB_STEPS + i)]
<1>a. ASSUME NEW i \in Nat
      PROVE  /\ PERTURB_STEPS + i \in Nat /\ (PERTURB_STEPS + i) + 1 = PERTURB_STEPS + (i + 1)
             /\ At(h, n, PERTURB_STEPS + i) \in 0..(n - 1)
  <2>1. PERTURB_STEPS + i \in Nat /\ (PERTURB_STEPS + i) + 1 = PERTURB_STEPS + (i + 1)
    BY DEF PERTURB_STEPS
  <2>2. QED
    BY <1>0, <2>1, PathProperties
<1>1. p \in [Nat -> 0..(n - 1)]
  BY <1>a
<1>2. ASSUME NEW i \in Nat PROVE p[i + 1] = (5 * p[i] + 1) % n
  <2>1. PICK a \in Nat : a = PERTURB_STEPS + i /\ a + 1 = PERTURB_STEPS + (i + 1)
    BY <1>a
  <2>2. Perturb(h, n, a) = 0
    BY <1>0, <2>1, PerturbGone
  <2>3. At(h, n, a + 1) = (5 * At(h, n, a) + Perturb(h, n, a) + 1) % n
    BY <1>0, PathNext, ZenonT(60)
  <2>4. PICK x \in Nat : x = At(h, n, a) /\ x = p[i]
    BY <1>0, <1>1, <2>1
  <2>5. 5 * x + 0 + 1 = 5 * x + 1
    OBVIOUS
  <2>6. At(h, n, a + 1) = (5 * x + 1) % n
    BY <2>2, <2>3, <2>4, <2>5
  <2>7. p[i + 1] = At(h, n, a + 1)
    BY <2>1
  <2>8. QED
    BY <2>4, <2>6, <2>7
<1>3. \E j \in 0..(n - 1) : p[j] = r
  <2> HIDE DEF p
  <2>1. Cyclic(p, n)
    BY <1>1, <1>2 DEF Cyclic
  <2>2. Onto(p, n)
    BY <2>1, FullCycle
  <2>3. QED
    BY <2>2 DEF Onto
<1>4. PICK j \in 0..(n - 1) : At(h, n, PERTURB_STEPS + j) = r
  BY <1>3
<1>5. QED
  BY <1>4 DEF PERTURB_STEPS

-----------------------------------------------------------------------------
(* hash_lookup *)

\* The next probe of a search is a search.
LEMMA NextProbe ==
    ASSUME NEW t, NEW n \in Nat, n >= 1, NEW w \in Search
    PROVE  /\ next_probe(t, n, w) \in Search
           /\ next_probe(t, n, w).probes = w.probes + 1
           /\ place(t, w) \in Int
<1>1. w.probes \in Nat /\ w.index \in Nat /\ w.perturb \in Nat /\ w.freeslot \in Int
  BY DEF Search
<1>2. PICK a \in Nat : a = 5 * w.index + w.perturb + 1
  BY <1>1
<1>3. PICK b \in Nat : b = w.perturb
  BY <1>1
<1>4. a % n \in Nat
  <2>1. a % n \in 0..(n - 1)
    BY Remainder
  <2>2. QED
    BY <2>1
<1>5. b \div 32 \in Nat
  BY Remainder
<1>6. (5 * w.index + w.perturb + 1) % n \in Nat /\ w.perturb \div 32 \in Nat
  BY <1>2, <1>3, <1>4, <1>5
<1>7. QED
  BY <1>1, <1>6 DEF Search, next_probe, place

\* The last probe, and how the result of a search follows from that of the next probe.
LastProbe(t, k) == [w \in Search |-> IF ends(t, k, w) THEN place(t, w) ELSE Nowhere]
ProbeBefore(t, n, k) ==
    [x \in Nat \X [Search -> Int] |->
        [w \in Search |-> IF ends(t, k, w) THEN place(t, w) ELSE x[2][next_probe(t, n, w)]]]

WalkFrom(W, t, n, k, w) ==
    IF ends(t, k, w) THEN place(t, w)
    ELSE IF w.probes >= PERTURB_STEPS + n THEN Nowhere
    ELSE W[next_probe(t, n, w)]
Walk(W, t, n, k) == W = [w \in Search |-> WalkFrom(W, t, n, k, w)]

\* hash_lookup's recursive function exists: each probe refers to the next one, and the last is
\* probe PERTURB_STEPS + n.
LEMMA WalkExists ==
    ASSUME NEW t, NEW n \in Nat, n >= 1, NEW k
    PROVE  \E W : Walk(W, t, n, k)
<1>1. LastProbe(t, k) \in [Search -> Int]
  BY NextProbe DEF LastProbe, Nowhere
<1>2. ProbeBefore(t, n, k) \in [Nat \X [Search -> Int] -> [Search -> Int]]
  <2>1. ASSUME NEW g \in [Search -> Int]
        PROVE  [w \in Search |-> IF ends(t, k, w) THEN place(t, w) ELSE g[next_probe(t, n, w)]]
                 \in [Search -> Int]
    BY NextProbe
  <2>2. QED
    BY <2>1 DEF ProbeBefore
<1>3. PICK G : Follows(G, [Search -> Int], LastProbe(t, k), ProbeBefore(t, n, k))
  BY <1>1, <1>2, Recursion
<1>4. G \in [Nat -> [Search -> Int]] /\ G[0] = LastProbe(t, k)
  BY <1>3 DEF Follows
<1>5. ASSUME NEW i \in Nat, NEW w \in Search
      PROVE  G[i + 1][w] = IF ends(t, k, w) THEN place(t, w) ELSE G[i][next_probe(t, n, w)]
  <2>1. PICK g \in [Search -> Int] : g = G[i]
    BY <1>4
  <2>2. G[i + 1] = ProbeBefore(t, n, k)[<<i, g>>]
    BY <1>3, <2>1 DEF Follows
  <2>3. <<i, g>> \in Nat \X [Search -> Int]
    OBVIOUS
  <2>4. ProbeBefore(t, n, k)[<<i, g>>] =
          [v \in Search |-> IF ends(t, k, v) THEN place(t, v) ELSE g[next_probe(t, n, v)]]
    BY <2>3 DEF ProbeBefore
  <2>5. QED
    BY <2>1, <2>2, <2>4
<1> DEFINE N == PERTURB_STEPS + n
           W == [w \in Search |-> IF w.probes >= N THEN G[0][w] ELSE G[N - w.probes][w]]
<1>6. ASSUME NEW w \in Search PROVE W[w] = WalkFrom(W, t, n, k, w)
  <2>1. w.probes \in Nat /\ N \in Nat
    BY DEF Search, PERTURB_STEPS
  <2>2. PICK v \in Search : v = next_probe(t, n, w) /\ v.probes = w.probes + 1
    BY NextProbe
  <2>3. CASE w.probes >= N
    <3>1. W[w] = LastProbe(t, k)[w]
      BY <1>4, <2>3
    <3>2. QED
      BY <2>3, <3>1 DEF LastProbe, WalkFrom
  <2>4. CASE ~(w.probes >= N)
    <3>1. PICK i \in Nat : i = N - w.probes - 1 /\ N - w.probes = i + 1 /\ N - v.probes = i
      BY <2>1, <2>2, <2>4
    <3>2. W[w] = IF ends(t, k, w) THEN place(t, w) ELSE G[i][v]
      BY <1>5, <2>2, <2>4, <3>1
    <3>3. W[v] = G[i][v]
      <4>1. CASE v.probes >= N
        <5>1. i = 0
          BY <2>1, <2>2, <3>1, <4>1
        <5>2. QED
          BY <4>1, <5>1
      <4>2. CASE ~(v.probes >= N)
        BY <3>1, <4>2
      <4>3. QED
        BY <4>1, <4>2
    <3> HIDE DEF W
    <3>4. QED
      BY <2>2, <2>4, <3>2, <3>3 DEF WalkFrom
  <2>5. QED
    BY <2>3, <2>4
<1>7. W = [w \in Search |-> W[w]]
  OBVIOUS
<1>8. Walk(W, t, n, k)
  <2> HIDE DEF W
  <2>1. [w \in Search |-> W[w]] = [w \in Search |-> WalkFrom(W, t, n, k, w)]
    BY <1>6
  <2>2. QED
    BY <1>7, <2>1 DEF Walk
<1>9. QED
  BY <1>8

\* hash_lookup follows the loop of the code, probe by probe.
LEMMA LookupWalks ==
    ASSUME NEW t, NEW n \in Nat, n >= 1, NEW k
    PROVE  \E W : /\ \A w \in Search : W[w] = WalkFrom(W, t, n, k, w)
                  /\ hash_lookup(t, n, k) = W[first_probe(hfunc(k), n)]
<1>1. PICK W : W = CHOOSE V : Walk(V, t, n, k)
  OBVIOUS
<1>2. Walk(W, t, n, k)
  BY <1>1, WalkExists
<1>3. ASSUME NEW w \in Search PROVE W[w] = WalkFrom(W, t, n, k, w)
  BY <1>2 DEF Walk
<1>4. hash_lookup(t, n, k) = W[first_probe(hfunc(k), n)]
  BY <1>1 DEF hash_lookup, Walk, WalkFrom
<1>5. QED
  BY <1>3, <1>4

EndsAt(t, k, i) == t[i].mode = "EMPTY" \/ (t[i].mode = "ACTIVE" /\ t[i].key = k)

\* The search for k has not ended before probe j.
NotBefore(t, n, k, j) == \A m \in 0..(j - 1) : ~EndsAt(t, k, At(hfunc(k), n, m))

\* One of the first j slots on the path is the deleted slot i.
Passed(t, n, k, j, i) == \E m \in 0..(j - 1) : i = At(hfunc(k), n, m) /\ t[i].mode = "DELETED"

\* w is the search for k at probe j.
AtProbe(t, n, k, j, w) ==
    /\ w \in Search /\ w.probes = j
    /\ w.index = At(hfunc(k), n, j) /\ w.perturb = Perturb(hfunc(k), n, j)
    /\ w.freeslot = Nowhere \/ Passed(t, n, k, j, w.freeslot)

\* The first probe is probe 0.
LEMMA StartsAtProbe ==
    ASSUME NEW t, NEW n \in Nat, n >= 1, NEW k \in Key
    PROVE  AtProbe(t, n, k, 0, first_probe(hfunc(k), n))
<1>1. PICK h \in Nat : h = hfunc(k)
  BY HashAssumption DEF hfunc
<1>2. h % n \in 0..(n - 1)
  BY Remainder
<1>3. At(h, n, 0) = h % n /\ Perturb(h, n, 0) = h
  BY PathProperties
<1>4. PICK a \in Nat : a = h % n
  BY <1>2
<1>5. first_probe(h, n) = [probes |-> 0, index |-> a, perturb |-> h, freeslot |-> Nowhere]
  BY <1>4 DEF first_probe
<1>6. AtProbe(t, n, k, 0, [probes |-> 0, index |-> a, perturb |-> h, freeslot |-> Nowhere])
  BY <1>1, <1>3, <1>4 DEF AtProbe, Search, Nowhere
<1>7. QED
  BY <1>1, <1>5, <1>6

\* The loop takes a search from probe j to probe j + 1, and remembers the first deleted slot.
LEMMA StepsToProbe ==
    ASSUME NEW t, NEW n \in Nat, n >= 1, NEW k \in Key, NEW j \in Nat, NEW w,
           AtProbe(t, n, k, j, w)
    PROVE  AtProbe(t, n, k, j + 1, next_probe(t, n, w))
<1>1. PICK h \in Nat : h = hfunc(k)
  BY HashAssumption DEF hfunc
<1>2. PICK v \in Search : v = next_probe(t, n, w)
  BY NextProbe DEF AtProbe
<1>3. /\ w \in Search /\ w.probes = j /\ w.index = At(h, n, j) /\ w.perturb = Perturb(h, n, j)
      /\ w.freeslot = Nowhere \/ Passed(t, n, k, j, w.freeslot)
  BY <1>1 DEF AtProbe
<1>4. v.probes = j + 1
  BY <1>2, <1>3 DEF next_probe
<1>5. v.index = At(h, n, j + 1)
  <2>1. v.index = (5 * w.index + w.perturb + 1) % n
    BY <1>2 DEF next_probe
  <2>2. At(h, n, j + 1) = (5 * At(h, n, j) + Perturb(h, n, j) + 1) % n
    BY PathNext
  <2>3. QED
    BY <1>3, <2>1, <2>2, Zenon
<1>6. v.perturb = Perturb(h, n, j + 1)
  <2>1. v.perturb = w.perturb \div 32
    BY <1>2 DEF next_probe
  <2>2. Perturb(h, n, j + 1) = Perturb(h, n, j) \div 32
    BY PathProperties
  <2>3. QED
    BY <1>3, <2>1, <2>2
<1>7. v.freeslot = Nowhere \/ Passed(t, n, k, j + 1, v.freeslot)
  <2>1. CASE t[w.index].mode = "DELETED" /\ w.freeslot = Nowhere
    <3>1. v.freeslot = At(h, n, j) /\ t[v.freeslot].mode = "DELETED"
      BY <1>2, <1>3, <2>1 DEF next_probe
    <3>2. j \in 0..((j + 1) - 1)
      OBVIOUS
    <3>3. QED
      BY <1>1, <3>1, <3>2 DEF Passed
  <2>2. CASE ~(t[w.index].mode = "DELETED" /\ w.freeslot = Nowhere)
    <3>1. v.freeslot = w.freeslot
      BY <1>2, <2>2 DEF next_probe
    <3>2. 0..(j - 1) \subseteq 0..((j + 1) - 1)
      OBVIOUS
    <3>3. QED
      BY <1>3, <3>1, <3>2 DEF Passed
  <2>3. QED
    BY <2>1, <2>2
<1>8. QED
  BY <1>1, <1>2, <1>4, <1>5, <1>6, <1>7 DEF AtProbe

\* A search that ends at probe j returns the slot it has come to, or a deleted slot it
\* has passed if that slot is empty.
LEMMA LookupResult ==
    ASSUME NEW t, NEW n \in Nat, n >= 1, NEW k \in Key, NEW j \in 0..(PERTURB_STEPS + n),
           NotBefore(t, n, k, j), EndsAt(t, k, At(hfunc(k), n, j))
    PROVE  \/ hash_lookup(t, n, k) = At(hfunc(k), n, j)
           \/ /\ t[At(hfunc(k), n, j)].mode = "EMPTY"
              /\ Passed(t, n, k, j, hash_lookup(t, n, k))
<1>1. PICK W : /\ \A w \in Search : W[w] = WalkFrom(W, t, n, k, w)
               /\ hash_lookup(t, n, k) = W[first_probe(hfunc(k), n)]
  BY LookupWalks
<1>2. j \in Nat /\ PERTURB_STEPS + n \in Nat
  BY DEF PERTURB_STEPS
<1> DEFINE N == PERTURB_STEPS + n
           T == {i \in Nat : i <= j => \E w : /\ AtProbe(t, n, k, i, w)
                                               /\ hash_lookup(t, n, k) = W[w]}
<1>3. 0 \in T
  BY <1>1, StartsAtProbe
<1>4. ASSUME NEW i \in Nat, i \in T PROVE i + 1 \in T
  <2>1. SUFFICES ASSUME i + 1 <= j
                 PROVE  \E w : AtProbe(t, n, k, i + 1, w) /\ hash_lookup(t, n, k) = W[w]
    OBVIOUS
  <2>2. PICK w : AtProbe(t, n, k, i, w) /\ hash_lookup(t, n, k) = W[w]
    BY <1>2, <1>4, <2>1
  <2>3. i \in 0..(j - 1) /\ ~(i >= N)
    BY <1>2, <2>1
  <2>4. ~ends(t, k, w)
    BY <2>2, <2>3 DEF NotBefore, EndsAt, ends, AtProbe
  <2>5. W[w] = W[next_probe(t, n, w)]
    BY <1>1, <2>2, <2>3, <2>4 DEF WalkFrom, AtProbe
  <2>6. QED
    BY <2>2, <2>5, StepsToProbe
<1>5. Nat \subseteq T
  <2> HIDE DEF T
  <2> QED BY <1>3, <1>4, Induction
<1>6. PICK w : AtProbe(t, n, k, j, w) /\ hash_lookup(t, n, k) = W[w]
  BY <1>2, <1>5
<1>7. ends(t, k, w)
  BY <1>6 DEF EndsAt, ends, AtProbe
<1>8. hash_lookup(t, n, k) = place(t, w)
  BY <1>1, <1>6, <1>7 DEF WalkFrom, AtProbe
<1>9. QED
  BY <1>6, <1>8 DEF place, AtProbe

-----------------------------------------------------------------------------
(* Tables in which every key can be found *)

\* A mask of the code is one less than a power of two.
Sized(n) == \E e \in Nat : n = pow2[e]

\* A search for k gets as far as slot i.
Reach(t, n, k, i) ==
    \E j \in Nat : /\ At(hfunc(k), n, j) = i
                   /\ \A m \in 0..(j - 1) : t[At(hfunc(k), n, m)].mode # "EMPTY"

Slots(t, n) ==
    /\ t \in [0..(n - 1) -> Slot]
    /\ \A i \in active(t) : t[i].key \in Key /\ t[i].value \in Value
Linked(t, n) == \A i \in active(t) : Reach(t, n, t[i].key, i)
UniqueKeys(t) == \A i, j \in active(t) : t[i].key = t[j].key => i = j
Chained(t, n) == Slots(t, n) /\ Linked(t, n) /\ UniqueKeys(t)

\* The empty slot that ends a search for an absent key.
Roomy(t) == \E i \in DOMAIN t : t[i].mode = "EMPTY"

Holds(t, k, i) == i \in active(t) /\ t[i].key = k

\* hash_lookup returns the slot that holds k, or one where a search for k finds k once
\* it is put there.
LEMMA LookupCorrect ==
    ASSUME NEW n \in Nat, Sized(n), NEW t, Chained(t, n), Roomy(t), NEW k \in Key
    PROVE  /\ hash_lookup(t, n, k) \in 0..(n - 1)
           /\ \/ Holds(t, k, hash_lookup(t, n, k))
              \/ /\ \A i : ~Holds(t, k, i)
                 /\ hash_lookup(t, n, k) \notin active(t)
                 /\ Reach(t, n, k, hash_lookup(t, n, k))
<1>1. PICK h \in Nat : h = hfunc(k) /\ h \div pow2[30] < 4
  BY HashAssumption DEF hfunc
<1>2. PICK e \in Nat : n = pow2[e]
  BY DEF Sized
<1>3. n >= 1
  BY <1>2, Pow2Grows
<1>4. t \in [0..(n - 1) -> Slot]
  BY DEF Chained, Slots
<1>5. \A j \in Nat : At(h, n, j) \in 0..(n - 1)
  BY <1>3, PathProperties
<1> DEFINE T == {j \in Nat : EndsAt(t, k, At(h, n, j))}
<1>6. PICK z \in 0..(PERTURB_STEPS + n) : z \in T
  <2>1. PICK i \in 0..(n - 1) : t[i].mode = "EMPTY"
    BY <1>4 DEF Roomy
  <2>2. PICK z \in 0..(PERTURB_STEPS + n) : At(h, n, z) = i
    BY <1>1, <1>2, Visits
  <2>3. z \in T
    BY <2>1, <2>2 DEF EndsAt, PERTURB_STEPS
  <2>4. QED
    BY <2>3
<1>7. PICK j \in T : \A m \in T : j <= m
  <2>1. T \subseteq Nat /\ T # {}
    BY <1>6
  <2> HIDE DEF T
  <2>2. QED
    BY <2>1, LeastNat
<1>8. j \in 0..(PERTURB_STEPS + n) /\ j \in Nat /\ EndsAt(t, k, At(h, n, j))
  BY <1>6, <1>7 DEF PERTURB_STEPS
<1>9. NotBefore(t, n, k, j)
  <2>1. ASSUME NEW m \in 0..(j - 1) PROVE ~EndsAt(t, k, At(h, n, m))
    BY <1>7, <1>8
  <2>2. QED
    BY <1>1, <2>1 DEF NotBefore
<1>10. PICK r : r = hash_lookup(t, n, k)
  OBVIOUS
<1>11. \/ r = At(h, n, j)
       \/ t[At(h, n, j)].mode = "EMPTY" /\ Passed(t, n, k, j, r)
  BY <1>1, <1>3, <1>8, <1>9, <1>10, LookupResult
<1>12. CASE \E i : Holds(t, k, i)
  <2>1. PICK i : Holds(t, k, i)
    BY <1>12
  <2>2. PICK g \in Nat : /\ At(h, n, g) = i
                         /\ \A m \in 0..(g - 1) : t[At(h, n, m)].mode # "EMPTY"
    BY <1>1, <2>1 DEF Chained, Linked, Reach, Holds
  <2>3. g \in T
    BY <2>1, <2>2 DEF EndsAt, Holds, active
  <2>4. j <= g
    BY <1>7, <2>3
  <2>5. t[At(h, n, j)].mode # "EMPTY"
    <3>1. CASE j = g
      BY <2>1, <2>2, <3>1 DEF Holds, active
    <3>2. CASE j # g
      BY <1>8, <2>2, <2>4, <3>2
    <3>3. QED
      BY <3>1, <3>2
  <2>6. r = At(h, n, j) /\ Holds(t, k, r) /\ r \in 0..(n - 1)
    BY <1>4, <1>5, <1>8, <1>11, <2>5 DEF EndsAt, Holds, active
  <2>7. QED
    BY <1>10, <2>6
<1>13. CASE \A i : ~Holds(t, k, i)
  <2>1. t[At(h, n, j)].mode = "EMPTY"
    BY <1>4, <1>5, <1>8, <1>13 DEF EndsAt, Holds, active
  <2>2. PICK g \in 0..j : r = At(h, n, g) /\ t[r].mode # "ACTIVE"
    <3>1. CASE r = At(h, n, j)
      <4>1. j \in 0..j
        BY <1>8
      <4>2. QED
        BY <2>1, <3>1, <4>1
    <3>2. CASE Passed(t, n, k, j, r)
      <4>1. PICK m \in 0..(j - 1) : r = At(h, n, m) /\ t[r].mode = "DELETED"
        BY <1>1, <3>2 DEF Passed
      <4>2. m \in 0..j
        BY <1>8
      <4>3. QED
        BY <4>1, <4>2
    <3>3. QED
      BY <1>11, <3>1, <3>2
  <2>3. ASSUME NEW m \in 0..(g - 1) PROVE t[At(h, n, m)].mode # "EMPTY"
    <3>1. m \in 0..(j - 1)
      BY <1>8
    <3>2. QED
      BY <1>1, <1>9, <3>1 DEF NotBefore, EndsAt
  <2>4. g \in Nat
    BY <1>8
  <2>5. Reach(t, n, k, r)
    BY <1>1, <2>2, <2>3, <2>4 DEF Reach
  <2>6. r \in 0..(n - 1) /\ r \notin active(t)
    BY <1>5, <2>2, <2>4 DEF active
  <2>7. QED
    BY <1>10, <1>13, <2>5, <2>6
<1>14. QED
  BY <1>12, <1>13

\* An active slot holds its key.
LEMMA ActiveHolds ==
    ASSUME NEW n \in Nat, NEW t, Chained(t, n), NEW i \in active(t)
    PROVE  i \in 0..(n - 1) /\ t[i].key \in Key /\ t[i].value \in Value /\ Holds(t, t[i].key, i)
  BY DEF Chained, Slots, Holds, active

\* A key in the table is found where it is.
LEMMA Found ==
    ASSUME NEW n \in Nat, Sized(n), NEW t, Chained(t, n), Roomy(t), NEW k \in Key,
           NEW i, Holds(t, k, i)
    PROVE  hash_lookup(t, n, k) = i
<1>1. Holds(t, k, hash_lookup(t, n, k))
  BY LookupCorrect
<1>2. QED
  BY <1>1 DEF Holds, Chained, UniqueKeys

\* Slots that are in use stay on every path.
LEMMA ReachKept ==
    ASSUME NEW n \in Nat, n >= 1, NEW t, NEW u, t \in [0..(n - 1) -> Slot],
           \A i \in 0..(n - 1) : t[i].mode # "EMPTY" => u[i].mode # "EMPTY",
           NEW k \in Key, NEW i, Reach(t, n, k, i)
    PROVE  Reach(u, n, k, i)
<1>1. PICK h \in Nat : h = hfunc(k)
  BY HashAssumption DEF hfunc
<1>2. PICK j \in Nat : /\ At(h, n, j) = i
                       /\ \A m \in 0..(j - 1) : t[At(h, n, m)].mode # "EMPTY"
  BY <1>1 DEF Reach
<1>3. ASSUME NEW m \in 0..(j - 1) PROVE u[At(h, n, m)].mode # "EMPTY"
  <2>1. m \in Nat
    OBVIOUS
  <2>a. At(h, n, m) \in 0..(n - 1)
    BY <2>1, PathProperties
  <2>2. QED
    BY <1>2, <2>a
<1>4. QED
  BY <1>1, <1>2, <1>3 DEF Reach

-----------------------------------------------------------------------------
(* Changes of one slot *)

\* A table may hold a key in one slot and nothing else changes.
PutAt(t, i, k, v) == [t EXCEPT ![i] = ActiveSlot(k, v)]

\* What a table is after a slot was set.
LEMMA PutSlots ==
    ASSUME NEW n \in Nat, NEW t, Slots(t, n), NEW i \in 0..(n - 1), NEW k \in Key, NEW v \in Value
    PROVE  /\ Slots(PutAt(t, i, k, v), n)
           /\ active(PutAt(t, i, k, v)) = active(t) \cup {i}
           /\ \A j \in 0..(n - 1) :
                  PutAt(t, i, k, v)[j] = IF j = i THEN ActiveSlot(k, v) ELSE t[j]
<1>1. PICK u : u = PutAt(t, i, k, v)
  OBVIOUS
<1>2. t \in [0..(n - 1) -> Slot]
  BY DEF Slots
<1>3. ActiveSlot(k, v) \in Slot
  BY DEF ActiveSlot, Slot
<1>4. u \in [0..(n - 1) -> Slot]
  BY <1>1, <1>2, <1>3 DEF PutAt
<1>5. \A j \in 0..(n - 1) : u[j] = IF j = i THEN ActiveSlot(k, v) ELSE t[j]
  BY <1>1, <1>2 DEF PutAt
<1>6. active(u) = active(t) \cup {i}
  BY <1>2, <1>4, <1>5 DEF active, ActiveSlot
<1>7. \A j \in active(u) : u[j].key \in Key /\ u[j].value \in Value
  <2>1. ASSUME NEW j \in active(u) PROVE u[j].key \in Key /\ u[j].value \in Value
    <3>1. j \in 0..(n - 1) /\ (j = i \/ j \in active(t))
      BY <1>2, <1>6 DEF active
    <3>2. QED
      BY <1>5, <3>1 DEF ActiveSlot, Slots
  <2>2. QED
    BY <2>1
<1>8. QED
  BY <1>1, <1>4, <1>5, <1>6, <1>7 DEF Slots

filled(t) == {i \in DOMAIN t : t[i].mode # "EMPTY"}

\* Putting a key where hash_lookup says, or overwriting it, keeps every key within reach.
LEMMA PutChained ==
    ASSUME NEW n \in Nat, n >= 1, NEW t, Chained(t, n), NEW i \in 0..(n - 1), NEW k \in Key,
           NEW v \in Value, Reach(t, n, k, i), i \in active(t) => t[i].key = k,
           \A j : Holds(t, k, j) => j = i
    PROVE  Chained(PutAt(t, i, k, v), n)
<1>1. PICK u : u = PutAt(t, i, k, v)
  OBVIOUS
<1>2. /\ Slots(u, n) /\ active(u) = active(t) \cup {i}
      /\ \A j \in 0..(n - 1) : u[j] = IF j = i THEN ActiveSlot(k, v) ELSE t[j]
  BY <1>1, PutSlots DEF Chained
<1>3. t \in [0..(n - 1) -> Slot]
  BY DEF Chained, Slots
<1>4. \A j \in 0..(n - 1) : t[j].mode # "EMPTY" => u[j].mode # "EMPTY"
  BY <1>2 DEF ActiveSlot
<1>5. ASSUME NEW j \in active(u) PROVE Reach(u, n, u[j].key, j)
  <2>1. CASE j = i
    <3>1. u[j].key = k
      BY <1>2, <2>1 DEF ActiveSlot
    <3>2. QED
      BY <1>3, <1>4, <2>1, <3>1, ReachKept
  <2>2. CASE j # i
    <3>1. j \in active(t) /\ u[j] = t[j] /\ t[j].key \in Key
      BY <1>2, <2>2, ActiveHolds
    <3>2. Reach(t, n, t[j].key, j)
      BY <3>1 DEF Chained, Linked
    <3>3. QED
      BY <1>3, <1>4, <3>1, <3>2, ReachKept
  <2>3. QED
    BY <2>1, <2>2
<1>6. ASSUME NEW a \in active(u), NEW b \in active(u), u[a].key = u[b].key PROVE a = b
  <2>1. ASSUME NEW c \in active(u) PROVE \/ c = i /\ u[c].key = k
                                         \/ c # i /\ Holds(t, u[c].key, c)
    <3>1. CASE c = i
      BY <1>2, <3>1 DEF ActiveSlot
    <3>2. CASE c # i
      <4>1. c \in active(t) /\ u[c] = t[c]
        BY <1>2, <3>2, ActiveHolds
      <4>2. QED
        BY <3>2, <4>1 DEF Holds
    <3>3. QED
      BY <3>1, <3>2
  <2>2. QED
    BY <1>6, <2>1 DEF Holds, Chained, UniqueKeys
<1>7. QED
  BY <1>1, <1>2, <1>5, <1>6 DEF Chained, Linked, UniqueKeys

DeleteAt(t, i) == [t EXCEPT ![i] = DeletedSlot]

\* A deleted slot does not cut off the keys behind it.
LEMMA DeleteChained ==
    ASSUME NEW n \in Nat, n >= 1, NEW t, Chained(t, n), NEW i \in 0..(n - 1), NEW u,
           u = DeleteAt(t, i), t[i].mode # "EMPTY"
    PROVE  /\ Chained(u, n) /\ active(u) = active(t) \ {i} /\ filled(u) = filled(t)
           /\ \A j \in active(u) : u[j] = t[j]
<1>1. t \in [0..(n - 1) -> Slot]
  BY DEF Chained, Slots
<1>2. DeletedSlot \in Slot
  BY DEF DeletedSlot, Slot
<1>3. u \in [0..(n - 1) -> Slot]
  BY <1>1, <1>2 DEF DeleteAt
<1>4. \A j \in 0..(n - 1) : u[j] = IF j = i THEN DeletedSlot ELSE t[j]
  BY <1>1 DEF DeleteAt
<1>5. active(u) = active(t) \ {i}
  BY <1>1, <1>3, <1>4 DEF active, DeletedSlot
<1>6. ASSUME NEW j \in active(u)
      PROVE  j \in active(t) /\ u[j] = t[j] /\ t[j].key \in Key /\ t[j].value \in Value
  BY <1>4, <1>5, ActiveHolds
<1>7. \A j \in 0..(n - 1) : t[j].mode # "EMPTY" => u[j].mode # "EMPTY"
  BY <1>4 DEF DeletedSlot
<1>8. ASSUME NEW j \in active(u) PROVE Reach(u, n, u[j].key, j)
  <2>1. Reach(t, n, t[j].key, j)
    BY <1>6 DEF Chained, Linked
  <2>2. QED
    BY <1>1, <1>6, <1>7, <2>1, ReachKept
<1>9. Chained(u, n)
  BY <1>3, <1>6, <1>8 DEF Chained, Slots, Linked, UniqueKeys
<1>10. filled(u) = filled(t)
  BY <1>1, <1>3, <1>4 DEF filled, DeletedSlot
<1>11. QED
  BY <1>5, <1>6, <1>9, <1>10

-----------------------------------------------------------------------------
(* hash_copy *)

CopyStep(old, new, i, t) ==
    IF old[i].mode # "ACTIVE" THEN t
    ELSE [t EXCEPT ![hash_lookup(t, new, old[i].key)] = old[i]]

\* c[i] is the new table when i slots have been copied.
Copy(c, old, n, new) ==
    /\ c[0] = hash_initialize(new)
    /\ \A i \in 0..(n - 1) : c[i + 1] = CopyStep(old, new, i, c[i])

CopyTable(old, n, new) ==
    [x \in Nat \X [0..(new - 1) -> Slot] |->
        IF x[1] < n THEN CopyStep(old, new, x[1], x[2]) ELSE x[2]]

CopyBody(g, old, new, i) ==
    IF i = 0 THEN hash_initialize(new)
    ELSE IF old[i - 1].mode # "ACTIVE" THEN g[i - 1]
    ELSE [g[i - 1] EXCEPT ![hash_lookup(g[i - 1], new, old[i - 1].key)] = old[i - 1]]

\* hash_copy's recursive function exists: it is the loop over the old slots.
LEMMA CopyDefined ==
    ASSUME NEW n \in Nat, NEW new \in Nat, NEW old, old \in [0..(n - 1) -> Slot]
    PROVE  \E c : Copy(c, old, n, new) /\ hash_copy(old, n, new) = c[n]
<1> DEFINE S == [0..(new - 1) -> Slot]
<1>1. hash_initialize(new) \in S
  BY DEF hash_initialize, EmptySlot, Slot
<1>2. CopyTable(old, n, new) \in [Nat \X S -> S]
  <2>1. ASSUME NEW i \in Nat, NEW t \in S, i < n PROVE CopyStep(old, new, i, t) \in S
    <3>1. i \in 0..(n - 1) /\ old[i] \in Slot
      BY <2>1
    <3>2. QED
      BY <3>1 DEF CopyStep
  <2>2. QED
    BY <2>1 DEF CopyTable
<1>3. PICK G : Follows(G, S, hash_initialize(new), CopyTable(old, n, new))
  <2> HIDE DEF S
  <2> QED BY <1>1, <1>2, Recursion
<1>4. G \in [Nat -> S] /\ G[0] = hash_initialize(new)
  BY <1>3 DEF Follows
<1>5. ASSUME NEW i \in 0..(n - 1) PROVE G[i + 1] = CopyStep(old, new, i, G[i])
  <2>1. i \in Nat /\ i < n /\ G[i] \in S
    BY <1>4
  <2>2. G[i + 1] = CopyTable(old, n, new)[<<i, G[i]>>]
    BY <1>3, <2>1 DEF Follows
  <2>3. <<i, G[i]>> \in Nat \X S
    BY <2>1
  <2>4. CopyTable(old, n, new)[<<i, G[i]>>] = CopyStep(old, new, i, G[i])
    BY <2>1, <2>3 DEF CopyTable
  <2>5. QED
    BY <2>2, <2>4
<1> DEFINE g == [i \in 0..n |-> G[i]]
<1>6. ASSUME NEW i \in 0..n PROVE g[i] = CopyBody(g, old, new, i)
  <2>1. CASE i = 0
    BY <1>4, <2>1 DEF CopyBody
  <2>2. CASE i # 0
    <3>1. i - 1 \in 0..(n - 1) /\ i - 1 \in 0..n /\ (i - 1) + 1 = i
      BY <2>2
    <3>2. g[i] = CopyStep(old, new, i - 1, g[i - 1])
      BY <1>5, <3>1
    <3> HIDE DEF g
    <3>3. QED
      BY <2>2, <3>2 DEF CopyBody, CopyStep
  <2>3. QED
    BY <2>1, <2>2
<1>7. g = [i \in 0..n |-> CopyBody(g, old, new, i)]
  <2>1. g = [i \in 0..n |-> g[i]]
    OBVIOUS
  <2> HIDE DEF g
  <2>2. [i \in 0..n |-> g[i]] = [i \in 0..n |-> CopyBody(g, old, new, i)]
    BY <1>6
  <2>3. QED
    BY <2>1, <2>2
<1>8. PICK c : c = CHOOSE f : f = [i \in 0..n |-> CopyBody(f, old, new, i)]
  OBVIOUS
<1>9. c = [i \in 0..n |-> CopyBody(c, old, new, i)]
  <2> HIDE DEF g
  <2> QED BY <1>7, <1>8
<1>10. hash_copy(old, n, new) = c[n]
  BY <1>8 DEF hash_copy, CopyBody
<1>11. ASSUME NEW i \in 0..n PROVE c[i] = CopyBody(c, old, new, i)
  BY <1>9
<1>12. Copy(c, old, n, new)
  <2>1. c[0] = hash_initialize(new)
    <3>1. 0 \in 0..n
      OBVIOUS
    <3>2. c[0] = CopyBody(c, old, new, 0)
      BY <1>11, <3>1
    <3>3. QED
      BY <3>2 DEF CopyBody
  <2>2. ASSUME NEW i \in 0..(n - 1) PROVE c[i + 1] = CopyStep(old, new, i, c[i])
    <3>1. i + 1 \in 0..n /\ i + 1 # 0 /\ (i + 1) - 1 = i
      OBVIOUS
    <3>2. c[i + 1] = CopyBody(c, old, new, i + 1)
      BY <1>11, <3>1
    <3>3. QED
      BY <3>1, <3>2 DEF CopyBody, CopyStep
  <2>3. QED
    BY <2>1, <2>2 DEF Copy
<1>13. QED
  BY <1>10, <1>12

\* What a table holds.
Contents(t) == {t[i] : i \in active(t)}
Clean(t) == \A i \in DOMAIN t : t[i].mode # "DELETED"

\* A table without deleted slots has an empty one if it has fewer keys than slots.
LEMMA RoomLeft ==
    ASSUME NEW n \in Nat, NEW t, t \in [0..(n - 1) -> Slot], Clean(t),
           Cardinality(active(t)) < n
    PROVE  Roomy(t)
<1>1. SUFFICES ASSUME ~Roomy(t) PROVE FALSE
  OBVIOUS
<1>2. active(t) = 0..(n - 1)
  BY <1>1 DEF Roomy, Clean, active, Slot
<1>3. Cardinality(0..(n - 1)) = n
  <2>1. Cardinality(0..(n - 1)) = IF 0 > n - 1 THEN 0 ELSE (n - 1) - 0 + 1
    BY FS_Interval
  <2>2. QED
    BY <2>1
<1>4. QED
  BY <1>2, <1>3

\* The slots that hold keys can be counted.
LEMMA ActiveFinite ==
    ASSUME NEW n \in Nat, NEW t, t \in [0..(n - 1) -> Slot], NEW P, P \subseteq active(t)
    PROVE  IsFiniteSet(P) /\ Cardinality(P) \in Nat /\ Cardinality(P) <= Cardinality(active(t))
           /\ Cardinality(active(t)) \in Nat
<1>1. active(t) \subseteq 0..(n - 1)
  BY DEF active
<1>2. IsFiniteSet(0..(n - 1))
  BY FS_Interval
<1>3. IsFiniteSet(active(t))
  BY <1>1, <1>2, FS_Subset
<1>4. QED
  BY <1>3, FS_Subset, FS_CardinalityType

\* hash_initialize makes a table that holds nothing.
LEMMA EmptyChained ==
    ASSUME NEW n \in Nat
    PROVE  /\ Chained(hash_initialize(n), n) /\ Clean(hash_initialize(n))
           /\ active(hash_initialize(n)) = {}
           /\ n >= 1 => Roomy(hash_initialize(n))
<1>1. PICK t : t = hash_initialize(n)
  OBVIOUS
<1>2. t \in [0..(n - 1) -> Slot] /\ \A i \in 0..(n - 1) : t[i].mode = "EMPTY"
  BY <1>1 DEF hash_initialize, EmptySlot, Slot
<1>3. active(t) = {} /\ Clean(t)
  BY <1>2 DEF active, Clean
<1>4. n >= 1 => Roomy(t)
  BY <1>2 DEF Roomy
<1>5. Chained(t, n)
  BY <1>2, <1>3 DEF Chained, Slots, Linked, UniqueKeys
<1>6. QED
  BY <1>1, <1>3, <1>4, <1>5

\* The first i slots of old are in c.
Before(old, i) == {j \in active(old) : j < i}
Copied(c, old, i, new) ==
    /\ Chained(c, new) /\ Clean(c)
    /\ Contents(c) = {old[j] : j \in Before(old, i)}
    /\ Cardinality(active(c)) = Cardinality(Before(old, i))

\* One turn of the loop of hash_copy moves the key of an active slot and skips any other slot.
LEMMA CopyNext ==
    ASSUME NEW n \in Nat, NEW new \in Nat, Sized(new), NEW old, Chained(old, n),
           Cardinality(active(old)) < new, NEW i \in 0..(n - 1), NEW c, Copied(c, old, i, new)
    PROVE  Copied(CopyStep(old, new, i, c), old, i + 1, new)
<1>1. /\ old \in [0..(n - 1) -> Slot] /\ c \in [0..(new - 1) -> Slot]
      /\ Chained(c, new) /\ Clean(c)
  BY DEF Copied, Chained, Slots
<1>2. CASE old[i].mode # "ACTIVE"
  <2>1. Before(old, i + 1) = Before(old, i)
    BY <1>1, <1>2 DEF Before, active
  <2>2. CopyStep(old, new, i, c) = c
    BY <1>2 DEF CopyStep
  <2>3. QED
    BY <2>1, <2>2 DEF Copied
<1>3. CASE old[i].mode = "ACTIVE"
  <2>1. i \in active(old) /\ i \notin Before(old, i)
    BY <1>1, <1>3 DEF active, Before
  <2>2. Before(old, i + 1) = Before(old, i) \cup {i}
    BY <1>1, <2>1 DEF Before, active
  <2>3. PICK k \in Key, v \in Value : old[i] = ActiveSlot(k, v)
    <3>1. old[i].key \in Key /\ old[i].value \in Value
      BY <2>1, ActiveHolds
    <3>2. old[i] = ActiveSlot(old[i].key, old[i].value)
      BY <1>1, <1>3 DEF Slot, ActiveSlot
    <3>3. QED
      BY <3>1, <3>2
  <2>4. ASSUME NEW j, Holds(c, k, j) PROVE FALSE
    <3>1. j \in active(c) /\ c[j].key = k
      BY <2>4 DEF Holds
    <3>2. PICK m \in Before(old, i) : c[j] = old[m]
      BY <3>1 DEF Copied, Contents
    <3>3. old[m].key = old[i].key /\ m \in active(old)
      BY <2>3, <3>1, <3>2 DEF ActiveSlot, Before
    <3>4. m = i
      BY <2>1, <3>3 DEF Chained, UniqueKeys
    <3>5. QED
      BY <2>1, <3>2, <3>4
  <2>5. /\ IsFiniteSet(active(old)) /\ IsFiniteSet(Before(old, i))
        /\ Cardinality(Before(old, i)) <= Cardinality(active(old))
        /\ Cardinality(Before(old, i)) \in Nat /\ Cardinality(active(old)) \in Nat
    <3>1. active(old) \subseteq active(old) /\ Before(old, i) \subseteq active(old)
      BY DEF Before
    <3>2. QED
      BY <1>1, <3>1, ActiveFinite
  <2>6. Cardinality(active(c)) < new
    BY <2>5 DEF Copied
  <2>7. Roomy(c)
    BY <1>1, <2>6, RoomLeft
  <2>8. PICK r : r = hash_lookup(c, new, k)
    OBVIOUS
  <2>9. r \in 0..(new - 1) /\ r \notin active(c) /\ Reach(c, new, k, r)
    BY <1>1, <2>4, <2>7, <2>8, LookupCorrect
  <2>10. PICK d : d = PutAt(c, r, k, v)
    OBVIOUS
  <2>11. CopyStep(old, new, i, c) = d
    BY <1>3, <2>3, <2>8, <2>10 DEF CopyStep, PutAt, ActiveSlot
  <2>12. /\ Slots(d, new) /\ active(d) = active(c) \cup {r}
         /\ \A j \in 0..(new - 1) : d[j] = IF j = r THEN ActiveSlot(k, v) ELSE c[j]
    BY <1>1, <2>9, <2>10, PutSlots DEF Chained
  <2>13. Chained(d, new)
    <3>1. new >= 1
      BY Pow2Grows DEF Sized
    <3>2. QED
      BY <1>1, <2>4, <2>9, <2>10, <3>1, PutChained
  <2>14. Clean(d)
    BY <1>1, <2>12 DEF Clean, Slots, ActiveSlot
  <2>15. Contents(d) = {old[j] : j \in Before(old, i + 1)}
    <3>1. Contents(d) = Contents(c) \cup {ActiveSlot(k, v)}
      <4>1. \A j \in active(c) : j \in 0..(new - 1) /\ j # r
        BY <1>1, <2>9 DEF active
      <4>2. QED
        BY <2>9, <2>12, <4>1 DEF Contents
    <3>2. {old[j] : j \in Before(old, i + 1)} = {old[j] : j \in Before(old, i)} \cup {old[i]}
      BY <2>2
    <3>3. QED
      BY <2>3, <3>1, <3>2 DEF Copied
  <2>16. Cardinality(active(d)) = Cardinality(Before(old, i + 1))
    <3>1. IsFiniteSet(active(c))
      BY <1>1, ActiveFinite
    <3>2. Cardinality(active(d)) = Cardinality(active(c)) + 1
      BY <2>9, <2>12, <3>1, FS_AddElement
    <3>3. Cardinality(Before(old, i + 1)) = Cardinality(Before(old, i)) + 1
      BY <2>1, <2>2, <2>5, FS_AddElement
    <3>4. QED
      BY <3>2, <3>3 DEF Copied
  <2>17. QED
    BY <2>11, <2>13, <2>14, <2>15, <2>16 DEF Copied
<1>4. QED
  BY <1>2, <1>3

\* hash_copy loses no key, puts none in twice, and leaves the deleted slots behind.
LEMMA CopyCorrect ==
    ASSUME NEW n \in Nat, NEW new \in Nat, Sized(new), NEW old, Chained(old, n),
           Cardinality(active(old)) < new
    PROVE  /\ Chained(hash_copy(old, n, new), new) /\ Clean(hash_copy(old, n, new))
           /\ Contents(hash_copy(old, n, new)) = Contents(old)
           /\ Cardinality(active(hash_copy(old, n, new))) = Cardinality(active(old))
<1>1. old \in [0..(n - 1) -> Slot]
  BY DEF Chained, Slots
<1>2. PICK c : Copy(c, old, n, new) /\ hash_copy(old, n, new) = c[n]
  BY <1>1, CopyDefined
<1> DEFINE T == {i \in Nat : i <= n => Copied(c[i], old, i, new)}
<1>3. 0 \in T
  <2>1. Before(old, 0) = {}
    BY <1>1 DEF Before, active
  <2>2. c[0] = hash_initialize(new)
    BY <1>2 DEF Copy
  <2>3. Contents(c[0]) = {} /\ active(c[0]) = {} /\ Chained(c[0], new) /\ Clean(c[0])
    BY <2>2, EmptyChained DEF Contents
  <2>4. Copied(c[0], old, 0, new)
    BY <2>1, <2>3 DEF Copied
  <2>5. QED
    BY <2>4
<1>4. ASSUME NEW i \in Nat, i \in T PROVE i + 1 \in T
  <2>1. SUFFICES ASSUME i + 1 <= n PROVE Copied(c[i + 1], old, i + 1, new)
    OBVIOUS
  <2>2. i \in 0..(n - 1) /\ Copied(c[i], old, i, new)
    BY <1>4, <2>1
  <2>3. c[i + 1] = CopyStep(old, new, i, c[i])
    BY <1>2, <2>2 DEF Copy
  <2>4. QED
    BY <2>2, <2>3, CopyNext
<1>5. Nat \subseteq T
  <2> HIDE DEF T
  <2> QED BY <1>3, <1>4, Induction
<1>6. Copied(c[n], old, n, new)
  BY <1>5
<1>7. Before(old, n) = active(old)
  BY <1>1 DEF Before, active
<1>8. QED
  BY <1>2, <1>6, <1>7 DEF Copied, Contents

-----------------------------------------------------------------------------
(* The inductive invariant *)

\* The sizes that hash_update can choose.
SizeRight(n) == \E d \in Nat : n = HASH_MINSIZE * pow2[d]

\* A table of n slots, f filled, c active, after x refused allocations.
Table(t, n, f, c, x) ==
    /\ SizeRight(n) /\ Chained(t, n)
    /\ f = Cardinality(filled(t)) /\ c = Cardinality(active(t))
    /\ x \in 0..MaxFailures

\* Without refusals less than two thirds of the slots are filled; a refusal lets in one
\* more key.
Below(f, n, x) == 3 * f < 2 * n + 3 * x

HashInv == Table(table, size, fill, count, failures) /\ Below(fill, size, failures)

\* The refusals that the smallest table survives: with one more it could become full, and a
\* search for an absent key would never end.
FewFailures == 3 * MaxFailures <= HASH_MINSIZE

\* HASH_MINSIZE is a power of two.
LEMMA MinSize == HASH_MINSIZE \in Nat /\ HASH_MINSIZE >= 4 /\ \E m \in Nat : HASH_MINSIZE = pow2[m]
<1>1. PICK m \in 2..16 : HASH_MINSIZE = pow2[m]
  BY HashAssumption
<1>2. PICK g \in Nat : m = 2 + g
  <2>1. m - 2 \in Nat /\ m = 2 + (m - 2)
    OBVIOUS
  <2>2. QED
    BY <2>1
<1>3. pow2[0] = 1 /\ pow2[0 + 1] = 2 * pow2[0] /\ pow2[1 + 1] = 2 * pow2[1]
  BY Pow2
<1>4. pow2[2] = 4
  BY <1>3
<1>5. pow2[2] * pow2[g] = pow2[2 + g]
  BY Pow2Sum
<1>6. pow2[g] \in Nat /\ pow2[g] >= 1
  BY Pow2Grows
<1>7. HASH_MINSIZE = 4 * pow2[g]
  BY <1>1, <1>2, <1>4, <1>5
<1>8. HASH_MINSIZE \in Nat /\ HASH_MINSIZE >= 4
  BY <1>6, <1>7
<1>9. m \in Nat
  OBVIOUS
<1>10. QED
  BY <1>1, <1>8, <1>9

\* Doubling the size, and halving one above HASH_MINSIZE, give a size that the masks of the code
\* can be.
LEMMA Sizes ==
    ASSUME NEW n, SizeRight(n)
    PROVE  /\ n \in Nat /\ n >= HASH_MINSIZE /\ n >= 4 /\ Sized(n)
           /\ SizeRight(2 * n)
           /\ n > HASH_MINSIZE => n = 2 * (n \div 2) /\ SizeRight(n \div 2)
           /\ \E d \in 0..n : n = HASH_MINSIZE * pow2[d]
<1>1. PICK d \in Nat : n = HASH_MINSIZE * pow2[d]
  BY DEF SizeRight
<1>2. PICK M \in Nat : M = HASH_MINSIZE /\ M >= 4
  BY MinSize
<1>3. PICK m \in Nat : M = pow2[m]
  BY <1>2, MinSize
<1>4. PICK P \in Nat : P = pow2[d] /\ P >= 1 /\ d <= P
  BY Pow2Grows
<1>5. n = M * P /\ n \in Nat
  BY <1>1, <1>2, <1>4
<1>6. PICK g \in Nat : P = 1 + g
  <2>1. P - 1 \in Nat /\ P = 1 + (P - 1)
    BY <1>4
  <2>2. QED
    BY <2>1
<1>7. M * (1 + g) = M + M * g /\ M * g \in Nat
  OBVIOUS
<1>8. n >= M
  BY <1>5, <1>6, <1>7
<1>9. Sized(n)
  <2>1. pow2[m] * pow2[d] = pow2[m + d] /\ m + d \in Nat
    BY Pow2Sum
  <2>2. n = pow2[m + d]
    BY <1>3, <1>4, <1>5, <2>1
  <2>3. QED
    BY <2>1, <2>2 DEF Sized
<1>10. SizeRight(2 * n)
  <2>1. pow2[d + 1] = 2 * P /\ d + 1 \in Nat
    BY <1>4, Pow2
  <2>2. M * (2 * P) = 2 * (M * P)
    OBVIOUS
  <2>3. 2 * n = HASH_MINSIZE * pow2[d + 1]
    BY <1>2, <1>5, <2>1, <2>2
  <2>4. QED
    BY <2>1, <2>3 DEF SizeRight
<1>11. ASSUME n > HASH_MINSIZE PROVE n = 2 * (n \div 2) /\ SizeRight(n \div 2)
  <2>1. d # 0
    <3>1. SUFFICES ASSUME d = 0 PROVE FALSE
      OBVIOUS
    <3>2. P = 1
      BY <1>4, <3>1, Pow2
    <3>3. M * 1 = M
      OBVIOUS
    <3>4. QED
      BY <1>2, <1>5, <1>11, <3>2, <3>3
  <2>2. PICK b \in Nat : d = b + 1
    <3>1. d - 1 \in Nat /\ d = (d - 1) + 1
      BY <2>1
    <3>2. QED
      BY <3>1
  <2>3. PICK Q \in Nat : Q = pow2[b]
    BY Pow2
  <2>4. P = 2 * Q
    BY <1>4, <2>2, <2>3, Pow2
  <2>5. M * (2 * Q) = 2 * (M * Q)
    OBVIOUS
  <2>6. PICK h \in Nat : h = M * Q
    OBVIOUS
  <2>7. n = 2 * h
    BY <1>5, <2>4, <2>5, <2>6
  <2>8. n \div 2 = h
    BY <2>7
  <2>9. SizeRight(h)
    BY <1>2, <2>3, <2>6 DEF SizeRight
  <2>10. QED
    BY <2>7, <2>8, <2>9
<1>12. d <= n
  <2>1. PICK f \in Nat : M = 1 + f
    <3>1. M - 1 \in Nat /\ M = 1 + (M - 1)
      BY <1>2
    <3>2. QED
      BY <3>1
  <2>2. (1 + f) * P = P + f * P /\ f * P \in Nat
    OBVIOUS
  <2>3. n >= P
    BY <1>5, <2>1, <2>2
  <2>4. QED
    BY <1>4, <1>5, <2>3
<1>13. d \in 0..n
  BY <1>5, <1>12
<1>14. n >= HASH_MINSIZE /\ n >= 4
  BY <1>2, <1>5, <1>8
<1>15. QED
  BY <1>1, <1>5, <1>9, <1>10, <1>11, <1>13, <1>14

\* The counters are within the table, and one below the size leaves an empty slot.
LEMMA Counts ==
    ASSUME NEW n \in Nat, NEW t, t \in [0..(n - 1) -> Slot]
    PROVE  /\ IsFiniteSet(filled(t)) /\ IsFiniteSet(active(t)) /\ active(t) \subseteq filled(t)
           /\ Cardinality(filled(t)) \in 0..n
           /\ Cardinality(active(t)) \in 0..Cardinality(filled(t))
           /\ Cardinality(filled(t)) < n => Roomy(t)
<1>1. filled(t) \subseteq 0..(n - 1) /\ active(t) \subseteq filled(t)
  BY DEF filled, active
<1>2. IsFiniteSet(0..(n - 1)) /\ Cardinality(0..(n - 1)) = n
  <2>1. /\ IsFiniteSet(0..(n - 1))
        /\ Cardinality(0..(n - 1)) = IF 0 > n - 1 THEN 0 ELSE (n - 1) - 0 + 1
    BY FS_Interval
  <2>2. QED
    BY <2>1
<1>3. IsFiniteSet(filled(t)) /\ Cardinality(filled(t)) <= n
  BY <1>1, <1>2, FS_Subset
<1>4. IsFiniteSet(active(t)) /\ Cardinality(active(t)) <= Cardinality(filled(t))
  BY <1>1, <1>3, FS_Subset
<1>5. Cardinality(filled(t)) \in Nat /\ Cardinality(active(t)) \in Nat
  BY <1>3, <1>4, FS_CardinalityType
<1>6. ASSUME ~Roomy(t) PROVE filled(t) = 0..(n - 1)
  BY <1>6 DEF Roomy, filled
<1>7. Cardinality(filled(t)) < n => Roomy(t)
  BY <1>2, <1>6
<1>8. QED
  BY <1>1, <1>3, <1>4, <1>5, <1>7

\* The lookups of a table in the invariant end.
LEMMA InvRoomy ==
    ASSUME FewFailures, NEW t, NEW n, NEW f, NEW c, NEW x, Table(t, n, f, c, x), Below(f, n, x)
    PROVE  /\ n \in Nat /\ n >= 4 /\ Sized(n) /\ Chained(t, n) /\ Roomy(t)
           /\ t \in [0..(n - 1) -> Slot] /\ f \in 0..n /\ c \in 0..f
<1>1. n \in Nat /\ n >= HASH_MINSIZE /\ n >= 4 /\ Sized(n)
  BY Sizes DEF Table
<1>2. t \in [0..(n - 1) -> Slot] /\ Chained(t, n)
  BY DEF Table, Chained, Slots
<1>3. f \in 0..n /\ c \in 0..f
  BY <1>1, <1>2, Counts DEF Table
<1>4. HASH_MINSIZE \in Nat /\ x \in Nat /\ x <= MaxFailures /\ MaxFailures \in Nat
  BY MinSize, HashAssumption DEF Table
<1>5. f < n
  BY <1>1, <1>3, <1>4 DEF Below, FewFailures
<1>6. Roomy(t)
  BY <1>1, <1>2, <1>5, Counts DEF Table
<1>7. QED
  BY <1>1, <1>2, <1>3, <1>6

\* hash_update keeps the contents, whether it leaves the table alone, rebuilds it or is
\* refused the memory, and leaves less than two thirds filled if it is not refused.
LEMMA UpdateKeeps ==
    ASSUME FewFailures, NEW t, NEW f, NEW c, Table(t, size, f, c, failures),
           3 * f < 2 * size + 3 * failures + 3, hash_update(t, f, c)
    PROVE  HashInv' /\ Contents(table') = Contents(t)
<1>1. /\ size \in Nat /\ size >= HASH_MINSIZE /\ size >= 4 /\ Sized(size) /\ SizeRight(2 * size)
      /\ size > HASH_MINSIZE => size = 2 * (size \div 2) /\ SizeRight(size \div 2)
  BY Sizes DEF Table
<1>2. t \in [0..(size - 1) -> Slot] /\ Chained(t, size)
  BY DEF Table, Chained, Slots
<1>3. f \in 0..size /\ c \in 0..f /\ c = Cardinality(active(t))
  BY <1>1, <1>2, Counts DEF Table
<1>4. failures \in Nat /\ failures <= MaxFailures /\ MaxFailures \in Nat
  BY HashAssumption DEF Table
<1>5. PICK n : n = new_size(f, c)
  OBVIOUS
<1>6. CASE n = size /\ table' = t /\ fill' = f /\ count' = c /\ size' = size /\ failures' = failures
  <2>1. 3 * f < 2 * size
    <3>1. CASE 3 * f >= 2 * size
      <4>1. n = 2 * size
        BY <1>5, <3>1 DEF new_size
      <4>2. QED
        BY <1>1, <1>6, <4>1
    <3>2. QED
      BY <1>1, <1>3, <3>1
  <2>2. Below(f, size, failures)
    BY <1>1, <1>3, <1>4, <2>1 DEF Below
  <2>3. QED
    BY <1>6, <2>2 DEF HashInv
<1>7. CASE /\ n # size /\ failures < MaxFailures
           /\ table' = t /\ fill' = f /\ count' = c /\ size' = size
           /\ failures' = failures + 1
  <2>1. Below(f, size, failures + 1)
    BY <1>1, <1>3, <1>4 DEF Below
  <2>2. Table(t, size, f, c, failures + 1)
    BY <1>4, <1>7 DEF Table
  <2>3. QED
    BY <1>7, <2>1, <2>2 DEF HashInv
<1>8. CASE /\ n # size /\ size' = n /\ table' = hash_copy(t, size, n)
           /\ fill' = Cardinality(active(t)) /\ count' = Cardinality(active(t))
           /\ failures' = failures
  <2>1. n = 2 * size \/ (size > HASH_MINSIZE /\ 4 * c <= size /\ size = 2 * n)
    <3>1. \/ n = 2 * size
          \/ size > HASH_MINSIZE /\ 4 * c <= size /\ n = size \div 2
      BY <1>5, <1>8 DEF new_size
    <3>2. QED
      BY <1>1, <3>1
  <2>2. SizeRight(n)
    <3>1. CASE n = 2 * size
      BY <1>1, <3>1
    <3>2. CASE n # 2 * size
      <4>1. n = size \div 2
        BY <1>5, <1>8, <3>2 DEF new_size
      <4>2. QED
        BY <1>1, <2>1, <3>2, <4>1
    <3>3. QED
      BY <3>1, <3>2
  <2>3. n \in Nat /\ n >= 4 /\ Sized(n)
    BY <2>2, Sizes
  <2>4. c < n /\ 3 * c < 2 * n
    BY <1>1, <1>3, <2>1, <2>3
  <2>5. PICK u : u = hash_copy(t, size, n)
    OBVIOUS
  <2>6. /\ Chained(u, n) /\ Clean(u) /\ Contents(u) = Contents(t)
        /\ Cardinality(active(u)) = Cardinality(active(t))
    BY <1>1, <1>2, <1>3, <2>3, <2>4, <2>5, CopyCorrect
  <2>7. filled(u) = active(u)
    <3>1. u \in [0..(n - 1) -> Slot]
      BY <2>6 DEF Chained, Slots
    <3>2. QED
      BY <2>6, <3>1 DEF Clean, filled, active, Slot
  <2>8. Table(u, n, c, c, failures)
    BY <1>3, <2>2, <2>6, <2>7 DEF Table
  <2>9. Below(c, n, failures)
    BY <1>3, <1>4, <2>3, <2>4 DEF Below
  <2>10. QED
    BY <1>3, <1>8, <2>5, <2>6, <2>8, <2>9 DEF HashInv
<1>9. QED
  BY <1>5, <1>6, <1>7, <1>8 DEF hash_update

-----------------------------------------------------------------------------
(* hash_get *)

\* hash_get on a table of n slots.
Get(t, n, k) ==
    IF t[hash_lookup(t, n, k)].mode = "ACTIVE" THEN t[hash_lookup(t, n, k)].value ELSE None

\* A slot that holds k has what the table holds of k.
LEMMA HoldsContents ==
    ASSUME NEW n \in Nat, NEW t, Chained(t, n), NEW k \in Key, NEW i, Holds(t, k, i)
    PROVE  /\ t[i].mode = "ACTIVE" /\ t[i].value \in Value
           /\ t[i] = ActiveSlot(k, t[i].value) /\ t[i] \in Contents(t)
<1>1. i \in active(t) /\ t[i].key = k
  BY DEF Holds
<1>2. i \in 0..(n - 1) /\ t[i] \in Slot /\ t[i].mode = "ACTIVE" /\ t[i].value \in Value
  BY <1>1, ActiveHolds DEF Chained, Slots, active
<1>3. t[i] = ActiveSlot(k, t[i].value)
  BY <1>1, <1>2 DEF Slot, ActiveSlot
<1>4. QED
  BY <1>1, <1>2, <1>3 DEF Contents

\* hash_get(k) is the value of k in the contents, None if k is absent.
LEMMA GetCorrect ==
    ASSUME NEW n \in Nat, Sized(n), NEW t, Chained(t, n), Roomy(t), NEW k \in Key
    PROVE  /\ \A v \in Value : ActiveSlot(k, v) \in Contents(t) => Get(t, n, k) = v
           /\ (\A v \in Value : ActiveSlot(k, v) \notin Contents(t)) => Get(t, n, k) = None
<1>1. PICK r : r = hash_lookup(t, n, k)
  OBVIOUS
<1>2. ASSUME NEW v \in Value, ActiveSlot(k, v) \in Contents(t) PROVE Get(t, n, k) = v
  <2>1. PICK i \in active(t) : t[i] = ActiveSlot(k, v)
    BY <1>2 DEF Contents
  <2>2. Holds(t, k, i)
    BY <2>1 DEF Holds, ActiveSlot
  <2>3. r = i
    BY <1>1, <2>2, Found
  <2>4. QED
    BY <1>1, <2>1, <2>3 DEF Get, ActiveSlot
<1>3. ASSUME \A v \in Value : ActiveSlot(k, v) \notin Contents(t) PROVE Get(t, n, k) = None
  <2>1. ~Holds(t, k, r)
    BY <1>3, HoldsContents
  <2>2. r \in 0..(n - 1) /\ r \notin active(t)
    BY <1>1, <2>1, LookupCorrect
  <2>3. t[r].mode # "ACTIVE"
    BY <2>2 DEF Chained, Slots, active
  <2>4. QED
    BY <1>1, <2>3 DEF Get
<1>4. QED
  BY <1>2, <1>3

\* What hash_get returns depends on the contents alone.
LEMMA GetSame ==
    ASSUME NEW n \in Nat, Sized(n), NEW t, Chained(t, n), Roomy(t),
           NEW m \in Nat, Sized(m), NEW u, Chained(u, m), Roomy(u), NEW k \in Key,
           \A v \in Value : ActiveSlot(k, v) \in Contents(t) <=> ActiveSlot(k, v) \in Contents(u)
    PROVE  Get(t, n, k) = Get(u, m, k)
<1>1. CASE \E v \in Value : ActiveSlot(k, v) \in Contents(t)
  <2>1. PICK v \in Value : ActiveSlot(k, v) \in Contents(t) /\ ActiveSlot(k, v) \in Contents(u)
    BY <1>1
  <2>2. Get(t, n, k) = v
    BY <2>1, GetCorrect
  <2>3. Get(u, m, k) = v
    BY <2>1, GetCorrect
  <2>4. QED
    BY <2>2, <2>3
<1>2. CASE \A v \in Value : ActiveSlot(k, v) \notin Contents(t)
  <2>1. Get(t, n, k) = None
    BY <1>2, GetCorrect
  <2>2. \A v \in Value : ActiveSlot(k, v) \notin Contents(u)
    BY <1>2
  <2>3. Get(u, m, k) = None
    BY <2>2, GetCorrect
  <2>4. QED
    BY <2>1, <2>3
<1>3. QED
  BY <1>1, <1>2

-----------------------------------------------------------------------------
(* The calls *)

\* Contents D are contents C after the call.
PutEffect(C, D, k, v) ==
    \A a \in Key, b \in Value :
        ActiveSlot(a, b) \in D <=> IF a = k THEN b = v ELSE ActiveSlot(a, b) \in C
RemoveEffect(C, D, k) ==
    \A a \in Key, b \in Value :
        ActiveSlot(a, b) \in D <=> a # k /\ ActiveSlot(a, b) \in C

\* Contents, by slot.
LEMMA InContents ==
    ASSUME NEW t, NEW a \in Key, NEW b \in Value
    PROVE  ActiveSlot(a, b) \in Contents(t) <=> \E j : Holds(t, a, j) /\ t[j] = ActiveSlot(a, b)
  BY DEF Contents, Holds, ActiveSlot

\* Setting a slot that is free or has k changes the contents at k only.
LEMMA PutContents ==
    ASSUME NEW n \in Nat, NEW t, Chained(t, n), NEW i \in 0..(n - 1), NEW k \in Key,
           NEW v \in Value, i \in active(t) => t[i].key = k, \A j : Holds(t, k, j) => j = i
    PROVE  PutEffect(Contents(t), Contents(PutAt(t, i, k, v)), k, v)
<1>1. PICK u : u = PutAt(t, i, k, v)
  OBVIOUS
<1>2. /\ active(u) = active(t) \cup {i}
      /\ \A j \in 0..(n - 1) : u[j] = IF j = i THEN ActiveSlot(k, v) ELSE t[j]
  BY <1>1, PutSlots DEF Chained
<1>3. active(u) \subseteq 0..(n - 1)
  BY <1>2, ActiveHolds
<1>4. u[i] = ActiveSlot(k, v) /\ i \in active(u)
  BY <1>2
<1>5. ASSUME NEW j \in active(u), j # i PROVE j \in active(t) /\ u[j] = t[j] /\ t[j].key # k
  <2>1. j \in active(t) /\ u[j] = t[j]
    BY <1>2, <1>3, <1>5
  <2>2. QED
    BY <1>5, <2>1 DEF Holds
<1>6. ASSUME NEW a \in Key, NEW b \in Value
      PROVE  ActiveSlot(a, b) \in Contents(u)
               <=> IF a = k THEN b = v ELSE ActiveSlot(a, b) \in Contents(t)
  <2>1. CASE a = k
    <3>1. ASSUME ActiveSlot(a, b) \in Contents(u) PROVE b = v
      <4>1. PICK j \in active(u) : u[j] = ActiveSlot(a, b)
        BY <3>1 DEF Contents
      <4>2. j = i
        BY <1>5, <2>1, <4>1 DEF ActiveSlot
      <4>3. QED
        BY <1>4, <4>1, <4>2 DEF ActiveSlot
    <3>2. b = v => ActiveSlot(a, b) \in Contents(u)
      BY <1>4, <2>1 DEF Contents
    <3>3. QED
      BY <2>1, <3>1, <3>2
  <2>2. CASE a # k
    <3>1. ASSUME ActiveSlot(a, b) \in Contents(u) PROVE ActiveSlot(a, b) \in Contents(t)
      <4>1. PICK j \in active(u) : u[j] = ActiveSlot(a, b)
        BY <3>1 DEF Contents
      <4>2. j # i
        BY <1>4, <2>2, <4>1 DEF ActiveSlot
      <4>3. QED
        BY <1>5, <4>1, <4>2 DEF Contents
    <3>2. ASSUME ActiveSlot(a, b) \in Contents(t) PROVE ActiveSlot(a, b) \in Contents(u)
      <4>1. PICK j \in active(t) : t[j] = ActiveSlot(a, b)
        BY <3>2 DEF Contents
      <4>2. j # i
        BY <2>2, <4>1 DEF ActiveSlot
      <4>3. j \in active(u) /\ u[j] = t[j]
        BY <1>2, <4>1, <4>2, ActiveHolds
      <4>4. QED
        BY <4>1, <4>3 DEF Contents
    <3>3. QED
      BY <2>2, <3>1, <3>2
  <2>3. QED
    BY <2>1, <2>2
<1>7. QED
  BY <1>1, <1>6 DEF PutEffect

\* hash_set of a key that is present keeps the invariant and changes the value of this key only.
LEMMA SetPresent ==
    ASSUME FewFailures, HashInv, NEW k \in Key, NEW v \in Value, hash_set_present(k, v)
    PROVE  HashInv' /\ PutEffect(Contents(table), Contents(table'), k, v)
<1>1. /\ size \in Nat /\ size >= 4 /\ Sized(size) /\ Chained(table, size) /\ Roomy(table)
      /\ table \in [0..(size - 1) -> Slot]
  BY InvRoomy DEF HashInv
<1>2. PICK i : i = hash_lookup(table, size, k)
  OBVIOUS
<1>3. i \in 0..(size - 1) /\ i \in active(table) /\ Holds(table, k, i)
  <2>1. i \in 0..(size - 1) /\ table[i].mode = "ACTIVE"
    BY <1>1, <1>2, LookupCorrect DEF hash_set_present, slot_of
  <2>2. i \in active(table)
    BY <1>1, <2>1 DEF active
  <2>3. QED
    BY <1>1, <1>2, <2>1, <2>2, LookupCorrect
<1>4. table' = PutAt(table, i, k, v)
  <2>1. table[i] = ActiveSlot(k, table[i].value)
    BY <1>1, <1>3, HoldsContents
  <2>2. [table[i] EXCEPT !.value = v] = ActiveSlot(k, v)
    BY <2>1 DEF ActiveSlot
  <2>3. table' = [table EXCEPT ![i].value = v]
    BY <1>2 DEF hash_set_present
  <2>4. [table EXCEPT ![i].value = v] = [table EXCEPT ![i] = [table[i] EXCEPT !.value = v]]
    BY <1>1, <1>3
  <2>5. QED
    BY <2>2, <2>3, <2>4 DEF PutAt
<1>5. \A j : Holds(table, k, j) => j = i
  BY <1>1, <1>3 DEF Holds, Chained, UniqueKeys
<1>6. Chained(table', size)
  <2>1. Reach(table, size, k, i) /\ table[i].key = k
    BY <1>1, <1>3 DEF Holds, Chained, Linked
  <2>2. Chained(PutAt(table, i, k, v), size)
    BY <1>1, <1>3, <1>5, <2>1, PutChained
  <2>3. QED
    BY <1>4, <2>2
<1>7. /\ active(table') = active(table)
      /\ \A j \in 0..(size - 1) : table'[j] = IF j = i THEN ActiveSlot(k, v) ELSE table[j]
  <2>1. /\ active(PutAt(table, i, k, v)) = active(table) \cup {i}
        /\ \A j \in 0..(size - 1) :
              PutAt(table, i, k, v)[j] = IF j = i THEN ActiveSlot(k, v) ELSE table[j]
    BY <1>1, <1>3, PutSlots DEF Chained
  <2>2. QED
    BY <1>3, <1>4, <2>1
<1>8. filled(table') = filled(table)
  <2>1. table' \in [0..(size - 1) -> Slot]
    BY <1>6 DEF Chained, Slots
  <2>2. QED
    BY <1>1, <1>3, <1>7, <2>1 DEF filled, active, ActiveSlot
<1>9. UNCHANGED <<size, fill, count, failures>>
  BY DEF hash_set_present
<1>10. HashInv'
  BY <1>6, <1>7, <1>8, <1>9 DEF HashInv, Table
<1>11. PutEffect(Contents(table), Contents(table'), k, v)
  <2>1. i \in active(table) => table[i].key = k
    BY <1>3 DEF Holds
  <2>2. PutEffect(Contents(table), Contents(PutAt(table, i, k, v)), k, v)
    BY <1>1, <1>3, <1>5, <2>1, PutContents
  <2>3. QED
    BY <1>4, <2>2
<1>12. QED
  BY <1>10, <1>11

\* hash_set of a key that is absent keeps the invariant and adds this key only, into an empty or a
\* deleted slot, and whether or not the table is resized.
LEMMA SetAbsent ==
    ASSUME FewFailures, HashInv, NEW k \in Key, NEW v \in Value, hash_set_absent(k, v)
    PROVE  HashInv' /\ PutEffect(Contents(table), Contents(table'), k, v)
<1>1. /\ size \in Nat /\ size >= 4 /\ Sized(size) /\ Chained(table, size) /\ Roomy(table)
      /\ table \in [0..(size - 1) -> Slot] /\ fill \in 0..size /\ count \in 0..fill
  BY InvRoomy DEF HashInv
<1>2. PICK i : i = hash_lookup(table, size, k)
  OBVIOUS
<1>3. /\ i \in 0..(size - 1) /\ i \notin active(table) /\ Reach(table, size, k, i)
      /\ \A j : ~Holds(table, k, j)
  <2>1. table[i].mode # "ACTIVE"
    BY <1>2 DEF hash_set_absent
  <2>2. i \notin active(table)
    BY <2>1 DEF active
  <2>3. ~Holds(table, k, i)
    BY <2>2 DEF Holds
  <2>4. QED
    BY <1>1, <1>2, <2>2, <2>3, LookupCorrect
<1>4. PICK t : t = PutAt(table, i, k, v)
  OBVIOUS
<1>5. PICK f : f = IF table[i].mode = "EMPTY" THEN fill + 1 ELSE fill
  OBVIOUS
<1>6. hash_update(t, f, count + 1)
  BY <1>2, <1>4, <1>5 DEF hash_set_absent, PutAt
<1>7. Chained(t, size)
  BY <1>1, <1>3, <1>4, PutChained
<1>8. /\ active(t) = active(table) \cup {i}
      /\ \A j \in 0..(size - 1) : t[j] = IF j = i THEN ActiveSlot(k, v) ELSE table[j]
  BY <1>1, <1>3, <1>4, PutSlots DEF Chained
<1>9. filled(t) = filled(table) \cup {i}
  <2>1. t \in [0..(size - 1) -> Slot]
    BY <1>7 DEF Chained, Slots
  <2>2. QED
    BY <1>1, <1>3, <1>8, <2>1 DEF filled, ActiveSlot
<1>10. fill = Cardinality(filled(table)) /\ count = Cardinality(active(table))
  BY DEF HashInv, Table
<1>11. IsFiniteSet(filled(table)) /\ IsFiniteSet(active(table))
  BY <1>1, Counts
<1>12. count + 1 = Cardinality(active(t))
  <2>1. Cardinality(active(table) \cup {i}) = Cardinality(active(table)) + 1
    BY <1>3, <1>11, FS_AddElement
  <2>2. QED
    BY <1>8, <1>10, <2>1
<1>13. f = Cardinality(filled(t))
  <2>1. CASE table[i].mode = "EMPTY"
    <3>1. i \notin filled(table)
      BY <2>1 DEF filled
    <3>2. Cardinality(filled(table) \cup {i}) = Cardinality(filled(table)) + 1
      BY <1>11, <3>1, FS_AddElement
    <3>3. QED
      BY <1>5, <1>9, <1>10, <2>1, <3>2
  <2>2. CASE table[i].mode # "EMPTY"
    <3>1. i \in filled(table)
      BY <1>1, <1>3, <2>2 DEF filled
    <3>2. filled(t) = filled(table)
      BY <1>9, <3>1
    <3>3. QED
      BY <1>5, <1>10, <2>2, <3>2
  <2>3. QED
    BY <2>1, <2>2
<1>14. Table(t, size, f, count + 1, failures)
  BY <1>7, <1>12, <1>13 DEF HashInv, Table
<1>15. 3 * f < 2 * size + 3 * failures + 3
  <2>1. 3 * fill < 2 * size + 3 * failures /\ failures \in Nat
    BY HashAssumption DEF HashInv, Below, Table
  <2>2. f = fill + 1 \/ f = fill
    BY <1>5
  <2>3. QED
    BY <1>1, <2>1, <2>2
<1>16. HashInv' /\ Contents(table') = Contents(t)
  BY <1>6, <1>14, <1>15, UpdateKeeps
<1>17. PutEffect(Contents(table), Contents(t), k, v)
  BY <1>1, <1>3, <1>4, PutContents
<1>18. QED
  BY <1>16, <1>17

\* hash_del keeps the invariant and removes this key only.
LEMMA Delete ==
    ASSUME FewFailures, HashInv, NEW k \in Key, hash_del(k)
    PROVE  HashInv' /\ RemoveEffect(Contents(table), Contents(table'), k)
<1>1. /\ size \in Nat /\ size >= 4 /\ Sized(size) /\ Chained(table, size) /\ Roomy(table)
      /\ table \in [0..(size - 1) -> Slot] /\ fill \in 0..size /\ count \in 0..fill
  BY InvRoomy DEF HashInv
<1>2. PICK i : i = hash_lookup(table, size, k)
  OBVIOUS
<1>3. i \in 0..(size - 1) /\ i \in active(table) /\ Holds(table, k, i)
  <2>1. i \in 0..(size - 1) /\ table[i].mode = "ACTIVE"
    BY <1>1, <1>2, LookupCorrect DEF hash_del
  <2>2. i \in active(table)
    BY <1>1, <2>1 DEF active
  <2>3. QED
    BY <1>1, <1>2, <2>2, LookupCorrect
<1>4. PICK t : t = DeleteAt(table, i)
  OBVIOUS
<1>5. hash_update(t, fill, count - 1)
  BY <1>2, <1>4 DEF hash_del, DeleteAt
<1>6. table[i].mode # "EMPTY"
  BY <1>3 DEF active
<1>7. /\ Chained(t, size) /\ active(t) = active(table) \ {i} /\ filled(t) = filled(table)
      /\ \A j \in active(t) : t[j] = table[j]
  <2>1. size >= 1
    BY <1>1
  <2>2. QED
    BY <1>1, <1>3, <1>4, <1>6, <2>1, DeleteChained
<1>9. count - 1 = Cardinality(active(t))
  <2>1. IsFiniteSet(active(table))
    BY <1>1, Counts
  <2>2. Cardinality(active(table) \ {i}) = Cardinality(active(table)) - 1
    BY <1>3, <2>1, FS_RemoveElement
  <2>3. QED
    BY <1>7, <2>2 DEF HashInv, Table
<1>10. Table(t, size, fill, count - 1, failures)
  BY <1>7, <1>9 DEF HashInv, Table
<1>11. 3 * fill < 2 * size + 3 * failures + 3
  <2>1. 3 * fill < 2 * size + 3 * failures /\ failures \in Nat
    BY HashAssumption DEF HashInv, Below, Table
  <2>2. QED
    BY <1>1, <2>1
<1>12. HashInv' /\ Contents(table') = Contents(t)
  BY <1>5, <1>10, <1>11, UpdateKeeps
<1>13. ASSUME NEW a \in Key, NEW b \in Value
       PROVE  ActiveSlot(a, b) \in Contents(t) <=> a # k /\ ActiveSlot(a, b) \in Contents(table)
  <2>1. ASSUME ActiveSlot(a, b) \in Contents(t)
        PROVE  a # k /\ ActiveSlot(a, b) \in Contents(table)
    <3>1. PICK j \in active(t) : t[j] = ActiveSlot(a, b)
      BY <2>1 DEF Contents
    <3>2. j \in active(table) /\ j # i /\ table[j] = ActiveSlot(a, b)
      BY <1>7, <3>1
    <3>3. table[j].key = a
      BY <3>2 DEF ActiveSlot
    <3>4. a # k
      BY <1>1, <1>3, <3>2, <3>3 DEF Holds, Chained, UniqueKeys
    <3>5. QED
      BY <3>2, <3>4 DEF Contents
  <2>2. ASSUME a # k, ActiveSlot(a, b) \in Contents(table)
        PROVE  ActiveSlot(a, b) \in Contents(t)
    <3>1. PICK j \in active(table) : table[j] = ActiveSlot(a, b)
      BY <2>2 DEF Contents
    <3>2. j # i
      BY <1>3, <2>2, <3>1 DEF Holds, ActiveSlot
    <3>3. j \in active(t) /\ t[j] = table[j]
      BY <1>7, <3>1, <3>2
    <3>4. QED
      BY <3>1, <3>3 DEF Contents
  <2>3. QED
    BY <2>1, <2>2
<1>14. QED
  BY <1>12, <1>13 DEF RemoveEffect

-----------------------------------------------------------------------------
(* Theorems *)

\* hash_init establishes the invariant.
LEMMA InitInv == Init => HashInv
<1>1. SUFFICES ASSUME Init PROVE HashInv
  OBVIOUS
<1>2. /\ HASH_MINSIZE \in Nat /\ size = HASH_MINSIZE /\ HASH_MINSIZE >= 4
      /\ table = hash_initialize(HASH_MINSIZE) /\ fill = 0 /\ count = 0 /\ failures = 0
  BY <1>1, MinSize DEF Init
<1>3. Chained(table, size) /\ active(table) = {}
  BY <1>2, EmptyChained
<1>4. filled(table) = {}
  BY <1>2 DEF filled, hash_initialize, EmptySlot
<1>5. Cardinality({}) = 0
  BY FS_EmptySet
<1>6. SizeRight(size)
  <2>1. HASH_MINSIZE * 1 = HASH_MINSIZE /\ pow2[0] = 1
    BY <1>2, Pow2
  <2>2. QED
    BY <1>2, <2>1 DEF SizeRight
<1>7. failures \in 0..MaxFailures
  BY <1>2, HashAssumption
<1>8. QED
  BY <1>2, <1>3, <1>4, <1>5, <1>6, <1>7 DEF HashInv, Table, Below

\* Every call keeps the invariant.
LEMMA StepInv == ASSUME FewFailures PROVE HashInv /\ [Next]_vars => HashInv'
<1>1. ASSUME HashInv, NEW k \in Key, hash_del(k) PROVE HashInv'
  BY <1>1, Delete
<1>2. ASSUME HashInv, NEW k \in Key, NEW v \in Value, hash_set_present(k, v) PROVE HashInv'
  BY <1>2, SetPresent
<1>3. ASSUME HashInv, NEW k \in Key, NEW v \in Value, hash_set_absent(k, v) PROVE HashInv'
  BY <1>3, SetAbsent
<1>4. ASSUME HashInv, UNCHANGED vars PROVE HashInv'
  BY <1>4 DEF HashInv, vars
<1>5. QED
  BY <1>1, <1>2, <1>3, <1>4 DEF Next

\* The invariant holds forever.
LEMMA Invariance == ASSUME FewFailures PROVE Spec => []HashInv
<1>1. HashInv /\ [Next]_vars => HashInv'
  BY StepInv
<1>2. QED
  BY InitInv, <1>1, PTL DEF Spec

\* Counters and chains of the invariant are what TableConsistent says.
LEMMA InvConsistent == ASSUME FewFailures, HashInv PROVE TableConsistent
<1>1. /\ size \in Nat /\ Sized(size) /\ Chained(table, size) /\ Roomy(table)
      /\ table \in [0..(size - 1) -> Slot] /\ fill \in 0..size /\ count \in 0..fill
  BY InvRoomy DEF HashInv
<1>2. HashTypeOK
  BY <1>1, Sizes DEF HashTypeOK, HashInv, Table
<1>3. CountsExact
  BY DEF CountsExact, HashInv, Table, filled
<1>4. ASSUME NEW i \in active(table) PROVE hash_lookup(table, size, table[i].key) = i
  <2>1. table[i].key \in Key /\ Holds(table, table[i].key, i)
    BY <1>1, ActiveHolds
  <2>2. QED
    BY <1>1, <2>1, Found
<1>5. QED
  BY <1>2, <1>3, <1>4 DEF TableConsistent, KeysFound

\* In the invariant there is an empty slot, so every search ends.
LEMMA InvLookupEnds == ASSUME FewFailures, HashInv PROVE LookupEnds
<1>1. size \in Nat /\ Sized(size) /\ Chained(table, size) /\ Roomy(table)
  BY InvRoomy DEF HashInv
<1>2. ASSUME NEW k \in Key PROVE hash_lookup(table, size, k) # Nowhere
  <2>1. hash_lookup(table, size, k) \in 0..(size - 1)
    BY <1>1, LookupCorrect
  <2>2. QED
    BY <1>1, <2>1 DEF Nowhere
<1>3. QED
  BY <1>2 DEF LookupEnds

\* Through any sequence of hash_set and hash_del, with any resizing and refused resizing by
\* hash_update, the table has the size that mask says, fill and count are exact, no key is in two
\* slots, and hash_lookup finds every key that is in the table.
THEOREM TableCorrect == FewFailures => (Spec => []TableConsistent)
<1>1. SUFFICES ASSUME FewFailures PROVE Spec => []TableConsistent
  OBVIOUS
<1>2. HashInv => TableConsistent
  BY <1>1, InvConsistent
<1>3. Spec => []HashInv
  BY <1>1, Invariance
<1>4. QED
  BY <1>2, <1>3, PTL

\* The loop of hash_lookup, which has no exit but a slot that is empty or has the key, always
\* ends, for a key that is present or absent: deleted slots and refused resizings never use up the
\* last empty slot, and the probes reach every slot.
THEOREM EveryLookupEnds == FewFailures => (Spec => []LookupEnds)
<1>1. SUFFICES ASSUME FewFailures PROVE Spec => []LookupEnds
  OBVIOUS
<1>2. HashInv => LookupEnds
  BY <1>1, InvLookupEnds
<1>3. Spec => []HashInv
  BY <1>1, Invariance
<1>4. QED
  BY <1>2, <1>3, PTL

-----------------------------------------------------------------------------
(* The table implements the map of hash.h *)

\* hash_get, with table and size as parameters.
LEMMA GetIs == \A k : hash_get(k) = Get(table, size, k)
  BY DEF hash_get, slot_of, Get

\* contents, before a step and after it.
MapNow == [k \in Key |-> Get(table, size, k)]
MapNext == [k \in Key |-> Get(table', size', k)]

\* A hash_set is a Put of the map.
LEMMA MapPut ==
    ASSUME FewFailures, HashInv, HashInv', NEW k \in Key, NEW v \in Value,
           PutEffect(Contents(table), Contents(table'), k, v)
    PROVE  MapNext = [MapNow EXCEPT ![k] = v]
<1>1. size \in Nat /\ Sized(size) /\ Chained(table, size) /\ Roomy(table)
  BY InvRoomy DEF HashInv
<1>2. size' \in Nat /\ Sized(size') /\ Chained(table', size') /\ Roomy(table')
  BY InvRoomy DEF HashInv
<1>3. Get(table', size', k) = v
  <2>1. ActiveSlot(k, v) \in Contents(table')
    BY DEF PutEffect
  <2>2. QED
    BY <1>2, <2>1, GetCorrect
<1>4. ASSUME NEW a \in Key, a # k PROVE Get(table', size', a) = Get(table, size, a)
  <2>1. \A b \in Value : ActiveSlot(a, b) \in Contents(table') <=> ActiveSlot(a, b) \in Contents(table)
    BY <1>4 DEF PutEffect
  <2>2. QED
    BY <1>1, <1>2, <2>1, GetSame
<1>5. QED
  BY <1>3, <1>4 DEF MapNow, MapNext

\* A hash_del is a Remove of the map.
LEMMA MapRemove ==
    ASSUME FewFailures, HashInv, HashInv', NEW k \in Key,
           RemoveEffect(Contents(table), Contents(table'), k)
    PROVE  MapNext = [MapNow EXCEPT ![k] = None]
<1>1. size \in Nat /\ Sized(size) /\ Chained(table, size) /\ Roomy(table)
  BY InvRoomy DEF HashInv
<1>2. size' \in Nat /\ Sized(size') /\ Chained(table', size') /\ Roomy(table')
  BY InvRoomy DEF HashInv
<1>3. Get(table', size', k) = None
  <2>1. \A b \in Value : ActiveSlot(k, b) \notin Contents(table')
    BY DEF RemoveEffect
  <2>2. QED
    BY <1>2, <2>1, GetCorrect
<1>4. ASSUME NEW a \in Key, a # k PROVE Get(table', size', a) = Get(table, size, a)
  <2>1. \A b \in Value : ActiveSlot(a, b) \in Contents(table') <=> ActiveSlot(a, b) \in Contents(table)
    BY <1>4 DEF RemoveEffect
  <2>2. QED
    BY <1>1, <1>2, <2>1, GetSame
<1>5. QED
  BY <1>3, <1>4 DEF MapNow, MapNext

\* The new table is the empty map.
LEMMA MapInit == ASSUME FewFailures PROVE Init => Map!Init
<1>1. SUFFICES ASSUME Init PROVE Map!Init
  OBVIOUS
<1>2. HashInv
  BY <1>1, InitInv
<1>3. size \in Nat /\ Sized(size) /\ Chained(table, size) /\ Roomy(table)
  BY <1>2, InvRoomy DEF HashInv
<1>4. Contents(table) = {}
  <2>1. active(table) = {}
    BY <1>1, MinSize, EmptyChained DEF Init
  <2>2. QED
    BY <2>1 DEF Contents
<1>5. ASSUME NEW k \in Key PROVE Get(table, size, k) = None
  BY <1>3, <1>4, GetCorrect
<1>6. QED
  BY <1>5, GetIs DEF Map!Init

\* Every step of the table is a step of the map or changes nothing.
LEMMA MapStep == ASSUME FewFailures, HashInv, [Next]_vars PROVE [Map!Next]_([k \in Key |-> hash_get(k)])
<1>0. HashInv'
  BY StepInv
<1>1. [k \in Key |-> hash_get(k)] = MapNow
  BY GetIs DEF MapNow
<1>2. [k \in Key |-> hash_get(k)]' = MapNext
  BY DEF MapNext, hash_get, slot_of, Get
<1>3. ASSUME NEW k \in Key, hash_del(k) PROVE Map!Next
  <2>1. RemoveEffect(Contents(table), Contents(table'), k)
    BY <1>3, Delete
  <2>2. MapNext = [MapNow EXCEPT ![k] = None]
    BY <1>0, <2>1, MapRemove
  <2>3. Map!Remove(k)
    BY <1>1, <1>2, <2>2 DEF Map!Remove
  <2>4. QED
    BY <2>3 DEF Map!Next
<1>4. ASSUME NEW k \in Key, NEW v \in Value, hash_set_present(k, v) \/ hash_set_absent(k, v)
      PROVE  Map!Next
  <2>1. PutEffect(Contents(table), Contents(table'), k, v)
    BY <1>4, SetPresent, SetAbsent
  <2>2. MapNext = [MapNow EXCEPT ![k] = v]
    BY <1>0, <2>1, MapPut
  <2>3. Map!Put(k, v)
    BY <1>1, <1>2, <2>2 DEF Map!Put
  <2>4. QED
    BY <2>3 DEF Map!Next
<1>5. ASSUME UNCHANGED vars PROVE [k \in Key |-> hash_get(k)]' = [k \in Key |-> hash_get(k)]
  <2>1. table' = table /\ size' = size
    BY <1>5 DEF vars
  <2>2. MapNext = MapNow
    BY <2>1 DEF MapNext, MapNow
  <2>3. QED
    BY <1>1, <1>2, <2>2
<1>6. QED
  BY <1>3, <1>4, <1>5 DEF Next

\* The table of hash.c implements the map that hash.h promises: seen through hash_get, a hash_set
\* changes one key, a hash_del removes one, and collisions, reuse of deleted slots, copying into
\* another table and failure to get one are never seen.
THEOREM TableIsMap == FewFailures => (Spec => ImplementsMap)
<1>1. SUFFICES ASSUME FewFailures PROVE Spec => Map!Spec
  BY DEF ImplementsMap
<1>2. Init => Map!Init
  BY <1>1, MapInit
<1>3. HashInv /\ [Next]_vars => [Map!Next]_([k \in Key |-> hash_get(k)])
  BY <1>1, MapStep
<1>4. Spec => []HashInv
  BY <1>1, Invariance
<1>5. QED
  BY <1>2, <1>3, <1>4, PTL DEF Spec, Map!Spec

===============================================================================
