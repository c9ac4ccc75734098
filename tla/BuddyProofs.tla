---------------------------- MODULE BuddyProofs ----------------------------
(***************************************************************************)
(* The page allocator keeps its promises, for any number of orders and any *)
(* sizes that are requested: no page is in two blocks, none is lost, no    *)
(* two buddies are both free, and the callers see PageFrames.              *)
(***************************************************************************)
EXTENDS Buddy, PrioQueueProofs, FunctionTheorems, FiniteSetTheorems

-----------------------------------------------------------------------------
(* Powers of two *)

\* pages exists: its values up to n can be tabulated for every n.
LEMMA PagesExist ==
    \E g : g = [i \in 0..MAP_SIZE |-> IF i = 0 THEN 1 ELSE 2 * g[i - 1]]
<1> DEFINE Is(g, n) == g = [i \in 0..n |-> IF i = 0 THEN 1 ELSE 2 * g[i - 1]]
           Bad == {n \in Nat : ~ \E g : Is(g, n)}
<1>1. ASSUME Bad # {} PROVE FALSE
  <2>1. Bad \subseteq Nat
    OBVIOUS
  <2>2. PICK m \in Bad : \A n \in Bad : m <= n
    <3> HIDE DEF Bad
    <3> QED BY <1>1, <2>1, LeastNat
  <2>3. m # 0
    <3>1. Is([i \in 0..0 |-> 1], 0)
      OBVIOUS
    <3>2. 0 \notin Bad
      BY <3>1
    <3> QED BY <3>2
  <2>4. m \in Nat /\ m - 1 \in Nat /\ m - 1 \notin Bad
    <3>1. m \in Nat /\ m - 1 \in Nat /\ m - 1 < m
      BY <2>2, <2>3
    <3>2. m - 1 \in Bad => m <= m - 1
      BY <2>2
    <3> QED BY <3>1, <3>2
  <2>5. PICK g : Is(g, m - 1)
    BY <2>4
  <2> DEFINE h == [i \in 0..m |-> IF i = m THEN 2 * g[m - 1] ELSE g[i]]
  <2>6. ASSUME NEW i \in 0..m PROVE h[i] = IF i = 0 THEN 1 ELSE 2 * h[i - 1]
    <3>1. CASE i = m
      BY <3>1, <2>3, <2>4
    <3>2. CASE i # m
      <4>1. i \in 0..(m - 1) /\ h[i] = g[i]
        BY <3>2, <2>4
      <4>2. g[i] = IF i = 0 THEN 1 ELSE 2 * g[i - 1]
        BY <4>1, <2>5
      <4>3. i # 0 => h[i - 1] = g[i - 1]
        BY <4>1, <2>4
      <4> QED BY <4>1, <4>2, <4>3
    <3> QED BY <3>1, <3>2
  <2>7. Is(h, m)
    BY <2>6
  <2> QED BY <2>7, <2>2
<1>2. MAP_SIZE \in Nat
  BY BuddyAssumption
<1>3. QED
  BY <1>1, <1>2

LEMMA Pages ==
    /\ MAP_SIZE \in Nat /\ Top \in Nat /\ Top >= 1 /\ Top + 1 = MAP_SIZE
    /\ Order = 0..Top
    /\ pages[0] = 1
    /\ \A i \in Order : pages[i + 1] = 2 * pages[i]
    /\ \A i \in 0..MAP_SIZE : pages[i] \in Nat /\ pages[i] > 0
    /\ BlockPages = pages[Top]
<1>1. MAP_SIZE \in Nat /\ Top \in Nat /\ Top >= 1 /\ Top + 1 = MAP_SIZE /\ Order = 0..Top
  BY BuddyAssumption DEF Top, Order
<1>2. pages = [i \in 0..MAP_SIZE |-> IF i = 0 THEN 1 ELSE 2 * pages[i - 1]]
  BY PagesExist DEF pages
<1>3. \A i \in 0..MAP_SIZE : pages[i] = IF i = 0 THEN 1 ELSE 2 * pages[i - 1]
  BY <1>2
<1>4. pages[0] = 1
  BY <1>1, <1>3
<1>5. \A i \in Order : pages[i + 1] = 2 * pages[i]
  <2> TAKE i \in Order
  <2>1. i + 1 \in 0..MAP_SIZE /\ i + 1 # 0 /\ (i + 1) - 1 = i
    BY <1>1
  <2> QED BY <2>1, <1>3
<1> DEFINE Bad == {i \in 0..MAP_SIZE : ~(pages[i] \in Nat /\ pages[i] > 0)}
<1>6. ASSUME Bad # {} PROVE FALSE
  <2>1. Bad \subseteq Nat
    BY <1>1
  <2>2. PICK m \in Bad : \A n \in Bad : m <= n
    <3> HIDE DEF Bad
    <3> QED BY <1>6, <2>1, LeastNat
  <2>3. m # 0
    BY <1>4
  <2>4. m - 1 \in 0..MAP_SIZE /\ m - 1 \notin Bad
    BY <2>2, <2>3, <1>1
  <2>5. pages[m] = 2 * pages[m - 1]
    BY <2>2, <2>3, <1>3
  <2> QED BY <2>4, <2>5, <2>2
<1>7. QED
  BY <1>1, <1>4, <1>5, <1>6 DEF BlockPages

\* The bounds of the blocks that tile a block: every number below pages[k] and not
\* below pages[i] lies between two consecutive ones.
LEMMA PagesTile ==
    ASSUME NEW i \in 0..MAP_SIZE, NEW k \in 0..MAP_SIZE, NEW x \in Nat,
           pages[i] <= x, x < pages[k], i <= k
    PROVE  \E j \in i..(k - 1) : pages[j] <= x /\ x < pages[j + 1]
<1> DEFINE T == {j \in i..k : x < pages[j]}
<1>1. k \in T /\ T \subseteq Nat
  BY Pages
<1>2. PICK m \in T : \A n \in T : m <= n
  <2> HIDE DEF T
  <2> QED BY <1>1, LeastNat
<1>3. m # i
  BY Pages
<1>4. m - 1 \in i..(k - 1) /\ m - 1 \notin T /\ m - 1 \in i..k /\ (m - 1) + 1 = m
  BY <1>2, <1>3, Pages
<1>5. pages[m - 1] \in Nat
  BY SMTT(30), <1>4, Pages
<1>6. pages[m - 1] <= x /\ x < pages[(m - 1) + 1]
  BY <1>4, <1>5, <1>2
<1>7. QED
  BY <1>4, <1>6

\* The orders are ordered like the sizes of their blocks.
LEMMA PagesMonotonic ==
    ASSUME NEW i \in 0..MAP_SIZE, NEW k \in 0..MAP_SIZE, i <= k
    PROVE  pages[i] <= pages[k] /\ (i < k => pages[i + 1] <= pages[k])
<1> DEFINE Bad(a) == {j \in a..k : pages[j] < pages[a]}
<1>1. ASSUME NEW a \in 0..k, Bad(a) # {} PROVE FALSE
  <2>1. Bad(a) \subseteq Nat
    BY Pages
  <2>2. PICK m \in Bad(a) : \A n \in Bad(a) : m <= n
    <3> HIDE DEF Bad
    <3> QED BY <1>1, <2>1, LeastNat
  <2>3. m # a
    BY SMTT(30), Pages
  <2>4. m - 1 \in a..k /\ m - 1 \notin Bad(a) /\ m - 1 \in Order
    BY <2>2, <2>3, Pages
  <2>5. pages[m] = 2 * pages[m - 1]
    <3>1. pages[(m - 1) + 1] = 2 * pages[m - 1]
      BY <2>4, Pages
    <3> QED BY <3>1, <2>4
  <2> QED BY <2>4, <2>5, <2>2, Pages
<1>a. \A a \in 0..k : Bad(a) = {}
  <2> HIDE DEF Bad
  <2> QED BY <1>1
<1>2. k \in i..k /\ i \in 0..k /\ k \notin Bad(i)
  <2>1. k \in i..k /\ i \in 0..k
    BY Pages
  <2> QED BY <2>1, <1>a
<1>3. i < k => i + 1 \in 0..k /\ k \in (i + 1)..k /\ k \notin Bad(i + 1)
  <2>1. i < k => i + 1 \in 0..k /\ k \in (i + 1)..k
    BY Pages
  <2> QED BY <2>1, <1>a
<1>4. pages[i] \in Nat /\ pages[k] \in Nat /\ (i < k => pages[i + 1] \in Nat)
  BY Pages
<1>5. QED
  BY <1>2, <1>3, <1>4

-----------------------------------------------------------------------------
(* Arithmetic on blocks *)

LEMMA DivMod ==
    ASSUME NEW a \in Nat, NEW p \in Nat, p > 0
    PROVE  /\ a \div p \in Nat /\ a % p \in 0..(p - 1)
           /\ a = p * (a \div p) + (a % p)
  OBVIOUS

LEMMA DivUnique ==
    ASSUME NEW q \in Nat, NEW p \in Nat, p > 0, NEW r \in 0..(p - 1)
    PROVE  (p * q + r) \div p = q /\ (p * q + r) % p = r
<1> DEFINE a == p * q + r
           d == a \div p
<1>1. a \in Nat
  OBVIOUS
<1>2. d \in Nat /\ a % p \in 0..(p - 1) /\ a = p * d + (a % p)
  <2> HIDE DEF a
  <2> QED BY <1>1, DivMod DEF d
<1>3. d = q
  <2>1. CASE d < q
    <3>1. d + 1 <= q
      BY <2>1, <1>2
    <3>2. p * (d + 1) <= p * q
      BY <3>1, <1>2
    <3>3. p * (d + 1) = p * d + p
      BY <1>2
    <3> QED BY <3>2, <3>3, <1>2
  <2>2. CASE q < d
    <3>1. q + 1 <= d
      BY <2>2, <1>2
    <3>2. p * (q + 1) <= p * d
      BY <3>1, <1>2
    <3>3. p * (q + 1) = p * q + p
      OBVIOUS
    <3> QED BY <3>2, <3>3, <1>2
  <2> QED BY <2>1, <2>2, <1>2
<1>4. QED
  BY <1>2, <1>3

\* A number is aligned if it is a multiple.
LEMMA Multiple ==
    ASSUME NEW q \in Nat, NEW p \in Nat, p > 0
    PROVE  p * q \in Nat /\ (p * q) % p = 0 /\ (p * q) \div p = q
<1>1. 0 \in 0..(p - 1) /\ p * q + 0 = p * q /\ p * q \in Nat
  OBVIOUS
<1>2. (p * q + 0) \div p = q /\ (p * q + 0) % p = 0
  BY <1>1, DivUnique
<1>3. QED
  BY <1>1, <1>2

LEMMA Aligned ==
    ASSUME NEW a \in Nat, NEW p \in Nat, p > 0, a % p = 0
    PROVE  \E q \in Nat : a = p * q
<1>1. a \div p \in Nat /\ a = p * (a \div p) + (a % p)
  BY DivMod
<1>2. a = p * (a \div p)
  BY <1>1
<1>3. QED
  BY <1>1, <1>2

\* The block of order i that a page is in.
LEMMA BlockOf ==
    ASSUME NEW a \in Nat, NEW i \in 0..MAP_SIZE
    PROVE  /\ block(a, i) \in Nat /\ block(a, i) % pages[i] = 0
           /\ block(a, i) <= a /\ a < block(a, i) + pages[i]
           /\ a % pages[i] = 0 => block(a, i) = a
<1> DEFINE p == pages[i]
           q == a \div pages[i]
<1>1. p \in Nat /\ p > 0
  BY Pages
<1>2. q \in Nat /\ a % p \in 0..(p - 1) /\ a = p * q + (a % p)
  BY <1>1, DivMod
<1>3. block(a, i) = a - (a % p)
  BY DEF block
<1>4. p * q \in Nat /\ (p * q) % p = 0
  BY <1>1, <1>2, Multiple
<1> HIDE DEF p, q
<1>5. block(a, i) = p * q
  BY <1>1, <1>2, <1>3, <1>4
<1>6. QED
  BY <1>1, <1>2, <1>4, <1>5 DEF p

\* The buddy of an aligned block is another one, whose buddy it is; the two are
\* the halves of the block of the next order.
LEMMA Buddies ==
    ASSUME NEW a \in Nat, NEW i \in Order, a % pages[i] = 0
    PROVE  /\ buddy(a, i) \in Nat /\ buddy(a, i) % pages[i] = 0
           /\ buddy(a, i) # a /\ buddy(buddy(a, i), i) = a
           /\ \/ buddy(a, i) = a + pages[i] /\ a % pages[i + 1] = 0
              \/ a = buddy(a, i) + pages[i] /\ buddy(a, i) % pages[i + 1] = 0
<1> DEFINE p == pages[i]
<1>1. p \in Nat /\ p > 0 /\ pages[i + 1] = 2 * p
  BY Pages
<1>2. PICK q \in Nat : a = p * q
  BY <1>1, Aligned
<1>3. a \div p = q
  BY <1>1, <1>2, Multiple
<1>4. buddy(a, i) = IF q % 2 = 0 THEN a + p ELSE a - p
  BY <1>3 DEF buddy
<1> DEFINE r == 2 * p
<1>a. r \in Nat /\ r > 0
  BY <1>1
<1>b. \A h \in Nat : (r * h) % r = 0
  <2> HIDE DEF r
  <2> QED BY <1>a, Multiple
<1>c. \A h \in Nat : p * (2 * h) = r * h
  <2> HIDE DEF p
  <2> QED BY <1>1
<1>5. CASE q % 2 = 0
  <2>1. PICK h \in Nat : q = 2 * h
    BY <1>5, Aligned
  <2>0. p * (q + 1) = p * q + p
    <3> HIDE DEF p
    <3> QED BY <1>1
  <2>2. buddy(a, i) = p * (q + 1) /\ buddy(a, i) = a + p
    BY <1>2, <1>4, <1>5, <2>0
  <2>3. p * (q + 1) \in Nat /\ (p * (q + 1)) % p = 0 /\ (p * (q + 1)) \div p = q + 1
    BY <1>1, Multiple
  <2>4. (q + 1) % 2 # 0
    BY <1>5
  <2>5. buddy(p * (q + 1), i) = p * (q + 1) - p
    BY <2>3, <2>4 DEF buddy
  <2>6. p * (q + 1) - p = a
    <3> HIDE DEF p
    <3> QED BY <1>1, <1>2, <2>0
  <2>8. a % r = 0
    BY <2>1, <1>2, <1>b, <1>c
  <2>9. a + p # a
    BY <1>1
  <2> QED BY <2>2, <2>3, <2>5, <2>6, <2>8, <2>9, <1>1
<1>6. CASE q % 2 # 0
  <2>0. q >= 1 /\ q - 1 \in Nat /\ (q - 1) % 2 = 0
    BY <1>6
  <2>1. PICK h \in Nat : q - 1 = 2 * h
    <3>1. (q - 1) \div 2 \in Nat /\ q - 1 = 2 * ((q - 1) \div 2)
      BY <2>0
    <3> QED BY <3>1
  <2>a. p * (q - 1) = p * q - p
    <3> HIDE DEF p
    <3> QED BY <1>1
  <2>2. buddy(a, i) = p * (q - 1) /\ buddy(a, i) = a - p
    BY <1>2, <1>4, <1>6, <2>a
  <2>3. p * (q - 1) \in Nat /\ (p * (q - 1)) % p = 0 /\ (p * (q - 1)) \div p = q - 1
    BY <1>1, <2>0, Multiple
  <2>5. buddy(p * (q - 1), i) = p * (q - 1) + p
    BY <2>3, <2>0 DEF buddy
  <2>6. p * (q - 1) + p = a
    <3> HIDE DEF p
    <3> QED BY <1>1, <1>2, <2>a
  <2>8. (p * (q - 1)) % r = 0
    BY <2>1, <1>b, <1>c
  <2>9. p * (q - 1) # a
    BY <1>1, <2>6, <2>3
  <2> QED BY <2>2, <2>3, <2>5, <2>6, <2>8, <2>9, <1>1
<1>7. QED
  BY <1>5, <1>6

\* The block of the next order is the two halves: this one and its buddy.
LEMMA NextBlock ==
    ASSUME NEW a \in Nat, NEW i \in Order
    PROVE  \/ block(a, i + 1) = block(a, i)
              /\ buddy(block(a, i), i) = block(a, i) + pages[i]
           \/ block(a, i + 1) = buddy(block(a, i), i)
              /\ block(a, i) = buddy(block(a, i), i) + pages[i]
<1> DEFINE p == pages[i]
           b == block(a, i)
           c == buddy(b, i)
<1>1. p \in Nat /\ p > 0 /\ pages[i + 1] = 2 * p /\ i \in 0..MAP_SIZE /\ i + 1 \in 0..MAP_SIZE
  BY Pages
<1>2. b \in Nat /\ b % p = 0 /\ b <= a /\ a < b + p
  BY <1>1, BlockOf
<1>3. /\ c \in Nat
      /\ \/ c = b + p /\ b % pages[i + 1] = 0
         \/ b = c + p /\ c % pages[i + 1] = 0
  <2> HIDE DEF b
  <2> QED BY <1>2, Buddies
\* An aligned block of the next order that contains a.
<1>4. ASSUME NEW d \in Nat, d % (2 * p) = 0, d <= a, a < d + 2 * p
      PROVE  block(a, i + 1) = d
  <2> DEFINE r == 2 * p
             e == a - d
  <2>1. r \in Nat /\ r > 0 /\ r = pages[i + 1] /\ d % r = 0 /\ e \in 0..(r - 1)
    BY <1>1, <1>4
  <2>2. a = d + e
    BY <1>4
  <2> HIDE DEF r, e
  <2>3. PICK q \in Nat : d = r * q
    BY <1>4, <2>1, Aligned
  <2>4. (r * q + e) % r = e
    BY <2>1, DivUnique
  <2>5. block(a, i + 1) = a - e
    BY <2>1, <2>2, <2>3, <2>4 DEF block
  <2> QED BY <2>5, <1>4, <2>1, <2>2
<1> HIDE DEF p, b, c
<1>5. CASE c = b + p /\ b % pages[i + 1] = 0
  <2>1. block(a, i + 1) = b
    BY <1>1, <1>2, <1>4, <1>5
  <2> QED BY <1>5, <2>1 DEF p, b, c
<1>6. CASE b = c + p /\ c % pages[i + 1] = 0
  <2>1. block(a, i + 1) = c
    BY <1>1, <1>2, <1>3, <1>4, <1>6
  <2> QED BY <1>6, <2>1 DEF p, b, c
<1>7. QED
  BY <1>3, <1>5, <1>6

-----------------------------------------------------------------------------
(* Sets of blocks *)

\* Blocks with their orders, as in FreeBlocks and HeldBlocks.
Blocks == Nat \X Order

\* The page p is in the block x.
In(p, x) == x[1] <= p /\ p < End(x)

\* No page is in two of the blocks.
Apart(B) == \A x, y \in B : x # y => \A p \in Nat : ~(In(p, x) /\ In(p, y))

LEMMA BlockType ==
    ASSUME NEW x \in Blocks
    PROVE  /\ x[1] \in Nat /\ x[2] \in Order /\ x = <<x[1], x[2]>>
           /\ End(x) \in Nat /\ End(x) = x[1] + pages[x[2]] /\ x[1] < End(x)
           /\ In(x[1], x) /\ In(End(x) - 1, x) /\ End(x) - 1 \in Nat
<1>1. x[1] \in Nat /\ x[2] \in Order /\ x = <<x[1], x[2]>>
  BY DEF Blocks
<1>2. pages[x[2]] \in Nat /\ pages[x[2]] > 0
  BY <1>1, Pages
<1>3. QED
  BY <1>1, <1>2 DEF End, In

LEMMA ApartDef ==
    ASSUME NEW B, B \subseteq Blocks
    PROVE  Apart(B) <=> \A x, y \in B : x # y => End(x) <= y[1] \/ End(y) <= x[1]
<1>1. ASSUME NEW x \in B, NEW y \in B
      PROVE  (\A p \in Nat : ~(In(p, x) /\ In(p, y))) <=> End(x) <= y[1] \/ End(y) <= x[1]
  <2>1. /\ x[1] \in Nat /\ End(x) \in Nat /\ x[1] < End(x)
        /\ y[1] \in Nat /\ End(y) \in Nat /\ y[1] < End(y)
    BY BlockType
  <2>2. ASSUME \A p \in Nat : ~(In(p, x) /\ In(p, y)) PROVE End(x) <= y[1] \/ End(y) <= x[1]
    <3>1. ~(In(x[1], x) /\ In(x[1], y)) /\ ~(In(y[1], x) /\ In(y[1], y))
      BY <2>1, <2>2
    <3> QED BY <2>1, <3>1 DEF In
  <2>3. ASSUME End(x) <= y[1] \/ End(y) <= x[1], NEW p \in Nat PROVE ~(In(p, x) /\ In(p, y))
    BY <2>1, <2>3 DEF In
  <2> QED BY <2>2, <2>3
<1>2. QED
  BY <1>1 DEF Apart

\* The blocks N have the same pages as the blocks R.
SamePages(N, R) == \A p \in Nat : (\E x \in N : In(p, x)) <=> (\E x \in R : In(p, x))

\* Blocks are replaced by others that have the same pages.
LEMMA Exchange ==
    ASSUME NEW B, B \subseteq Blocks, Apart(B),
           NEW R, R \subseteq B,
           NEW N, N \subseteq Blocks, Apart(N), SamePages(N, R)
    PROVE  /\ Apart((B \ R) \cup N)
           /\ (B \ R) \cap N = {}
           /\ SamePages((B \ R) \cup N, B)
<1>1. ASSUME NEW x \in B \ R, NEW y \in N, NEW p \in Nat, In(p, x), In(p, y) PROVE FALSE
  <2>1. PICK r \in R : In(p, r)
    BY <1>1 DEF SamePages
  <2> QED BY <1>1, <2>1 DEF Apart
<1>2. ASSUME NEW x \in (B \ R) \cap N PROVE FALSE
  <2>1. x[1] \in Nat /\ In(x[1], x)
    BY BlockType
  <2> QED BY <1>1, <2>1
<1>3. ASSUME NEW x \in (B \ R) \cup N, NEW y \in (B \ R) \cup N, x # y, NEW p \in Nat, In(p, x), In(p, y)
      PROVE  FALSE
  <2>1. CASE x \in B \ R /\ y \in B \ R
    BY <1>3, <2>1 DEF Apart
  <2>2. CASE x \in N /\ y \in N
    BY <1>3, <2>2 DEF Apart
  <2>3. CASE x \in B \ R /\ y \in N
    BY <1>1, <1>3, <2>3
  <2>4. CASE x \in N /\ y \in B \ R
    BY <1>1, <1>3, <2>4
  <2> QED BY <2>1, <2>2, <2>3, <2>4
<1>4. SamePages((B \ R) \cup N, B)
  BY DEF SamePages
<1>5. Apart((B \ R) \cup N)
  BY <1>3 DEF Apart
<1>6. QED
  BY <1>2, <1>4, <1>5

\* What becomes of a block of order k that is split down to order i: the lower
\* part that is handed out, and the upper halves.
Parts(a, i, k) == {<<a, i>>} \cup {<<a + pages[j], j>> : j \in i..(k - 1)}

LEMMA SplitTiles ==
    ASSUME NEW a \in Nat, NEW k \in Order, NEW i \in 0..k, a % pages[k] = 0
    PROVE  /\ Parts(a, i, k) \subseteq Blocks /\ Apart(Parts(a, i, k))
           /\ \A x \in Parts(a, i, k) : x[1] % pages[x[2]] = 0
           /\ \A p \in Nat : (\E x \in Parts(a, i, k) : In(p, x)) <=> In(p, <<a, k>>)
<1> DEFINE P == Parts(a, i, k)
<1>1. /\ i \in Order /\ k \in Order /\ i <= k
      /\ \A j \in i..(k - 1) : j \in Order /\ j + 1 \in Order /\ j < k /\ i <= j
      /\ \A j \in Order : j \in 0..MAP_SIZE
      /\ \A j \in Order : pages[j] \in Nat /\ pages[j] > 0 /\ pages[j + 1] = 2 * pages[j]
  BY Pages
<1>2. /\ <<a, i>> \in P /\ \A j \in i..(k - 1) : <<a + pages[j], j>> \in P
      /\ \A x \in P : x = <<a, i>> \/ \E j \in i..(k - 1) : x = <<a + pages[j], j>>
  BY DEF Parts
<1>3. P \subseteq Blocks
  <2> SUFFICES ASSUME NEW x \in P PROVE x \in Blocks
    OBVIOUS
  <2>1. CASE x = <<a, i>>
    BY <2>1, <1>1 DEF Blocks
  <2>2. ASSUME NEW j \in i..(k - 1), x = <<a + pages[j], j>> PROVE x \in Blocks
    BY <2>2, <1>1 DEF Blocks
  <2> QED BY <1>2, <2>1, <2>2
\* An address that is aligned for order k is for every lower one.
<1>4. \A j \in 0..k : a % pages[j] = 0
  <2> DEFINE T == {d \in 0..k : a % pages[k - d] # 0}
  <2>1. ASSUME T # {} PROVE FALSE
    <3>1. T \subseteq Nat
      BY <1>1, Pages
    <3>2. PICK m \in T : \A n \in T : m <= n
      <4> HIDE DEF T
      <4> QED BY <2>1, <3>1, LeastNat
    <3>3. k \in Nat /\ m \in 0..k /\ m # 0
      BY <1>1, Pages
    <3>4. m - 1 \in 0..k /\ m - 1 \notin T /\ k - m \in Order /\ (k - m) + 1 = k - (m - 1)
      <4>1. m - 1 \in T => m <= m - 1
        BY <3>2
      <4>2. k \in 0..Top /\ Order = 0..Top /\ Top \in Nat
        BY <1>1, Pages
      <4> HIDE DEF T
      <4> QED BY <4>1, <4>2, <3>3
    <3>5. a % pages[(k - m) + 1] = 0
      BY <3>4
    <3> DEFINE p == pages[k - m]
    <3>6. p \in Nat /\ p > 0 /\ pages[(k - m) + 1] = 2 * p
      BY <1>1, <3>4
    <3>7. a % p # 0
      BY <3>2
    <3> HIDE DEF p
    <3>8. PICK q \in Nat : a = (2 * p) * q
      <4> DEFINE r == 2 * p
      <4>1. r \in Nat /\ r > 0 /\ a % r = 0
        BY <3>5, <3>6
      <4> HIDE DEF r
      <4>2. \E q \in Nat : a = r * q
        BY <4>1, Aligned
      <4> QED BY <4>2 DEF r
    <3>9. 2 * q \in Nat /\ (2 * p) * q = p * (2 * q)
      BY <3>6
    <3>10. (p * (2 * q)) % p = 0
      BY <3>6, <3>9, Multiple
    <3> QED BY <3>7, <3>8, <3>9, <3>10
  <2>2. ASSUME NEW j \in 0..k PROVE a % pages[j] = 0
    <3>1. k - j \in 0..k /\ k - (k - j) = j
      BY <1>1, Pages
    <3>2. k - j \notin T
      BY <2>1
    <3> QED BY <3>1, <3>2
  <2> QED BY <2>2
<1>5. \A x \in P : x[1] % pages[x[2]] = 0
  <2> SUFFICES ASSUME NEW x \in P PROVE x[1] % pages[x[2]] = 0
    OBVIOUS
  <2>1. CASE x = <<a, i>>
    BY <2>1, <1>1, <1>4
  <2>2. ASSUME NEW j \in i..(k - 1), x = <<a + pages[j], j>> PROVE x[1] % pages[x[2]] = 0
    <3> DEFINE p == pages[j]
    <3>1. p \in Nat /\ p > 0 /\ a % p = 0
      BY SMTT(30), <1>1, <1>4, Pages
    <3> HIDE DEF p
    <3>2. PICK q \in Nat : a = p * q
      BY <3>1, Aligned
    <3>3. q + 1 \in Nat /\ p * (q + 1) = a + p
      BY <3>1, <3>2
    <3>4. (p * (q + 1)) % p = 0
      BY <3>1, <3>3, Multiple
    <3> QED BY <2>2, <3>3, <3>4 DEF p
  <2> QED BY <1>2, <2>1, <2>2
<1>6. /\ \A p : In(p, <<a, i>>) <=> a <= p /\ p < a + pages[i]
      /\ \A p : In(p, <<a, k>>) <=> a <= p /\ p < a + pages[k]
  BY DEF In, End
<1>7. \A j \in i..(k - 1), p \in Nat :
          In(p, <<a + pages[j], j>>) <=> a + pages[j] <= p /\ p < a + pages[j + 1]
  <2> TAKE j \in i..(k - 1), p \in Nat
  <2>1. pages[j] \in Nat /\ pages[j + 1] = 2 * pages[j]
    BY <1>1
  <2> QED BY <2>1 DEF In, End
\* A lower part ends where a higher one, or a further lower one, begins.
<1>8. \A j \in i..k, l \in i..k : j <= l => pages[j] <= pages[l] /\ (j < l => pages[j + 1] <= pages[l])
  <2> TAKE j \in i..k, l \in i..k
  <2>1. j \in 0..MAP_SIZE /\ l \in 0..MAP_SIZE
    BY <1>1, Pages
  <2> QED BY <2>1, PagesMonotonic
<1> HIDE DEF P
<1>9. Apart(P)
  <2>1. ASSUME NEW j \in i..(k - 1), NEW p \in Nat, In(p, <<a + pages[j], j>>) PROVE ~In(p, <<a, i>>)
    <3>1. i \in i..k /\ j \in i..k /\ i <= j
      BY <1>1, Pages
    <3>2. pages[i] <= pages[j] /\ pages[i] \in Nat /\ pages[j] \in Nat
      BY <3>1, <1>1, <1>8
    <3> QED BY <2>1, <3>2, <1>6, <1>7
  <2>2. ASSUME NEW j \in i..(k - 1), NEW l \in i..(k - 1), j < l, NEW p \in Nat,
               In(p, <<a + pages[j], j>>)
        PROVE  ~In(p, <<a + pages[l], l>>)
    <3>1. j \in i..k /\ l \in i..k /\ j <= l
      BY <1>1, <2>2, Pages
    <3>2. pages[j + 1] <= pages[l] /\ pages[j + 1] \in Nat /\ pages[l] \in Nat
      BY <3>1, <1>1, <1>8, <2>2
    <3> QED BY <2>2, <3>2, <1>7
  <2>3. ASSUME NEW x \in P, NEW y \in P, x # y, NEW p \in Nat, In(p, x), In(p, y) PROVE FALSE
    <3>1. CASE x = <<a, i>>
      <4>1. PICK j \in i..(k - 1) : y = <<a + pages[j], j>>
        BY <1>2, <2>3, <3>1
      <4> QED BY <2>1, <2>3, <3>1, <4>1
    <3>2. CASE y = <<a, i>>
      <4>1. PICK j \in i..(k - 1) : x = <<a + pages[j], j>>
        BY <1>2, <2>3, <3>2
      <4> QED BY <2>1, <2>3, <3>2, <4>1
    <3>3. CASE x # <<a, i>> /\ y # <<a, i>>
      <4>1. PICK j \in i..(k - 1) : x = <<a + pages[j], j>>
        BY <1>2, <2>3, <3>3
      <4>2. PICK l \in i..(k - 1) : y = <<a + pages[l], l>>
        BY <1>2, <2>3, <3>3
      <4>3. j < l \/ l < j
        BY <2>3, <4>1, <4>2, <1>1, Pages
      <4> QED BY <2>2, <2>3, <4>1, <4>2, <4>3
    <3> QED BY <3>1, <3>2, <3>3
  <2> QED BY <2>3 DEF Apart
<1>10. ASSUME NEW p \in Nat PROVE (\E x \in P : In(p, x)) <=> In(p, <<a, k>>)
  <2>1. ASSUME NEW x \in P, In(p, x) PROVE In(p, <<a, k>>)
    <3>1. CASE x = <<a, i>>
      <4>1. pages[i] <= pages[k] /\ pages[i] \in Nat /\ pages[k] \in Nat
        BY <1>1, <1>8, Pages
      <4> QED BY <4>1, <3>1, <2>1, <1>6
    <3>2. ASSUME NEW j \in i..(k - 1), x = <<a + pages[j], j>> PROVE In(p, <<a, k>>)
      <4>0. j \in i..k /\ k \in i..k /\ j <= k /\ j < k
        BY <1>1, Pages
      <4>1. /\ pages[j + 1] <= pages[k] /\ pages[j + 1] \in Nat /\ pages[k] \in Nat
            /\ pages[j] \in Nat
        BY <4>0, <1>1, <1>8
      <4>2. a + pages[j] <= p /\ p < a + pages[j + 1]
        BY <3>2, <2>1, <1>7
      <4> QED BY <4>1, <4>2, <1>6
    <3> QED BY <1>2, <3>1, <3>2
  <2>2. ASSUME In(p, <<a, k>>) PROVE \E x \in P : In(p, x)
    <3>1. CASE p < a + pages[i]
      BY <3>1, <2>2, <1>2, <1>6
    <3>2. CASE a + pages[i] <= p
      <4> DEFINE d == p - a
      <4>1. pages[i] \in Nat /\ pages[k] \in Nat /\ a <= p /\ p < a + pages[k]
        BY <2>2, <1>1, <1>6
      <4>2. d \in Nat /\ pages[i] <= d /\ d < pages[k] /\ p = a + d
        BY <4>1, <3>2
      <4>3. i \in 0..MAP_SIZE /\ k \in 0..MAP_SIZE /\ i <= k
        BY <1>1
      <4> HIDE DEF d
      <4>4. PICK j \in i..(k - 1) : pages[j] <= d /\ d < pages[j + 1]
        BY <4>2, <4>3, PagesTile
      <4>5. pages[j] \in Nat /\ pages[j + 1] \in Nat
        BY <1>1
      <4>6. In(p, <<a + pages[j], j>>)
        BY <4>2, <4>4, <4>5, <1>7
      <4> QED BY <4>6, <1>2
    <3>3. pages[i] \in Nat
      BY <1>1
    <3> QED BY <3>1, <3>2, <3>3
  <2> QED BY <2>1, <2>2
<1>11. QED
  BY <1>3, <1>5, <1>9, <1>10 DEF P

\* The blocks that free_physical_page merges: the one that is given back and the
\* buddies it meets on its way to order k.
Halves(a, i, k) == {<<block(a, i), i>>} \cup {<<buddy(block(a, j), j), j>> : j \in i..(k - 1)}

LEMMA MergeTiles ==
    ASSUME NEW a \in Nat, NEW i \in Order, NEW k \in i..Top, NEW p \in Nat
    PROVE  (\E x \in Halves(a, i, k) : In(p, x)) <=> In(p, <<block(a, k), k>>)
<1> DEFINE Tiled(n) == (\E x \in Halves(a, i, n) : In(p, x)) <=> In(p, <<block(a, n), n>>)
           Bad == {n \in i..Top : ~Tiled(n)}
<1>1. Tiled(i)
  <2>1. Halves(a, i, i) = {<<block(a, i), i>>}
    BY Pages DEF Halves
  <2> QED BY <2>1
<1>2. ASSUME NEW n \in i..Top, n < Top, Tiled(n) PROVE Tiled(n + 1)
  <2> DEFINE y == <<buddy(block(a, n), n), n>>
  <2>1. n \in Order /\ n \in 0..MAP_SIZE /\ n + 1 \in 0..MAP_SIZE
    BY <1>2, Pages
  <2>2. Halves(a, i, n + 1) = Halves(a, i, n) \cup {y}
    <3>0. i \in Nat /\ n \in Nat /\ i <= n
      BY <1>2, Pages
    <3>1. i..((n + 1) - 1) = i..(n - 1) \cup {n}
      BY <3>0
    <3> QED BY <3>1 DEF Halves
  <2>3. /\ \E x \in Halves(a, i, n + 1) : In(p, x)
        <=> In(p, <<block(a, n), n>>) \/ In(p, y)
    <3> HIDE DEF y
    <3> QED BY <1>2, <2>2
  <2> DEFINE b == block(a, n)
             c == buddy(block(a, n), n)
             d == block(a, n + 1)
             q == pages[n]
  <2>4. b \in Nat /\ c \in Nat /\ q \in Nat /\ q > 0 /\ pages[n + 1] = 2 * q
    <3>1. b \in Nat /\ b % pages[n] = 0
      BY <2>1, BlockOf
    <3>2. c \in Nat
      <4> HIDE DEF b
      <4> QED BY <3>1, <2>1, Buddies DEF b
    <3> QED BY <3>1, <3>2, <2>1, Pages
  <2>5. (d = b /\ c = b + q) \/ (d = c /\ b = c + q)
    BY <2>1, NextBlock
  <2>6. /\ In(p, <<block(a, n), n>>) <=> b <= p /\ p < b + q
        /\ In(p, y) <=> c <= p /\ p < c + q
        /\ In(p, <<block(a, n + 1), n + 1>>) <=> d <= p /\ p < d + 2 * q
    BY <2>4 DEF In, End
  <2> HIDE DEF b, c, d, q, y
  <2>7. In(p, <<block(a, n), n>>) \/ In(p, y) <=> In(p, <<block(a, n + 1), n + 1>>)
    BY <2>4, <2>5, <2>6
  <2> QED BY <2>3, <2>7
<1>3. ASSUME Bad # {} PROVE FALSE
  <2>1. Bad \subseteq Nat
    BY Pages
  <2>2. PICK m \in Bad : \A n \in Bad : m <= n
    <3> HIDE DEF Bad
    <3> QED BY <1>3, <2>1, LeastNat
  <2>3. m \in i..Top /\ ~Tiled(m)
    BY <2>2
  <2>4. m # i
    BY <2>3, <1>1
  <2>5. m - 1 \in i..Top /\ m - 1 < Top /\ (m - 1) + 1 = m /\ ~(m <= m - 1)
    <3> HIDE DEF Tiled
    <3> QED BY <2>3, <2>4, Pages
  <2>6. m - 1 \notin Bad
    <3> HIDE DEF Bad
    <3> QED BY <2>2, <2>5
  <2>7. Tiled(m - 1)
    <3> HIDE DEF Tiled
    <3> QED BY <2>5, <2>6
  <2>8. Tiled((m - 1) + 1)
    <3> HIDE DEF Tiled
    <3> QED BY <2>5, <2>7, <1>2
  <2> HIDE DEF Tiled
  <2> QED BY <2>3, <2>5, <2>8
<1>4. QED
  <2>1. k \notin Bad
    <3> HIDE DEF Bad
    <3> QED BY <1>3
  <2> QED BY <2>1

-----------------------------------------------------------------------------
(* Orders *)

\* puiss2 finds the least order that fits.
LEMMA OrderFits ==
    ASSUME NEW n \in NbPages
    PROVE  order(n) \in Order /\ n <= pages[order(n)] /\ n \in Nat /\ n >= 1
<1> DEFINE T == {p \in Order : n <= pages[p]}
<1>1. n \in 1..(BlockPages - 1) /\ BlockPages \in Nat
  <2>1. Top \in 0..MAP_SIZE
    BY Pages
  <2> QED BY <2>1, Pages, BuddyAssumption
<1>2. n \in Nat /\ n >= 1 /\ n <= pages[Top]
  BY <1>1, Pages
<1>3. Top \in T /\ T \subseteq Nat
  BY <1>2, Pages
<1>4. PICK m \in T : \A q \in T : m <= q
  <2> HIDE DEF T
  <2> QED BY <1>3, LeastNat
<1>5. \A q \in 0..(m - 1) : pages[q] < n
  <2> TAKE q \in 0..(m - 1)
  <2>1. q \in Order /\ pages[q] \in Nat /\ q < m
    BY Pages
  <2>2. q \notin T
    BY <2>1, <1>4
  <2> QED BY <2>1, <2>2, <1>2
<1>6. \E p \in Order : n <= pages[p] /\ \A q \in 0..(p - 1) : pages[q] < n
  BY <1>5
<1>7. QED
  BY <1>2, <1>6 DEF order

\* The least number of a set of naturals, as FiniteSetsExt defines it.
LEMMA MinNat ==
    ASSUME NEW T, T \subseteq Nat, T # {}
    PROVE  Min(T) \in T /\ \A x \in T : Min(T) <= x
<1>1. \E x \in T : \A y \in T : x <= y
  BY LeastNat
<1>2. QED
  BY <1>1 DEF Min

\* Where the search for a block ends.
LEMMA FitsBest ==
    ASSUME NEW m \in [Order -> Seq(Memory)], NEW i \in Order, fits(m, i) # {}
    PROVE  /\ Min(fits(m, i)) \in i..Top /\ m[Min(fits(m, i))] # <<>>
           /\ \A j \in Order : i <= j /\ j < Min(fits(m, i)) => m[j] = <<>>
<1> DEFINE s == Min(fits(m, i))
<1>1. fits(m, i) \subseteq Nat
  BY Pages DEF fits
<1>2. s \in fits(m, i) /\ \A x \in fits(m, i) : s <= x
  BY <1>1, MinNat
<1> HIDE DEF s
<1>3. s \in Order /\ i <= s /\ m[s] # <<>>
  BY <1>2 DEF fits
<1>4. ASSUME NEW j \in Order, i <= j, j < s PROVE m[j] = <<>>
  <2>1. j \notin fits(m, i)
    BY <1>2, <1>3, <1>4, Pages
  <2> QED BY <2>1, <1>4 DEF fits
<1>5. s \in i..Top
  BY <1>3, Pages
<1>6. QED
  BY <1>3, <1>4, <1>5 DEF s

\* Where merging ends.
LEMMA MergedOrder ==
    ASSUME NEW a, NEW i \in Order
    PROVE  LET k == merged_order(a, i) IN
           /\ k \in i..MAP_SIZE
           /\ k \in Order => buddy(block(a, k), k) \notin ToSet(map[k])
           /\ \A j \in i..(k - 1) : j \in Order /\ buddy(block(a, j), j) \in ToSet(map[j])
<1> DEFINE T == {j \in i..Top : buddy(block(a, j), j) \notin ToSet(map[j])} \cup {MAP_SIZE}
           k == merged_order(a, i)
<1>1. T \subseteq Nat /\ T # {}
  BY Pages
<1>2. k = Min(T)
  BY DEF merged_order
<1>3. k \in T /\ \A x \in T : k <= x
  <2> HIDE DEF T
  <2> QED BY <1>1, <1>2, MinNat
<1>4. k \in i..MAP_SIZE
  BY <1>3, Pages
<1>5. k \in Order => buddy(block(a, k), k) \notin ToSet(map[k])
  <2>1. MAP_SIZE \notin Order
    BY Pages
  <2> QED BY <1>3, <2>1
<1>6. ASSUME NEW j \in i..(k - 1) PROVE j \in Order /\ buddy(block(a, j), j) \in ToSet(map[j])
  <2>1. j \in i..Top /\ ~(k <= j) /\ j \in Order
    <3> HIDE DEF k
    <3> QED BY <1>4, Pages
  <2>2. j \notin T
    <3> HIDE DEF k, T
    <3> QED BY <2>1, <1>3
  <2> QED BY <2>1, <2>2
<1>7. QED
  <2> HIDE DEF T
  <2> QED BY <1>4, <1>5, <1>6

-----------------------------------------------------------------------------
(* The free lists *)

LEMMA ListShort ==
    ASSUME NEW S, NEW e \in S
    PROVE  /\ <<e>> \in Seq(S) /\ ToSet(<<e>>) = {e} /\ NoDup(<<e>>)
           /\ <<>> \in Seq(S) /\ ToSet(<<>>) = {} /\ NoDup(<<>>)
<1>1. <<e>> \in Seq(S) /\ DOMAIN <<e>> = {1} /\ <<e>>[1] = e /\ Len(<<e>>) = 1
  OBVIOUS
<1>2. <<>> \in Seq(S) /\ DOMAIN <<>> = {} /\ Len(<<>>) = 0
  OBVIOUS
<1>3. ToSet(<<e>>) = {e} /\ ToSet(<<>>) = {}
  BY <1>1, <1>2 DEF ToSet
<1>4. NoDup(<<e>>) /\ NoDup(<<>>)
  BY <1>1, <1>2 DEF NoDup
<1>5. QED
  BY <1>1, <1>2, <1>3, <1>4

LEMMA ListTail ==
    ASSUME NEW S, NEW q \in Seq(S), q # <<>>, NoDup(q)
    PROVE  /\ Head(q) \in ToSet(q) /\ Head(q) \in S
           /\ Tail(q) \in Seq(S) /\ NoDup(Tail(q)) /\ ToSet(Tail(q)) = ToSet(q) \ {Head(q)}
<1> DEFINE n == Len(q)
           r == Tail(q)
<1>1. n \in Nat /\ n >= 1 /\ DOMAIN q = 1..n /\ Head(q) = q[1]
  BY EmptySeq, LenProperties, HeadTailProperties
<1>2. r \in Seq(S) /\ Len(r) = n - 1 /\ \A j \in 1..(n - 1) : r[j] = q[j + 1]
  BY HeadTailProperties
<1>3. DOMAIN r = 1..(n - 1)
  BY <1>2, LenProperties
<1>a. \A j \in 1..n : q[j] \in S
  BY ElementOfSeq
<1> HIDE DEF n, r
<1>4. \A j \in 1..n, k \in 1..n : q[j] = q[k] => j = k
  BY <1>1 DEF NoDup, n
<1>5. ToSet(r) = ToSet(q) \ {q[1]}
  <2>1. ASSUME NEW j \in 1..(n - 1) PROVE r[j] \in ToSet(q) \ {q[1]}
    <3>1. j + 1 \in 1..n /\ 1 \in 1..n /\ j + 1 # 1 /\ r[j] = q[j + 1]
      BY <1>1, <1>2
    <3>2. q[j + 1] # q[1]
      BY <3>1, <1>4
    <3> QED BY <3>1, <3>2, <1>1 DEF ToSet
  <2>2. ASSUME NEW j \in 1..n, q[j] # q[1] PROVE q[j] \in ToSet(r)
    <3>1. j - 1 \in 1..(n - 1) /\ (j - 1) + 1 = j
      BY <1>1, <2>2
    <3>2. r[j - 1] = q[j]
      BY <3>1, <1>2
    <3> QED BY <3>1, <3>2, <1>3 DEF ToSet
  <2> QED BY <2>1, <2>2, <1>1, <1>3 DEF ToSet
<1>6. NoDup(r)
  <2>1. ASSUME NEW j \in 1..(n - 1), NEW k \in 1..(n - 1), r[j] = r[k] PROVE j = k
    <3>1. j + 1 \in 1..n /\ k + 1 \in 1..n /\ q[j + 1] = q[k + 1]
      BY <1>1, <1>2, <2>1
    <3> QED BY <3>1, <1>4
  <2> QED BY <2>1, <1>2 DEF NoDup
<1>7. q[1] \in ToSet(q) /\ q[1] \in S
  <2>1. 1 \in 1..n
    BY <1>1
  <2> QED BY <2>1, <1>1, <1>a DEF ToSet
<1>8. QED
  BY <1>1, <1>2, <1>5, <1>6, <1>7 DEF r

LEMMA ListPush ==
    ASSUME NEW S, NEW q \in Seq(S), NEW e \in S, NoDup(q), e \notin ToSet(q)
    PROVE  /\ <<e>> \o q \in Seq(S) /\ NoDup(<<e>> \o q)
           /\ ToSet(<<e>> \o q) = ToSet(q) \cup {e}
<1> DEFINE n == Len(q)
           r == <<e>> \o q
<1>1. n \in Nat /\ DOMAIN q = 1..n
  BY LenProperties
<1>2. <<e>> \in Seq(S) /\ Len(<<e>>) = 1 /\ <<e>>[1] = e
  OBVIOUS
<1>3. /\ r \in Seq(S) /\ Len(r) = 1 + n
      /\ \A j \in 1..(1 + n) : r[j] = IF j <= 1 THEN <<e>>[j] ELSE q[j - 1]
  BY <1>2, ConcatProperties
<1>4. DOMAIN r = 1..(1 + n)
  BY <1>3, LenProperties
<1> HIDE DEF n, r
<1>5. r[1] = e /\ \A j \in 1..n : j + 1 \in 1..(1 + n) /\ r[j + 1] = q[j]
  <2>1. r[1] = e
    BY <1>1, <1>2, <1>3
  <2>2. ASSUME NEW j \in 1..n PROVE j + 1 \in 1..(1 + n) /\ r[j + 1] = q[j]
    BY <1>1, <1>3
  <2> QED BY <2>1, <2>2
<1>6. \A j \in 1..n : q[j] # e /\ q[j] \in ToSet(q)
  BY <1>1 DEF ToSet
<1>7. \A j \in 1..(1 + n) : j = 1 \/ (j - 1 \in 1..n /\ (j - 1) + 1 = j)
  BY <1>1
<1>8. ToSet(r) = ToSet(q) \cup {e}
  <2>1. ASSUME NEW j \in 1..(1 + n) PROVE r[j] \in ToSet(q) \cup {e}
    <3>1. CASE j = 1
      BY <3>1, <1>5
    <3>2. CASE j - 1 \in 1..n /\ (j - 1) + 1 = j
      <4>1. r[j] = q[j - 1]
        BY <3>2, <1>5
      <4> QED BY <4>1, <3>2, <1>6
    <3> QED BY <3>1, <3>2, <1>7
  <2>2. ASSUME NEW j \in 1..n PROVE q[j] \in ToSet(r)
    BY <1>4, <1>5 DEF ToSet
  <2>3. e \in ToSet(r)
    <3>1. 1 \in 1..(1 + n)
      BY <1>1
    <3> QED BY <3>1, <1>4, <1>5 DEF ToSet
  <2> QED BY <2>1, <2>2, <2>3, <1>1, <1>4 DEF ToSet
<1>9. NoDup(r)
  <2>1. ASSUME NEW j \in 1..(1 + n), NEW k \in 1..(1 + n), r[j] = r[k] PROVE j = k
    <3>1. CASE j = 1 /\ k = 1
      BY <3>1
    <3>2. CASE j = 1 /\ k - 1 \in 1..n /\ (k - 1) + 1 = k
      <4>1. r[k] = q[k - 1] /\ r[j] = e
        BY <3>2, <1>5
      <4> QED BY <4>1, <3>2, <2>1, <1>6
    <3>3. CASE k = 1 /\ j - 1 \in 1..n /\ (j - 1) + 1 = j
      <4>1. r[j] = q[j - 1] /\ r[k] = e
        BY <3>3, <1>5
      <4> QED BY <4>1, <3>3, <2>1, <1>6
    <3>4. CASE j - 1 \in 1..n /\ (j - 1) + 1 = j /\ k - 1 \in 1..n /\ (k - 1) + 1 = k
      <4>1. r[j] = q[j - 1] /\ r[k] = q[k - 1]
        BY <3>4, <1>5
      <4>2. j - 1 = k - 1
        BY <4>1, <3>4, <2>1 DEF NoDup, n
      <4> QED BY <4>2, <3>4
    <3> QED BY <3>1, <3>2, <3>3, <3>4, <1>7
  <2> QED BY <2>1, <1>3 DEF NoDup
<1>10. QED
  BY <1>3, <1>8, <1>9 DEF r

LEMMA ListUnlink ==
    ASSUME NEW S, NEW q \in Seq(S), NEW e \in ToSet(q), NoDup(q)
    PROVE  /\ unlink(q, e) \in Seq(S) /\ NoDup(unlink(q, e))
           /\ ToSet(unlink(q, e)) = ToSet(q) \ {e}
<1>1. unlink(q, e) = queue_del(q, e)
  BY DEF unlink, queue_del
<1>2. ASSUME NEW prio
      PROVE  /\ queue_del(q, e) \in Seq(S) /\ NoDup(queue_del(q, e))
             /\ ToSet(queue_del(q, e)) = ToSet(q) \ {e}
  BY QueueDel
<1>3. QED
  BY <1>1, <1>2

-----------------------------------------------------------------------------
(* The inductive invariant *)

\* FreeBlocks and HeldBlocks, for any lists and any callers.
FreeOf(m) == UNION {{<<a, i>> : a \in ToSet(m[i])} : i \in Order}
HeldOf(u) == {<<b[1], order(b[2])>> : b \in u}
AllOf(m, u) == FreeOf(m) \cup HeldOf(u)

EndOfMemory == THIRD_ADDRESS + BlockPages

\* Every list holds a block once; callers with equal blocks are the same; all blocks,
\* those of callers too, are aligned, in managed memory, and have no common page.
Sound(m, u) ==
    /\ m \in [Order -> Seq(Memory)] /\ \A i \in Order : NoDup(m[i])
    /\ u \subseteq Memory \X NbPages
    /\ \A b, c \in u : b[1] = c[1] /\ order(b[2]) = order(c[2]) => b = c
    /\ FreeOf(m) \cap HeldOf(u) = {}
    /\ Apart(AllOf(m, u))
    /\ \A x \in AllOf(m, u) :
          x[1] % pages[x[2]] = 0 /\ FIRST_ADDRESS <= x[1] /\ End(x) <= EndOfMemory

NoBuddies(m) == \A i \in Order : \A a \in ToSet(m[i]) : buddy(a, i) \notin ToSet(m[i])

\* Page p is in a free block or in one that is held.
Covered(p, m, u) == \E x \in AllOf(m, u) : In(p, x)

Counted(m, nb, u) ==
    /\ nb \in 0..3 \cup {SECOND_ADDRESS, THIRD_ADDRESS}
    /\ nb <= 3 => \A p \in Nat : Covered(p, m, u) <=>
                     FIRST_ADDRESS <= p /\ p < FIRST_ADDRESS + nb * BlockPages

BuddyInv == Sound(map, used) /\ NoBuddies(map) /\ Counted(map, nb_alloc, used)

LEMMA Addresses ==
    /\ BlockPages \in Nat /\ BlockPages >= 2
    /\ FIRST_ADDRESS = BlockPages /\ SECOND_ADDRESS = 2 * BlockPages
    /\ THIRD_ADDRESS = 3 * BlockPages /\ EndOfMemory = 4 * BlockPages
    /\ FIRST_ADDRESS \in Nat /\ SECOND_ADDRESS \in Nat /\ THIRD_ADDRESS \in Nat
    /\ EndOfMemory \in Nat /\ SECOND_ADDRESS > 3
    /\ Memory = FIRST_ADDRESS..(EndOfMemory - 1) /\ Memory \subseteq Nat
<1>1. Top \in 0..MAP_SIZE /\ 0 \in 0..MAP_SIZE /\ 1 \in 0..MAP_SIZE /\ 1 <= Top /\ 0 \in Order
  BY Pages
<1>2. pages[1] <= pages[Top]
  BY <1>1, PagesMonotonic
<1>3. pages[0 + 1] = 2 * pages[0] /\ pages[0] = 1
  BY <1>1, Pages
<1>4. BlockPages \in Nat /\ BlockPages >= 2
  BY <1>1, <1>2, <1>3, Pages
<1>5. QED
  BY <1>4 DEF FIRST_ADDRESS, SECOND_ADDRESS, THIRD_ADDRESS, EndOfMemory, Memory

LEMMA Members ==
    ASSUME NEW m, NEW u
    PROVE  /\ \A a, i : <<a, i>> \in FreeOf(m) <=> i \in Order /\ a \in ToSet(m[i])
           /\ \A x \in FreeOf(m) : \E i \in Order : \E a \in ToSet(m[i]) : x = <<a, i>>
           /\ \A b \in u : <<b[1], order(b[2])>> \in HeldOf(u)
           /\ \A x \in HeldOf(u) : \E b \in u : x = <<b[1], order(b[2])>>
  BY DEF FreeOf, HeldOf

LEMMA AllBlocks ==
    ASSUME NEW m, NEW u, m \in [Order -> Seq(Memory)], u \subseteq Memory \X NbPages
    PROVE  AllOf(m, u) \subseteq Blocks /\ \A i \in Order : ToSet(m[i]) \subseteq Memory
<1>1. \A i \in Order : ToSet(m[i]) \subseteq Memory
  <2> SUFFICES ASSUME NEW i \in Order PROVE ToSet(m[i]) \subseteq Memory
    OBVIOUS
  <2>1. m[i] \in Seq(Memory)
    OBVIOUS
  <2>2. DOMAIN m[i] = 1..Len(m[i]) /\ \A j \in 1..Len(m[i]) : m[i][j] \in Memory
    BY <2>1, LenProperties, ElementOfSeq
  <2> QED BY <2>2 DEF ToSet
<1>2. FreeOf(m) \subseteq Blocks
  <2> SUFFICES ASSUME NEW x \in FreeOf(m) PROVE x \in Blocks
    OBVIOUS
  <2>1. PICK i \in Order : \E a \in ToSet(m[i]) : x = <<a, i>>
    BY Members
  <2> QED BY <2>1, <1>1, Addresses DEF Blocks
<1>3. HeldOf(u) \subseteq Blocks
  <2> SUFFICES ASSUME NEW x \in HeldOf(u) PROVE x \in Blocks
    OBVIOUS
  <2>1. PICK b \in u : x = <<b[1], order(b[2])>>
    BY Members
  <2>2. b[1] \in Nat /\ b[2] \in NbPages
    BY Addresses
  <2> QED BY <2>1, <2>2, OrderFits DEF Blocks
<1>4. QED
  BY <1>1, <1>2, <1>3 DEF AllOf

\* Blocks that have the pages of others are where those are.
LEMMA SamePlace ==
    ASSUME NEW R, NEW y \in Blocks,
           \A x \in R : x \in Blocks /\ FIRST_ADDRESS <= x[1] /\ End(x) <= EndOfMemory,
           \A p \in Nat : In(p, y) => \E x \in R : In(p, x)
    PROVE  FIRST_ADDRESS <= y[1] /\ End(y) <= EndOfMemory
<1>1. y[1] \in Nat /\ End(y) \in Nat /\ End(y) - 1 \in Nat /\ In(y[1], y) /\ In(End(y) - 1, y)
  BY BlockType
<1>2. PICK x \in R : In(y[1], x)
  BY <1>1
<1>3. PICK z \in R : In(End(y) - 1, z)
  BY <1>1
<1>4. x[1] \in Nat /\ End(z) \in Nat
  BY BlockType
<1>5. x[1] <= y[1] /\ End(y) - 1 < End(z)
  BY <1>2, <1>3 DEF In
<1>6. QED
  BY <1>1, <1>4, <1>5, Addresses

\* A block at a is split and n pages of it are handed out.
Taken(m, u, n, a, m2, u2) ==
    /\ fits(m, order(n)) # {}
    /\ a = Head(m[Min(fits(m, order(n)))])
    /\ m2 = split(m, order(n))
    /\ u2 = u \cup {<<a, n>>}

\* alloc_physical_page, when there is a block.
LEMMA TakeSound ==
    ASSUME NEW m, NEW u, Sound(m, u), NoBuddies(m), NEW n \in NbPages,
           NEW a, NEW m2, NEW u2, Taken(m, u, n, a, m2, u2)
    PROVE  /\ Sound(m2, u2) /\ NoBuddies(m2)
           /\ <<a, order(n)>> \notin HeldOf(u)
           /\ \A p \in Nat : Covered(p, m2, u2) <=> Covered(p, m, u)
<1> DEFINE i == order(n)
           k == Min(fits(m, i))
           H == {<<a + pages[j], j>> : j \in i..(k - 1)}
           P == Parts(a, i, k)
           B == AllOf(m, u)
           R == {<<a, k>>}
<1>0. /\ fits(m, order(n)) # {} /\ a = Head(m[Min(fits(m, order(n)))])
      /\ m2 = split(m, order(n)) /\ u2 = u \cup {<<a, n>>}
  BY DEF Taken
<1>1. i \in Order
  BY OrderFits
<1>2. m \in [Order -> Seq(Memory)] /\ u \subseteq Memory \X NbPages /\ \A j \in Order : NoDup(m[j])
  BY DEF Sound
<1>3. k \in i..Top /\ m[k] # <<>> /\ \A j \in Order : i <= j /\ j < k => m[j] = <<>>
  BY <1>0, <1>1, <1>2, FitsBest
<1>4. k \in Order /\ i \in 0..k /\ i \in i..k
  BY <1>1, <1>3, Pages
<1>5. a = Head(m[k])
  BY <1>0
<1> HIDE DEF k
<1>6. /\ a \in ToSet(m[k]) /\ a \in Memory /\ a \in Nat
      /\ Tail(m[k]) \in Seq(Memory) /\ NoDup(Tail(m[k])) /\ ToSet(Tail(m[k])) = ToSet(m[k]) \ {a}
  <2>1. m[k] \in Seq(Memory) /\ NoDup(m[k])
    BY <1>2, <1>4
  <2>2. a \in Memory => a \in Nat
    BY Addresses
  <2> DEFINE q == m[k]
  <2>3. q \in Seq(Memory) /\ NoDup(q) /\ q # <<>> /\ a = Head(q)
    BY <2>1, <1>3, <1>5
  <2> HIDE DEF q
  <2>4. /\ a \in ToSet(q) /\ a \in Memory
        /\ Tail(q) \in Seq(Memory) /\ NoDup(Tail(q)) /\ ToSet(Tail(q)) = ToSet(q) \ {a}
    BY <2>3, ListTail
  <2> QED BY <2>2, <2>4 DEF q
<1>7. B \subseteq Blocks /\ \A j \in Order : ToSet(m[j]) \subseteq Memory
  BY <1>2, AllBlocks
<1>8. <<a, k>> \in FreeOf(m) /\ R \subseteq B
  <2>1. <<a, k>> \in FreeOf(m)
    BY <1>4, <1>6, Members
  <2> QED BY <2>1 DEF AllOf
<1>9. a % pages[k] = 0 /\ FIRST_ADDRESS <= a /\ End(<<a, k>>) <= EndOfMemory
  BY <1>8 DEF Sound
<1>10. /\ P \subseteq Blocks /\ Apart(P) /\ \A x \in P : x[1] % pages[x[2]] = 0
       /\ \A p \in Nat : (\E x \in P : In(p, x)) <=> In(p, <<a, k>>)
  <2> HIDE DEF i
  <2> QED BY <1>4, <1>6, <1>9, SplitTiles
<1>11. SamePages(P, R)
  BY <1>10 DEF SamePages
<1>12. /\ Apart((B \ R) \cup P) /\ (B \ R) \cap P = {}
       /\ SamePages((B \ R) \cup P, B)
  <2>1. Apart(B)
    BY DEF Sound
  <2> HIDE DEF B, R, P
  <2> QED BY <2>1, <1>7, <1>8, <1>10, <1>11, Exchange
<1>13. P = {<<a, i>>} \cup H
  BY DEF Parts
\* the lists
<1>14. \A j \in Order : m2[j] = IF j = k THEN Tail(m[k])
                                ELSE IF i <= j /\ j < k THEN <<a + pages[j]>> ELSE m[j]
  BY <1>0 DEF split, k
<1>15. \A j \in Order : i <= j /\ j < k => a + pages[j] \in Memory /\ pages[j] > 0 /\ pages[j] \in Nat
  <2> SUFFICES ASSUME NEW j \in Order, i <= j, j < k PROVE a + pages[j] \in Memory /\ pages[j] > 0 /\ pages[j] \in Nat
    OBVIOUS
  <2>1. j \in 0..MAP_SIZE /\ k \in 0..MAP_SIZE /\ j <= k
    BY <1>4, Pages
  <2>2. /\ pages[j] \in Nat /\ pages[j] > 0 /\ pages[k] \in Nat /\ pages[j + 1] = 2 * pages[j]
        /\ pages[j + 1] <= pages[k]
    BY <2>1, Pages, PagesMonotonic
  <2>3. a + pages[k] <= EndOfMemory
    BY <1>9 DEF End
  <2>4. a \in Nat /\ FIRST_ADDRESS <= a /\ FIRST_ADDRESS \in Nat /\ EndOfMemory \in Nat
    BY <1>6, <1>9, Addresses
  <2>5. a + pages[j] \in FIRST_ADDRESS..(EndOfMemory - 1)
    BY <2>2, <2>3, <2>4
  <2> QED BY <2>2, <2>5, Addresses
<1>16. \A j \in Order : /\ m2[j] \in Seq(Memory) /\ NoDup(m2[j])
                        /\ ToSet(m2[j]) = IF j = k THEN ToSet(m[k]) \ {a}
                                          ELSE IF i <= j /\ j < k THEN {a + pages[j]} ELSE ToSet(m[j])
  <2> TAKE j \in Order
  <2>1. CASE j = k
    BY <2>1, <1>6, <1>14
  <2>2. CASE j # k /\ i <= j /\ j < k
    BY <2>2, <1>14, <1>15, ListShort
  <2>3. CASE j # k /\ ~(i <= j /\ j < k)
    BY <2>3, <1>2, <1>14
  <2> QED BY <2>1, <2>2, <2>3
<1>17. m2 \in [Order -> Seq(Memory)]
  <2>1. m2 = [j \in Order |-> m2[j]]
    BY <1>0 DEF split
  <2> QED BY <2>1, <1>16
<1>18. u2 \subseteq Memory \X NbPages
  BY <1>0, <1>2, <1>6
<1>19. FreeOf(m2) = (FreeOf(m) \ R) \cup H
  <2>1. ASSUME NEW b, NEW j \in Order
        PROVE  <<b, j>> \in FreeOf(m2) <=> <<b, j>> \in (FreeOf(m) \ R) \cup H
    <3>1. <<b, j>> \in FreeOf(m2) <=> b \in ToSet(m2[j])
      BY Members
    <3>2. <<b, j>> \in FreeOf(m) <=> b \in ToSet(m[j])
      BY Members
    <3>3. <<b, j>> \in R <=> b = a /\ j = k
      OBVIOUS
    <3>4. <<b, j>> \in H <=> b = a + pages[j] /\ i <= j /\ j < k
      <4>1. j \in i..(k - 1) <=> i <= j /\ j < k
        BY <1>1, <1>4, Pages
      <4> HIDE DEF i
      <4> QED BY <4>1
    <3>5. i <= j /\ j < k => ToSet(m[j]) = {}
      BY <1>3, ListShort, <1>6
    <3>6. ~(k < k)
      BY <1>4, Pages
    <3> HIDE DEF H, R, i
    <3>7. CASE j = k
      BY <3>1, <3>2, <3>3, <3>4, <3>6, <3>7, <1>16
    <3>8. CASE j # k /\ i <= j /\ j < k
      BY <3>1, <3>2, <3>3, <3>4, <3>5, <3>8, <1>16
    <3>9. CASE j # k /\ ~(i <= j /\ j < k)
      BY <3>1, <3>2, <3>3, <3>4, <3>9, <1>16
    <3> QED BY <3>7, <3>8, <3>9
  <2>2. \A x \in FreeOf(m2) : \E b : \E j \in Order : x = <<b, j>>
    <3> SUFFICES ASSUME NEW x \in FreeOf(m2) PROVE \E b : \E j \in Order : x = <<b, j>>
      OBVIOUS
    <3>1. PICK j \in Order : \E b \in ToSet(m2[j]) : x = <<b, j>>
      BY DEF FreeOf
    <3> QED BY <3>1
  <2>3. \A x \in (FreeOf(m) \ R) \cup H : \E b : \E j \in Order : x = <<b, j>>
    <3>1. \A x \in FreeOf(m) : \E b : \E j \in Order : x = <<b, j>>
      <4> SUFFICES ASSUME NEW x \in FreeOf(m) PROVE \E b : \E j \in Order : x = <<b, j>>
        OBVIOUS
      <4>1. PICK j \in Order : \E b \in ToSet(m[j]) : x = <<b, j>>
        BY DEF FreeOf
      <4> QED BY <4>1
    <3>2. \A j \in i..(k - 1) : j \in Order
      BY <1>1, <1>4, Pages
    <3>3. \A x \in H : \E b : \E j \in Order : x = <<b, j>>
      BY <3>2
    <3> QED BY <3>1, <3>3
  <2> HIDE DEF H, R
  <2> QED BY <2>1, <2>2, <2>3
<1>20. HeldOf(u2) = HeldOf(u) \cup {<<a, i>>}
  <2>1. <<a, n>>[1] = a /\ order(<<a, n>>[2]) = i
    OBVIOUS
  <2>2. \A b \in u2 : b \in u \/ b = <<a, n>>
    BY <1>0
  <2>3. u \subseteq u2 /\ <<a, n>> \in u2
    BY <1>0
  <2> DEFINE held(b) == <<b[1], order(b[2])>>
  <2>4. HeldOf(u2) = {held(b) : b \in u2} /\ HeldOf(u) = {held(b) : b \in u} /\ held(<<a, n>>) = <<a, i>>
    BY <2>1 DEF HeldOf
  <2> HIDE DEF held, i
  <2> QED BY <2>2, <2>3, <2>4
<1>21. AllOf(m2, u2) = (B \ R) \cup P
  <2>1. <<a, k>> \notin HeldOf(u)
    BY <1>8 DEF Sound
  <2> HIDE DEF P, H
  <2> QED BY <2>1, <1>13, <1>19, <1>20 DEF AllOf
<1>22. <<a, i>> \notin B \ R
  BY <1>12, <1>13
<1>23. <<a, i>> \notin HeldOf(u)
  <2>1. <<a, k>> \notin HeldOf(u)
    BY <1>8 DEF Sound
  <2> QED BY <2>1, <1>22 DEF AllOf
\* the conjuncts of Sound
<1>24. \A b, c \in u2 : b[1] = c[1] /\ order(b[2]) = order(c[2]) => b = c
  <2>1. \A b, c \in u : b[1] = c[1] /\ order(b[2]) = order(c[2]) => b = c
    BY DEF Sound
  <2>2. \A b \in u : ~(b[1] = a /\ order(b[2]) = i)
    BY <1>23, Members
  <2>3. \A b \in u2 : b \in u \/ b = <<a, n>>
    BY <1>0
  <2>4. <<a, n>>[1] = a /\ order(<<a, n>>[2]) = i
    OBVIOUS
  <2> HIDE DEF i
  <2> QED BY <2>1, <2>2, <2>3, <2>4
<1>25. FreeOf(m2) \cap HeldOf(u2) = {}
  <2>1. FreeOf(m) \cap HeldOf(u) = {}
    BY DEF Sound
  <2>2. <<a, i>> \notin H
    <3>1. \A j \in i..(k - 1) : j \in Order /\ pages[j] \in Nat /\ pages[j] > 0
      BY <1>1, <1>4, Pages
    <3>2. \A j \in i..(k - 1) : a + pages[j] # a
      BY <3>1, <1>6
    <3> QED BY <3>2
  <2>3. H \cap HeldOf(u) = {}
    <3>1. H \cap (B \ R) = {}
      BY <1>12, <1>13
    <3>2. HeldOf(u) \subseteq B \ R
      BY <1>8 DEF AllOf, Sound
    <3> QED BY <3>1, <3>2
  <2> HIDE DEF H, B
  <2>4. <<a, i>> \notin FreeOf(m) \ R
    <3>1. FreeOf(m) \subseteq B
      BY DEF AllOf, B
    <3> QED BY <1>22, <3>1
  <2> HIDE DEF R
  <2> QED BY <2>1, <2>2, <2>3, <2>4, <1>19, <1>20
<1>26. \A x \in (B \ R) \cup P : x[1] % pages[x[2]] = 0 /\ FIRST_ADDRESS <= x[1] /\ End(x) <= EndOfMemory
  <2>1. \A x \in B : x[1] % pages[x[2]] = 0 /\ FIRST_ADDRESS <= x[1] /\ End(x) <= EndOfMemory
    BY DEF Sound
  <2>2. ASSUME NEW y \in P PROVE FIRST_ADDRESS <= y[1] /\ End(y) <= EndOfMemory
    <3>1. y \in Blocks
      BY <1>10
    <3>2. \A x \in R : x \in Blocks /\ FIRST_ADDRESS <= x[1] /\ End(x) <= EndOfMemory
      BY <1>7, <1>8, <2>1
    <3>3. \A p \in Nat : In(p, y) => \E x \in R : In(p, x)
      BY <1>11 DEF SamePages
    <3> HIDE DEF R, P
    <3> QED BY <3>1, <3>2, <3>3, SamePlace
  <2> HIDE DEF B, P
  <2> QED BY <2>1, <2>2, <1>10
<1>27. Sound(m2, u2)
  <2> HIDE DEF B, R, P, H, i
  <2> QED BY <1>12, <1>16, <1>17, <1>18, <1>21, <1>24, <1>25, <1>26 DEF Sound
<1>28. NoBuddies(m2)
  <2> SUFFICES ASSUME NEW j \in Order, NEW b \in ToSet(m2[j]) PROVE buddy(b, j) \notin ToSet(m2[j])
    BY DEF NoBuddies
  <2>1. j = k \/ ~(i <= j /\ j < k) => b \in ToSet(m[j]) /\ ToSet(m2[j]) \subseteq ToSet(m[j])
    BY <1>16
  <2>2. CASE j = k \/ ~(i <= j /\ j < k)
    BY <2>1, <2>2 DEF NoBuddies
  <2>3. CASE j # k /\ i <= j /\ j < k
    <3>1. b = a + pages[j] /\ ToSet(m2[j]) = {b}
      BY <2>3, <1>16
    <3>2. b \in Nat
      BY <3>1, <2>3, <1>15, Addresses
    <3>3. <<b, j>> \in FreeOf(m2)
      BY Members
    <3>4. b % pages[j] = 0
      BY <3>3, <1>27 DEF Sound, AllOf
    <3>5. buddy(b, j) # b
      BY <3>2, <3>4, Buddies
    <3> QED BY <3>1, <3>5
  <2> QED BY <2>2, <2>3
<1>29. \A p \in Nat : Covered(p, m2, u2) <=> Covered(p, m, u)
  <2> HIDE DEF P, R
  <2> QED BY <1>12, <1>21 DEF Covered, SamePages
<1>30. QED
  BY <1>23, <1>27, <1>28, <1>29

\* The next initial block is put on the top list.
LEMMA FreshSound ==
    ASSUME BuddyInv, map[Top] = <<>>, nb_alloc < 3
    PROVE  LET m == alloc_block.map IN
           Sound(m, used) /\ NoBuddies(m) /\ Counted(m, nb_alloc + 1, used) /\ m[Top] # <<>>
<1> DEFINE m == alloc_block.map
           F == <<FIRST_ADDRESS, SECOND_ADDRESS, THIRD_ADDRESS>>[nb_alloc + 1]
           B == AllOf(map, used)
           y == <<F, Top>>
<1>1. Top \in Order /\ Top \in 0..MAP_SIZE /\ pages[Top] = BlockPages
  BY Pages
<1>2. /\ map \in [Order -> Seq(Memory)] /\ \A i \in Order : NoDup(map[i])
      /\ used \subseteq Memory \X NbPages
      /\ FreeOf(map) \cap HeldOf(used) = {}
      /\ \A b, c \in used : b[1] = c[1] /\ order(b[2]) = order(c[2]) => b = c
      /\ Apart(B)
      /\ \A x \in B : x[1] % pages[x[2]] = 0 /\ FIRST_ADDRESS <= x[1] /\ End(x) <= EndOfMemory
  BY DEF BuddyInv, Sound
<1>3. nb_alloc \in 0..2
  <2>1. nb_alloc \in 0..3 \cup {SECOND_ADDRESS, THIRD_ADDRESS}
    BY DEF BuddyInv, Counted
  <2> QED BY <2>1, Addresses
<1>4. F = FIRST_ADDRESS + nb_alloc * BlockPages /\ F = (nb_alloc + 1) * BlockPages
  <2>1. CASE nb_alloc = 0
    BY <2>1, Addresses
  <2>2. CASE nb_alloc = 1
    BY <2>2, Addresses
  <2>3. CASE nb_alloc = 2
    BY <2>3, Addresses
  <2> QED BY <1>3, <2>1, <2>2, <2>3
<1>5. F \in Memory /\ F \in Nat /\ F + BlockPages <= EndOfMemory
  <2>1. CASE nb_alloc = 0
    BY <1>4, <2>1, Addresses
  <2>2. CASE nb_alloc = 1
    BY <1>4, <2>2, Addresses
  <2>3. CASE nb_alloc = 2
    BY <1>4, <2>3, Addresses
  <2> QED BY <1>3, <2>1, <2>2, <2>3
<1>6. F % BlockPages = 0
  <2>1. nb_alloc + 1 \in Nat /\ BlockPages \in Nat /\ BlockPages > 0
    BY <1>3, Addresses
  <2>2. F = BlockPages * (nb_alloc + 1)
    BY <1>4, <2>1
  <2> HIDE DEF F
  <2> QED BY <2>1, <2>2, Multiple
<1>7. m = [map EXCEPT ![Top] = <<F>>]
  BY DEF alloc_block
<1> HIDE DEF F, m
<1>8. \A i \in Order : m[i] = IF i = Top THEN <<F>> ELSE map[i]
  BY <1>2, <1>7
<1>9. /\ <<F>> \in Seq(Memory) /\ ToSet(<<F>>) = {F} /\ NoDup(<<F>>) /\ <<F>> # <<>>
      /\ ToSet(map[Top]) = {}
  BY <1>5, ListShort
<1>10. m \in [Order -> Seq(Memory)] /\ \A i \in Order : NoDup(m[i])
  BY <1>2, <1>7, <1>8, <1>9
<1>11. FreeOf(m) = FreeOf(map) \cup {y}
  <2>1. ASSUME NEW i \in Order
        PROVE  {<<a, i>> : a \in ToSet(m[i])} =
               IF i = Top THEN {y} ELSE {<<a, i>> : a \in ToSet(map[i])}
    BY <1>8, <1>9
  <2>2. {<<a, Top>> : a \in ToSet(map[Top])} = {}
    BY <1>9
  <2> HIDE DEF y
  <2> QED BY <2>1, <2>2, <1>1 DEF FreeOf
<1>12. AllOf(m, used) = B \cup {y}
  BY <1>11 DEF AllOf
<1>13. \A p \in Nat : Covered(p, map, used) <=> FIRST_ADDRESS <= p /\ p < FIRST_ADDRESS + nb_alloc * BlockPages
  BY <1>3 DEF BuddyInv, Counted
<1>14. \A p \in Nat : In(p, y) <=> F <= p /\ p < F + BlockPages
  BY <1>1 DEF In, End
<1>15. ASSUME NEW x \in B, NEW p \in Nat, In(p, x) PROVE ~In(p, y)
  <2>1. p < F
    BY <1>4, <1>13, <1>15 DEF Covered
  <2> QED BY <2>1, <1>5, <1>14
<1>16. In(F, y)
  BY <1>5, <1>14, Addresses
<1>17. y \notin B
  BY <1>5, <1>15, <1>16
<1>18. Apart(B \cup {y})
  <2>1. ASSUME NEW x \in B \cup {y}, NEW z \in B \cup {y}, x # z, NEW p \in Nat, In(p, x), In(p, z)
        PROVE  FALSE
    <3>1. CASE x \in B /\ z \in B
      BY <2>1, <3>1, <1>2 DEF Apart
    <3>2. CASE x \in B /\ z = y
      BY <2>1, <3>2, <1>15
    <3>3. CASE x = y /\ z \in B
      BY <2>1, <3>3, <1>15
    <3> HIDE DEF B, y
    <3> QED BY <2>1, <3>1, <3>2, <3>3
  <2> QED BY <2>1 DEF Apart
<1>19. FreeOf(m) \cap HeldOf(used) = {}
  <2>1. y \notin HeldOf(used)
    BY <1>17 DEF AllOf
  <2> HIDE DEF y
  <2> QED BY <2>1, <1>2, <1>11
<1>20. y[1] % pages[y[2]] = 0 /\ FIRST_ADDRESS <= y[1] /\ End(y) <= EndOfMemory
  <2>1. FIRST_ADDRESS <= F
    BY <1>5, Addresses
  <2> QED BY <2>1, <1>1, <1>5, <1>6 DEF End
<1>21. Sound(m, used)
  <2> HIDE DEF B, y
  <2> QED BY <1>2, <1>10, <1>12, <1>18, <1>19, <1>20 DEF Sound
<1>22. NoBuddies(m)
  <2> SUFFICES ASSUME NEW i \in Order, NEW a \in ToSet(m[i]) PROVE buddy(a, i) \notin ToSet(m[i])
    BY DEF NoBuddies
  <2>1. CASE i = Top
    <3>1. a = F /\ ToSet(m[i]) = {F}
      BY <2>1, <1>8, <1>9
    <3>2. buddy(F, Top) # F
      BY <1>1, <1>5, <1>6, Buddies
    <3> QED BY <2>1, <3>1, <3>2
  <2>2. CASE i # Top
    BY <2>2, <1>8 DEF BuddyInv, NoBuddies
  <2> QED BY <2>1, <2>2
<1>23. ASSUME NEW p \in Nat
       PROVE  Covered(p, m, used) <=> FIRST_ADDRESS <= p /\ p < FIRST_ADDRESS + (nb_alloc + 1) * BlockPages
  <2>1. Covered(p, m, used) <=> Covered(p, map, used) \/ In(p, y)
    <3> HIDE DEF y, B
    <3> QED BY <1>12 DEF Covered, B
  <2>2. FIRST_ADDRESS + (nb_alloc + 1) * BlockPages = F + BlockPages
    BY <1>3, <1>4, Addresses
  <2>3. FIRST_ADDRESS <= F /\ FIRST_ADDRESS \in Nat /\ BlockPages \in Nat
    BY <1>5, Addresses
  <2> QED BY <2>1, <2>2, <2>3, <1>4, <1>5, <1>13, <1>14
<1>24. Counted(m, nb_alloc + 1, used)
  BY <1>3, <1>23 DEF Counted
<1>25. m[Top] # <<>>
  BY <1>1, <1>8, <1>9
<1>26. QED
  BY <1>21, <1>22, <1>24, <1>25 DEF m

LEMMA SameCount ==
    ASSUME NEW m, NEW u, NEW nb, Counted(m, nb, u), NEW m2, NEW u2,
           \A p \in Nat : Covered(p, m2, u2) <=> Covered(p, m, u)
    PROVE  Counted(m2, nb, u2)
  BY DEF Counted

\* What both ways to allocate do: there are blocks m that have room for n pages.
LEMMA AllocInv ==
    ASSUME NEW m, NEW nb, NEW n \in NbPages,
           Sound(m, used), NoBuddies(m), Counted(m, nb, used), fits(m, order(n)) # {},
           take(m, nb, n)
    PROVE  /\ BuddyInv'
           /\ \E a : used' = used \cup {<<a, n>>} /\ <<a, order(n)>> \notin HeldOf(used)
<1> DEFINE a == Head(m[Min(fits(m, order(n)))])
<1>1. map' = split(m, order(n)) /\ nb_alloc' = nb /\ used' = used \cup {<<a, n>>}
  BY DEF take
<1> HIDE DEF a
<1>2. /\ Sound(map', used') /\ NoBuddies(map') /\ <<a, order(n)>> \notin HeldOf(used)
      /\ \A p \in Nat : Covered(p, map', used') <=> Covered(p, m, used)
  <2> DEFINE m2 == map'
             u2 == used'
  <2>1. Taken(m, used, n, a, m2, u2)
    BY <1>1 DEF a, Taken
  <2> HIDE DEF m2, u2
  <2>2. /\ Sound(m2, u2) /\ NoBuddies(m2) /\ <<a, order(n)>> \notin HeldOf(used)
        /\ \A p \in Nat : Covered(p, m2, u2) <=> Covered(p, m, used)
    BY <2>1, TakeSound
  <2> QED BY <2>2 DEF m2, u2
<1>3. Counted(map', nb, used')
  BY <1>2, SameCount
<1>4. QED
  BY <1>1, <1>2, <1>3 DEF BuddyInv

LEMMA AllocListedInv ==
    ASSUME BuddyInv, NEW n \in NbPages, AllocListed(n)
    PROVE  /\ BuddyInv'
           /\ \E a : used' = used \cup {<<a, n>>} /\ <<a, order(n)>> \notin HeldOf(used)
  BY AllocInv DEF AllocListed, BuddyInv

LEMMA AllocFreshInv ==
    ASSUME BuddyInv, NEW n \in NbPages, AllocFresh(n)
    PROVE  /\ BuddyInv'
           /\ \E a : used' = used \cup {<<a, n>>} /\ <<a, order(n)>> \notin HeldOf(used)
<1> DEFINE m == alloc_block.map
<1>1. order(n) \in Order /\ Top \in Order /\ Top >= order(n)
  BY OrderFits, Pages
<1>2. fits(map, order(n)) = {} /\ nb_alloc < 3 /\ take(m, alloc_block.nb_alloc, n)
  BY DEF AllocFresh
<1>3. map[Top] = <<>>
  BY <1>1, <1>2 DEF fits
<1>4. Sound(m, used) /\ NoBuddies(m) /\ Counted(m, nb_alloc + 1, used) /\ m[Top] # <<>>
  BY <1>2, <1>3, FreshSound
<1>5. alloc_block.nb_alloc = nb_alloc + 1
  BY DEF alloc_block
<1>6. fits(m, order(n)) # {}
  <2> HIDE DEF m
  <2> QED BY <1>1, <1>4 DEF fits
<1> HIDE DEF m
<1>7. QED
  BY <1>2, <1>4, <1>5, <1>6, AllocInv

\* Only the second and the third initial block merge at the top.
LEMMA TopMerge ==
    ASSUME NEW a \in Memory, buddy(block(a, Top), Top) \in Memory
    PROVE  block(a, Top) \in {SECOND_ADDRESS, THIRD_ADDRESS}
<1> DEFINE c == block(a, Top)
           d == buddy(c, Top)
           s == BlockPages
<1>1. /\ Top \in Order /\ Top \in 0..MAP_SIZE /\ pages[Top] = s
      /\ pages[Top + 1] = 2 * s /\ s \in Nat /\ s >= 2
  BY Pages, Addresses
<1>2. a \in Nat /\ s <= a /\ a < 4 * s
  BY Addresses
<1>3. c \in Nat /\ c % s = 0 /\ c <= a /\ a < c + s
  BY <1>1, <1>2, BlockOf
<1>4. (d = c + s /\ c % (2 * s) = 0) \/ (c = d + s)
  <2> HIDE DEF c
  <2> QED BY <1>1, <1>3, Buddies
<1>5. d \in Nat /\ s <= d
  BY Addresses
<1> HIDE DEF c, d, s
<1>6. PICK q \in Nat : c = s * q
  BY <1>1, <1>3, Aligned
<1>7. q \in 1..3
  <2>1. q = 0 => c = 0
    BY <1>1, <1>6
  <2>2. q >= 4 => c >= s * 4
    BY <1>1, <1>6
  <2> QED BY <2>1, <2>2, <1>1, <1>2, <1>3, <1>6
<1>8. q # 1
  <2>1. SUFFICES ASSUME q = 1 PROVE FALSE
    OBVIOUS
  <2>2. c = s
    BY <2>1, <1>1, <1>6
  <2>3. d # 0
    BY <1>1, <1>5
  <2>4. d = c + s /\ c % (2 * s) = 0
    BY <1>1, <1>4, <1>5, <2>2, <2>3
  <2> DEFINE r == 2 * s
  <2>5. r \in Nat /\ r > 0 /\ s \in 0..(r - 1) /\ r * 0 + s = s
    BY <1>1
  <2> HIDE DEF r
  <2>6. (r * 0 + s) % r = s
    BY <2>5, DivUnique
  <2>7. c % r = 0
    BY <2>4 DEF r
  <2> QED BY <2>2, <2>5, <2>6, <2>7, <1>1
<1>9. c = 2 * s \/ c = 3 * s
  BY <1>1, <1>6, <1>7, <1>8
<1>10. QED
  BY <1>9, Addresses DEF c, s

LEMMA FreeInv ==
    ASSUME BuddyInv, NEW b \in used, free_physical_page(b)
    PROVE  BuddyInv'
<1> DEFINE a == b[1]
           i == order(b[2])
           k == merged_order(a, i)
           bud(j) == buddy(block(a, j), j)
           G == {<<bud(j), j>> : j \in i..(k - 1)}
           R == Halves(a, i, k)
           B == AllOf(map, used)
           c == block(a, k)
           y == <<c, k>>
           rest == [j \in Order |-> IF i <= j /\ j < k THEN unlink(map[j], bud(j)) ELSE map[j]]
           u2 == used \ {b}
<1>1. /\ map \in [Order -> Seq(Memory)] /\ \A j \in Order : NoDup(map[j])
      /\ used \subseteq Memory \X NbPages
      /\ FreeOf(map) \cap HeldOf(used) = {}
      /\ \A d, e \in used : d[1] = e[1] /\ order(d[2]) = order(e[2]) => d = e
      /\ Apart(B)
      /\ \A x \in B : x[1] % pages[x[2]] = 0 /\ FIRST_ADDRESS <= x[1] /\ End(x) <= EndOfMemory
  BY DEF BuddyInv, Sound
<1>2. B \subseteq Blocks /\ \A j \in Order : ToSet(map[j]) \subseteq Memory
  BY <1>1, AllBlocks
<1>3. a \in Memory /\ a \in Nat /\ b[2] \in NbPages /\ i \in Order /\ i \in 0..MAP_SIZE
  <2>1. a \in Memory /\ b[2] \in NbPages
    BY <1>1
  <2>2. order(b[2]) \in Order
    BY <2>1, OrderFits
  <2>3. \A j \in Order : j \in 0..MAP_SIZE
    BY Pages
  <2> QED BY <2>1, <2>2, <2>3, Addresses
<1>4. /\ k \in i..MAP_SIZE
      /\ k \in Order => buddy(c, k) \notin ToSet(map[k])
      /\ \A j \in i..(k - 1) : j \in Order /\ bud(j) \in ToSet(map[j])
  <2> HIDE DEF i
  <2> QED BY <1>3, MergedOrder
<1>5. /\ used' = u2
      /\ k = MAP_SIZE => map' = rest /\ nb_alloc' = block(a, Top)
      /\ k # MAP_SIZE => map' = [rest EXCEPT ![k] = <<c>> \o @] /\ nb_alloc' = nb_alloc
  BY DEF free_physical_page
<1> HIDE DEF k, i
<1>6. \A j \in Order : i <= j /\ j < k <=> j \in i..(k - 1)
  BY <1>3, <1>4, Pages
<1>7. <<a, i>> \in HeldOf(used) /\ <<a, i>> \in B /\ <<a, i>> \notin FreeOf(map)
  <2>1. <<a, i>> \in HeldOf(used)
    BY DEF HeldOf, i
  <2> QED BY <2>1, <1>1 DEF AllOf
<1>8. block(a, i) = a
  <2>1. a % pages[i] = 0
    BY <1>1, <1>7
  <2> QED BY <2>1, <1>3, BlockOf
<1>9. R = {<<a, i>>} \cup G
  BY <1>8 DEF Halves
<1>10. G \subseteq FreeOf(map) /\ G \cap HeldOf(used) = {}
  <2>1. \A j \in i..(k - 1) : <<bud(j), j>> \in FreeOf(map)
    <3> HIDE DEF bud
    <3> QED BY <1>4, Members
  <2> QED BY <2>1, <1>1
<1>11. R \subseteq B
  <2> HIDE DEF G, R
  <2> QED BY <1>7, <1>9, <1>10 DEF AllOf
\* the lists without the merged blocks
<1>12. \A j \in Order : /\ rest[j] \in Seq(Memory) /\ NoDup(rest[j])
                        /\ ToSet(rest[j]) = IF i <= j /\ j < k THEN ToSet(map[j]) \ {bud(j)} ELSE ToSet(map[j])
  <2> HIDE DEF bud
  <2> TAKE j \in Order
  <2>0. map[j] \in Seq(Memory) /\ NoDup(map[j])
    BY <1>1
  <2>1. CASE i <= j /\ j < k
    <3>1. rest[j] = unlink(map[j], bud(j)) /\ bud(j) \in ToSet(map[j])
      BY <2>1, <1>4, <1>6
    <3> HIDE DEF rest
    <3>2. /\ unlink(map[j], bud(j)) \in Seq(Memory) /\ NoDup(unlink(map[j], bud(j)))
          /\ ToSet(unlink(map[j], bud(j))) = ToSet(map[j]) \ {bud(j)}
      BY <2>0, <3>1, ListUnlink
    <3> QED BY <2>1, <3>1, <3>2
  <2>2. CASE ~(i <= j /\ j < k)
    <3>1. rest[j] = map[j]
      BY <2>2
    <3> HIDE DEF rest
    <3> QED BY <2>0, <2>2, <3>1
  <2> QED BY <2>1, <2>2
<1>13. rest \in [Order -> Seq(Memory)]
  BY <1>12
<1>14. FreeOf(rest) = FreeOf(map) \ G
  <2>1. ASSUME NEW d, NEW j \in Order
        PROVE  <<d, j>> \in FreeOf(rest) <=> <<d, j>> \in FreeOf(map) \ G
    <3>1. <<d, j>> \in FreeOf(rest) <=> d \in ToSet(rest[j])
      <4> HIDE DEF rest
      <4> QED BY Members
    <3>2. <<d, j>> \in FreeOf(map) <=> d \in ToSet(map[j])
      BY Members
    <3>3. <<d, j>> \in G <=> d = bud(j) /\ i <= j /\ j < k
      <4> HIDE DEF bud
      <4> QED BY <1>6
    <3> HIDE DEF G, rest, bud
    <3> QED BY <3>1, <3>2, <3>3, <1>12
  <2>2. \A m : \A x \in FreeOf(m) : \E d : \E j \in Order : x = <<d, j>>
    BY DEF FreeOf
  <2> HIDE DEF G, rest
  <2> QED BY <2>1, <2>2
<1>15. HeldOf(u2) = HeldOf(used) \ {<<a, i>>} /\ u2 \subseteq used
  <2>1. \A d \in used : d # b => <<d[1], order(d[2])>> # <<a, i>>
    BY <1>1 DEF i
  <2> DEFINE held(d) == <<d[1], order(d[2])>>
  <2>2. HeldOf(u2) = {held(d) : d \in u2} /\ HeldOf(used) = {held(d) : d \in used} /\ held(b) = <<a, i>>
    BY DEF HeldOf, i
  <2>3. \A d \in used : d # b => held(d) # held(b)
    BY <2>1, <2>2
  <2> HIDE DEF held
  <2> QED BY <2>2, <2>3
<1>16. FreeOf(rest) \cup HeldOf(u2) = B \ R
  <2> HIDE DEF rest, G, R, u2
  <2> QED BY <1>7, <1>9, <1>10, <1>14, <1>15 DEF AllOf
<1>17. \A d, e \in u2 : d[1] = e[1] /\ order(d[2]) = order(e[2]) => d = e
  BY <1>1
<1>18. u2 \subseteq Memory \X NbPages
  BY <1>1
\* merged at the top
<1>19. CASE k = MAP_SIZE
  <2>1. map' = rest /\ nb_alloc' = block(a, Top)
    BY <1>5, <1>19
  <2>2. AllOf(rest, u2) = B \ R
    BY <1>16 DEF AllOf
  <2>3. Apart(B \ R)
    BY <1>1 DEF Apart
  <2>4. FreeOf(rest) \cap HeldOf(u2) = {}
    <3> HIDE DEF rest, u2, G
    <3> QED BY <1>1, <1>14, <1>15
  <2>5. Sound(rest, u2)
    <3> HIDE DEF rest, u2, R, B
    <3> QED BY <1>1, <1>12, <1>13, <1>17, <1>18, <2>2, <2>3, <2>4 DEF Sound
  <2>6. NoBuddies(rest)
    <3>1. \A j \in Order : ToSet(rest[j]) \subseteq ToSet(map[j])
      <4> HIDE DEF rest
      <4> QED BY <1>12
    <3> HIDE DEF rest
    <3> QED BY <3>1 DEF BuddyInv, NoBuddies
  <2>7. block(a, Top) \in {SECOND_ADDRESS, THIRD_ADDRESS}
    <3>1. Top \in i..(k - 1)
      BY <1>3, <1>19, Pages
    <3>2. bud(Top) \in Memory
      <4> HIDE DEF bud
      <4> QED BY <3>1, <1>2, <1>4
    <3> QED BY <3>2, <1>3, TopMerge
  <2>8. Counted(rest, block(a, Top), u2)
    <3>1. ~(block(a, Top) <= 3)
      BY <2>7, Addresses
    <3> QED BY <2>7, <3>1 DEF Counted
  <2> HIDE DEF rest, u2
  <2> QED BY <1>5, <2>1, <2>5, <2>6, <2>8 DEF BuddyInv
\* merged below it
<1>20. CASE k # MAP_SIZE
  <2>1. /\ k \in Order /\ k \in i..Top /\ k \in 0..MAP_SIZE
        /\ map' = [rest EXCEPT ![k] = <<c>> \o @] /\ nb_alloc' = nb_alloc
    <3>1. k \in Order /\ k \in i..Top /\ k \in 0..MAP_SIZE
      BY <1>3, <1>4, <1>20, Pages
    <3> HIDE DEF c, rest
    <3> QED BY <3>1, <1>5, <1>20
  <2>2. c \in Nat /\ c % pages[k] = 0 /\ y \in Blocks
    BY <2>1, <1>3, BlockOf DEF Blocks
  <2>3. \A p \in Nat : (\E x \in R : In(p, x)) <=> In(p, y)
    BY <2>1, <1>3, MergeTiles
  <2>4. SamePages({y}, R)
    BY <2>3 DEF SamePages
  <2>5. Apart({y}) /\ {y} \subseteq Blocks
    BY <2>2 DEF Apart
  <2>6. Apart((B \ R) \cup {y}) /\ (B \ R) \cap {y} = {} /\ SamePages((B \ R) \cup {y}, B)
    <3> DEFINE N == {y}
    <3>1. Apart(N) /\ N \subseteq Blocks /\ SamePages(N, R)
      BY <2>4, <2>5
    <3> HIDE DEF B, R, N
    <3>a. Apart(B) /\ B \subseteq Blocks /\ R \subseteq B
      BY <1>1, <1>2, <1>11
    <3>2. Apart((B \ R) \cup N) /\ (B \ R) \cap N = {} /\ SamePages((B \ R) \cup N, B)
      BY <3>a, <3>1, Exchange
    <3> QED BY <3>2 DEF N
  <2>7. FIRST_ADDRESS <= c /\ End(y) <= EndOfMemory /\ c \in Memory
    <3>1. \A x \in R : x \in Blocks /\ FIRST_ADDRESS <= x[1] /\ End(x) <= EndOfMemory
      <4> HIDE DEF R, B
      <4> QED BY <1>1, <1>2, <1>11
    <3>2. \A p \in Nat : In(p, y) => \E x \in R : In(p, x)
      BY <2>3
    <3>3. FIRST_ADDRESS <= y[1] /\ End(y) <= EndOfMemory
      <4> HIDE DEF R, y
      <4> QED BY <2>2, <3>1, <3>2, SamePlace
    <3>4. y[1] = c
      OBVIOUS
    <3>5. c < End(y) /\ End(y) \in Nat
      BY <2>2, <3>4, BlockType
    <3> HIDE DEF c, y
    <3> QED BY <2>2, <3>3, <3>4, <3>5, Addresses
  <2>8. c \notin ToSet(map[k]) /\ rest[k] = map[k]
    <3>1. ~(i <= k /\ k < k)
      BY <2>1, Pages
    <3>2. rest[k] = map[k]
      BY <2>1, <3>1
    <3>3. y \notin G
      <4>1. \A j \in i..(k - 1) : j # k
        BY <2>1, Pages
      <4> QED BY <4>1
    <3>4. y \in FreeOf(map) => FALSE
      <4>1. y \in FreeOf(map) => y # <<a, i>> /\ y \in B
        BY <1>7 DEF AllOf
      <4> HIDE DEF R, B, G, y
      <4> QED BY <4>1, <3>3, <1>9, <2>6
    <3>5. c \in ToSet(map[k]) => y \in FreeOf(map)
      <4> HIDE DEF c
      <4> QED BY <2>1, Members
    <3> QED BY <3>2, <3>4, <3>5
  <2>9. \A j \in Order : map'[j] = IF j = k THEN <<c>> \o map[k] ELSE rest[j]
    <3>1. rest \in [Order -> Seq(Memory)]
      BY <1>13
    <3> HIDE DEF rest
    <3> QED BY <3>1, <2>1, <2>8
  <2>10. <<c>> \o map[k] \in Seq(Memory) /\ NoDup(<<c>> \o map[k]) /\ ToSet(<<c>> \o map[k]) = ToSet(map[k]) \cup {c}
    <3> HIDE DEF c
    <3> QED BY <1>1, <2>1, <2>7, <2>8, ListPush
  <2>11. map' \in [Order -> Seq(Memory)] /\ \A j \in Order : NoDup(map'[j])
    <3>1. map' = [j \in Order |-> map'[j]]
      <4> HIDE DEF c
      <4> QED BY <2>1
    <3> HIDE DEF rest, c
    <3> QED BY <3>1, <2>9, <2>10, <1>12
  <2>12. FreeOf(map') = FreeOf(rest) \cup {y}
    <3>1. ASSUME NEW d, NEW j \in Order
          PROVE  <<d, j>> \in FreeOf(map') <=> <<d, j>> \in FreeOf(rest) \cup {y}
      <4>1. <<d, j>> \in FreeOf(map') <=> d \in ToSet(map'[j])
        BY Members
      <4>2. <<d, j>> \in FreeOf(rest) <=> d \in ToSet(rest[j])
        <5> HIDE DEF rest
        <5> QED BY Members
      <4>3. <<d, j>> = y <=> d = c /\ j = k
        OBVIOUS
      <4> HIDE DEF rest, c, y
      <4> QED BY <4>1, <4>2, <4>3, <2>8, <2>9, <2>10
    <3>2. \A m : \A x \in FreeOf(m) : \E d : \E j \in Order : x = <<d, j>>
      BY DEF FreeOf
    <3>3. \E d : \E j \in Order : y = <<d, j>>
      BY <2>1
    <3> HIDE DEF y, rest
    <3> QED BY <3>1, <3>2, <3>3
  <2>13. AllOf(map', u2) = (B \ R) \cup {y}
    <3> HIDE DEF rest, u2, B, R, y
    <3> QED BY <1>16, <2>12 DEF AllOf
  <2>14. FreeOf(map') \cap HeldOf(u2) = {}
    <3>1. FreeOf(rest) \cap HeldOf(u2) = {}
      <4> HIDE DEF rest, u2, G
      <4> QED BY <1>1, <1>14, <1>15
    <3>2. y \notin HeldOf(u2)
      <4> HIDE DEF rest, u2, B, R, y
      <4> QED BY <1>16, <2>6
    <3> HIDE DEF rest, u2, y
    <3> QED BY <3>1, <3>2, <2>12
  <2>15. \A x \in (B \ R) \cup {y} : x[1] % pages[x[2]] = 0 /\ FIRST_ADDRESS <= x[1] /\ End(x) <= EndOfMemory
    <3>1. y[1] % pages[y[2]] = 0 /\ FIRST_ADDRESS <= y[1] /\ End(y) <= EndOfMemory
      BY <2>2, <2>7
    <3> HIDE DEF B, R, y
    <3> QED BY <3>1, <1>1
  <2>16. Sound(map', u2)
    <3> HIDE DEF u2, R, B, y
    <3> QED BY <1>17, <1>18, <2>6, <2>11, <2>13, <2>14, <2>15 DEF Sound
  <2>17. NoBuddies(map')
    <3> SUFFICES ASSUME NEW j \in Order, NEW d \in ToSet(map'[j]) PROVE buddy(d, j) \notin ToSet(map'[j])
      BY DEF NoBuddies
    <3>0. ToSet(map'[j]) \subseteq IF j = k THEN ToSet(map[k]) \cup {c} ELSE ToSet(map[j])
      <4> HIDE DEF rest, c
      <4> QED BY <2>9, <2>10, <1>12
    <3>1. CASE j # k
      BY <3>0, <3>1 DEF BuddyInv, NoBuddies
    <3>2. CASE j = k
      <4>1. buddy(c, k) \notin ToSet(map[k]) /\ buddy(c, k) # c
        <5>1. buddy(c, k) # c
          <6> HIDE DEF c
          <6> QED BY <2>1, <2>2, Buddies
        <5> QED BY <5>1, <1>4, <2>1
      <4>2. ASSUME d \in ToSet(map[k]) PROVE buddy(d, k) \notin ToSet(map[k]) /\ buddy(d, k) # c
        <5>1. buddy(d, k) \notin ToSet(map[k])
          BY <2>1, <4>2 DEF BuddyInv, NoBuddies
        <5>2. <<d, k>> \in B
          BY <2>1, <4>2, Members DEF AllOf
        <5>3. d \in Nat /\ d % pages[k] = 0
          <6>1. <<d, k>>[1] % pages[<<d, k>>[2]] = 0
            BY <5>2, <1>1
          <6>2. d \in Memory
            BY <2>1, <4>2, <1>2
          <6> QED BY <6>1, <6>2, Addresses
        <5>4. buddy(buddy(d, k), k) = d
          BY <5>3, <2>1, Buddies
        <5> HIDE DEF c
        <5> QED BY <5>1, <5>4, <4>1, <4>2
      <4> HIDE DEF c
      <4> QED BY <3>0, <3>2, <4>1, <4>2
    <3> QED BY <3>1, <3>2
  <2>18. \A p \in Nat : Covered(p, map', u2) <=> Covered(p, map, used)
    <3> HIDE DEF R, y, u2
    <3> QED BY <2>6, <2>13 DEF Covered, SamePages
  <2>19. Counted(map', nb_alloc, u2)
    <3>1. Counted(map, nb_alloc, used)
      BY DEF BuddyInv
    <3> DEFINE m2 == map'
    <3>2. \A p \in Nat : Covered(p, m2, u2) <=> Covered(p, map, used)
      BY <2>18
    <3> HIDE DEF u2, m2
    <3>3. Counted(m2, nb_alloc, u2)
      BY <3>1, <3>2, SameCount
    <3> QED BY <3>3 DEF m2
  <2> HIDE DEF u2, c
  <2> QED BY <1>5, <2>1, <2>16, <2>17, <2>19 DEF BuddyInv
<1>21. QED
  BY <1>19, <1>20

-----------------------------------------------------------------------------
(* Theorems *)

LEMMA InitInv == Init => BuddyInv
<1> SUFFICES ASSUME Init PROVE BuddyInv
  OBVIOUS
<1>1. map = [j \in Order |-> <<>>] /\ nb_alloc = 0 /\ used = {}
  BY DEF Init
<1>2. <<>> \in Seq(Memory) /\ ToSet(<<>>) = {} /\ NoDup(<<>>)
  <2>1. FIRST_ADDRESS \in Memory
    BY Addresses
  <2> QED BY <2>1, ListShort
<1>3. \A j \in Order : map[j] = <<>>
  BY <1>1
<1>4. map \in [Order -> Seq(Memory)]
  BY <1>1, <1>2
<1>5. FreeOf(map) = {} /\ HeldOf(used) = {}
  <2>1. HeldOf(used) = {}
    BY <1>1 DEF HeldOf
  <2>2. \A j \in Order : ToSet(map[j]) = {}
    BY <1>2, <1>3
  <2> QED BY <2>1, <2>2 DEF FreeOf
<1>6. AllOf(map, used) = {}
  BY <1>5 DEF AllOf
<1>7. Apart({})
  BY DEF Apart
<1>8. Sound(map, used)
  BY <1>1, <1>2, <1>3, <1>4, <1>5, <1>6, <1>7 DEF Sound
<1>9. NoBuddies(map)
  BY <1>2, <1>3 DEF NoBuddies
<1>10. Counted(map, nb_alloc, used)
  <2>1. FIRST_ADDRESS + 0 * BlockPages = FIRST_ADDRESS /\ FIRST_ADDRESS \in Nat
    BY Addresses
  <2> QED BY <1>1, <1>6, <2>1 DEF Counted, Covered
<1>11. QED
  BY <1>8, <1>9, <1>10 DEF BuddyInv

LEMMA NextInv == BuddyInv /\ [Next]_vars => BuddyInv'
<1> SUFFICES ASSUME BuddyInv, [Next]_vars PROVE BuddyInv'
  OBVIOUS
<1>1. ASSUME NEW n \in NbPages, AllocListed(n) PROVE BuddyInv'
  BY <1>1, AllocListedInv
<1>2. ASSUME NEW n \in NbPages, AllocFresh(n) PROVE BuddyInv'
  BY <1>2, AllocFreshInv
<1>3. ASSUME NEW b \in used, free_physical_page(b) PROVE BuddyInv'
  BY <1>3, FreeInv
<1>4. CASE UNCHANGED vars
  BY <1>4 DEF vars, BuddyInv
<1>5. QED
  BY <1>1, <1>2, <1>3, <1>4 DEF Next

LEMMA BuddyInvariant == Spec => []BuddyInv
<1>1. QED
  BY InitInv, NextInv, PTL DEF Spec

\* A list without duplicates has as many elements as members.
LEMMA ListCount ==
    ASSUME NEW S, NEW q \in Seq(S), NoDup(q)
    PROVE  Len(q) = Cardinality(ToSet(q))
<1> DEFINE n == Len(q)
<1>1. n \in Nat /\ q \in [1..n -> S] /\ DOMAIN q = 1..n
  BY LenProperties
<1>2. \A t \in ToSet(q) : \E j \in 1..n : q[j] = t
  BY <1>1 DEF ToSet
<1>3. \A j \in 1..n : q[j] \in ToSet(q)
  BY <1>1 DEF ToSet
<1>4. q \in [1..n -> ToSet(q)]
  BY <1>1, <1>3
<1>5. q \in Bijection(1..n, ToSet(q))
  <2>1. \A j, k \in 1..n : q[j] = q[k] => j = k
    BY DEF NoDup
  <2> HIDE DEF n
  <2> QED BY <2>1, <1>2, <1>4, Fun_IsBij
<1>6. ExistsBijection(1..n, ToSet(q))
  BY <1>5 DEF ExistsBijection
<1>7. QED
  BY <1>1, <1>6, FS_CountingElements

\* The callers have pages of managed memory that nobody else has.
LEMMA CallersApart ==
    ASSUME NEW m, NEW u, Sound(m, u), NEW b \in u
    PROVE  /\ b[1] \in Memory /\ b[1]..(b[1] + b[2] - 1) \subseteq Memory
           /\ \A c \in u : b # c => (b[1]..(b[1] + b[2] - 1)) \cap (c[1]..(c[1] + c[2] - 1)) = {}
<1> DEFINE held(c) == <<c[1], order(c[2])>>
           B == AllOf(m, u)
<1>1. /\ m \in [Order -> Seq(Memory)] /\ u \subseteq Memory \X NbPages
      /\ Apart(B) /\ \A x \in B : FIRST_ADDRESS <= x[1] /\ End(x) <= EndOfMemory
      /\ \A d, e \in u : d[1] = e[1] /\ order(d[2]) = order(e[2]) => d = e
  BY DEF Sound
<1>2. \A c \in u : held(c) \in B
  BY DEF AllOf, HeldOf
<1>3. ASSUME NEW c \in u
      PROVE  /\ c[1] \in Memory /\ c[1] \in Nat /\ c[2] \in NbPages /\ c[2] \in Nat
             /\ c[1] + c[2] <= End(held(c)) /\ End(held(c)) \in Nat /\ End(held(c)) <= EndOfMemory
  <2>1. c[1] \in Memory /\ c[2] \in NbPages /\ c[1] \in Nat
    BY <1>1, Addresses
  <2>2. order(c[2]) \in Order /\ c[2] <= pages[order(c[2])] /\ c[2] \in Nat
    BY <2>1, OrderFits
  <2>3. pages[order(c[2])] \in Nat
    BY <2>2, Pages
  <2>4. End(held(c)) = c[1] + pages[order(c[2])]
    BY DEF End
  <2>5. End(held(c)) <= EndOfMemory
    <3> HIDE DEF held, B
    <3> QED BY <1>1, <1>2
  <2> QED BY <2>1, <2>2, <2>3, <2>4, <2>5
<1>4. \A c \in u, p \in Nat : c[1] <= p /\ p < c[1] + c[2] => In(p, held(c))
  <2> SUFFICES ASSUME NEW c \in u, NEW p \in Nat, c[1] <= p, p < c[1] + c[2] PROVE In(p, held(c))
    OBVIOUS
  <2>1. c[1] \in Nat /\ c[2] \in Nat /\ End(held(c)) \in Nat /\ c[1] + c[2] <= End(held(c))
    BY <1>3
  <2>2. held(c)[1] = c[1]
    OBVIOUS
  <2> HIDE DEF held
  <2> QED BY <2>1, <2>2 DEF In
<1>5. b[1]..(b[1] + b[2] - 1) \subseteq Memory
  <2>1. /\ b[1] \in Nat /\ b[2] \in Nat /\ End(held(b)) \in Nat /\ b[1] \in Memory
        /\ b[1] + b[2] <= End(held(b)) /\ End(held(b)) <= EndOfMemory
    BY <1>3
  <2> HIDE DEF held
  <2> QED BY <2>1, Addresses
<1>6. ASSUME NEW c \in u, b # c, NEW p \in (b[1]..(b[1] + b[2] - 1)) \cap (c[1]..(c[1] + c[2] - 1))
      PROVE  FALSE
  <2>1. b[1] \in Nat /\ b[2] \in Nat /\ c[1] \in Nat /\ c[2] \in Nat
    BY <1>3
  <2>2. p \in Nat /\ b[1] <= p /\ p < b[1] + b[2] /\ c[1] <= p /\ p < c[1] + c[2]
    BY <1>6, <2>1
  <2>3. held(b) # held(c)
    BY <1>1, <1>6
  <2> HIDE DEF held, B
  <2> QED BY <1>1, <1>2, <1>4, <2>2, <2>3 DEF Apart
<1>7. QED
  BY <1>3, <1>5, <1>6

\* No page is in two free blocks, in two held ones, or both free and held, and none
\* is lost, whatever is split and merged, in any order: alloc_physical_page and
\* free_physical_page.
THEOREM PagesCorrect == Spec => []PagesShared
<1>1. BuddyInv => PagesShared
  <2> SUFFICES ASSUME BuddyInv PROVE PagesShared
    OBVIOUS
  <2> DEFINE B == AllOf(map, used)
  <2>1. /\ map \in [Order -> Seq(Memory)] /\ \A i \in Order : NoDup(map[i])
        /\ used \subseteq Memory \X NbPages /\ FreeOf(map) \cap HeldOf(used) = {} /\ Apart(B)
        /\ \A x \in B : x[1] % pages[x[2]] = 0
    BY DEF BuddyInv, Sound
  <2>2. B \subseteq Blocks
    BY <2>1, AllBlocks
  <2>3. FreeBlocks = FreeOf(map) /\ HeldBlocks = HeldOf(used) /\ FreeBlocks \cup HeldBlocks = B
    BY DEF FreeBlocks, FreeOf, HeldBlocks, HeldOf, AllOf
  <2>4. BuddyTypeOK
    <3>1. \A i \in Order : \A a \in ToSet(map[i]) : a % pages[i] = 0
      <4> SUFFICES ASSUME NEW i \in Order, NEW a \in ToSet(map[i]) PROVE a % pages[i] = 0
        OBVIOUS
      <4>1. <<a, i>> \in B
        BY Members DEF AllOf
      <4>2. <<a, i>>[1] % pages[<<a, i>>[2]] = 0
        BY <4>1, <2>1
      <4> QED BY <4>2
    <3> QED BY <3>1, <2>1 DEF BuddyTypeOK, BuddyInv, Counted
  <2>5. Disjoint
    <3>1. \A i \in Order : Len(map[i]) = Cardinality(ToSet(map[i]))
      <4> TAKE i \in Order
      <4>1. map[i] \in Seq(Memory) /\ NoDup(map[i])
        BY <2>1
      <4> QED BY <4>1, ListCount
    <3>2. \A x, y \in B : x # y => End(x) <= y[1] \/ End(y) <= x[1]
      <4> HIDE DEF B
      <4> QED BY <2>1, <2>2, ApartDef
    <3> HIDE DEF B
    <3> QED BY <3>1, <3>2, <2>1, <2>3 DEF Disjoint
  <2>6. PagesAccounted
    <3> SUFFICES ASSUME nb_alloc <= 3
                 PROVE  Managed = FIRST_ADDRESS..(FIRST_ADDRESS + nb_alloc * BlockPages - 1)
      BY DEF PagesAccounted
    <3>1. \A p \in Nat : Covered(p, map, used) <=>
                         FIRST_ADDRESS <= p /\ p < FIRST_ADDRESS + nb_alloc * BlockPages
      BY DEF BuddyInv, Counted
    <3>2. nb_alloc \in 0..3
      <4>1. nb_alloc \in 0..3 \cup {SECOND_ADDRESS, THIRD_ADDRESS}
        BY DEF BuddyInv, Counted
      <4> QED BY <4>1, Addresses
    <3>3. ASSUME NEW x \in B, NEW p PROVE p \in x[1]..(End(x) - 1) <=> p \in Nat /\ In(p, x)
      <4>1. x[1] \in Nat /\ End(x) \in Nat
        BY <2>2, BlockType
      <4> QED BY <4>1 DEF In
    <3>4. Managed = {p \in Nat : Covered(p, map, used)}
      <4> HIDE DEF B
      <4> QED BY <2>3, <3>3 DEF Managed, Covered, B
    <3>5. nb_alloc * BlockPages \in Nat /\ FIRST_ADDRESS \in Nat
      BY <3>2, Addresses
    <3> DEFINE e == FIRST_ADDRESS + nb_alloc * BlockPages
    <3>6. e \in Nat /\ \A p \in Nat : Covered(p, map, used) <=> FIRST_ADDRESS <= p /\ p < e
      BY <3>1, <3>5
    <3> HIDE DEF e
    <3>7. {p \in Nat : Covered(p, map, used)} = FIRST_ADDRESS..(e - 1)
      BY <3>5, <3>6
    <3>8. e - 1 = FIRST_ADDRESS + nb_alloc * BlockPages - 1
      BY <3>5 DEF e
    <3> QED BY <3>4, <3>7, <3>8
  <2> QED BY <2>4, <2>5, <2>6 DEF PagesShared
<1>2. QED
  BY <1>1, BuddyInvariant, PTL

\* Freeing undoes fragmentation completely: no two buddies are both free, because
\* free_physical_page merges until the buddy is not free, and splitting leaves one.
THEOREM CoalescingCorrect == Spec => []Coalesced
<1>1. BuddyInv => Coalesced
  BY DEF BuddyInv, NoBuddies, Coalesced
<1>2. QED
  BY <1>1, BuddyInvariant, PTL

\* The allocator implements what its callers rely on: alloc_physical_page answers
\* with pages of managed memory that nobody holds, until they are given back.
THEOREM AllocatorCorrect == Spec => ImplementsFrames
<1>1. Init => Frames!Init
  BY DEF Init, Frames!Init
<1>2. ASSUME BuddyInv, BuddyInv', NEW n \in NbPages,
             \E a : used' = used \cup {<<a, n>>} /\ <<a, order(n)>> \notin HeldOf(used)
      PROVE  Frames!Alloc(n)
  <2>1. PICK a : used' = used \cup {<<a, n>>} /\ <<a, order(n)>> \notin HeldOf(used)
    BY <1>2
  <2> DEFINE b == <<a, n>>
  <2>2. b[1] = a /\ b[2] = n /\ b \in used'
    BY <2>1
  <2>3. b \notin used
    BY <2>1, <2>2, Members
  <2>4. /\ b[1] \in Memory /\ b[1]..(b[1] + b[2] - 1) \subseteq Memory
        /\ \A c \in used' : b # c => (b[1]..(b[1] + b[2] - 1)) \cap (c[1]..(c[1] + c[2] - 1)) = {}
    <3>1. \A d \in used' :
            /\ d[1] \in Memory /\ d[1]..(d[1] + d[2] - 1) \subseteq Memory
            /\ \A c \in used' : d # c => (d[1]..(d[1] + d[2] - 1)) \cap (c[1]..(c[1] + c[2] - 1)) = {}
      BY <1>2, CallersApart DEF BuddyInv
    <3> HIDE DEF b
    <3> QED BY <2>2, <3>1
  <2>5. \A c \in used : c \in used' /\ c # b
    BY <2>1, <2>3
  <2>6. Frames!Pages(b) \subseteq Memory /\ \A c \in used : Frames!Pages(b) \cap Frames!Pages(c) = {}
    <3> HIDE DEF b
    <3> QED BY <2>4, <2>5 DEF Frames!Pages
  <2>7. a \in Memory /\ used' = used \cup {<<a, n>>}
    BY <2>1, <2>2, <2>4
  <2> QED BY <2>6, <2>7 DEF Frames!Alloc
<1>3. BuddyInv /\ BuddyInv' /\ [Next]_vars => [Frames!Next]_used
  <2> SUFFICES ASSUME BuddyInv, BuddyInv', [Next]_vars PROVE [Frames!Next]_used
    OBVIOUS
  <2>1. ASSUME NEW n \in NbPages, AllocListed(n) PROVE Frames!Next
    <3>1. Frames!Alloc(n)
      BY <1>2, <2>1, AllocListedInv
    <3> QED BY <3>1 DEF Frames!Next
  <2>2. ASSUME NEW n \in NbPages, AllocFresh(n) PROVE Frames!Next
    <3>1. Frames!Alloc(n)
      BY <1>2, <2>2, AllocFreshInv
    <3> QED BY <3>1 DEF Frames!Next
  <2>3. ASSUME NEW b \in used, free_physical_page(b) PROVE Frames!Next
    BY <2>3 DEF free_physical_page, Frames!Next, Frames!Free
  <2>4. CASE UNCHANGED vars
    BY <2>4 DEF vars
  <2> QED BY <2>1, <2>2, <2>3, <2>4 DEF Next
<1>4. QED
  BY <1>1, <1>3, BuddyInvariant, PTL DEF Spec, ImplementsFrames, Frames!Spec
=============================================================================
