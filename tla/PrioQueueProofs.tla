-------------------------- MODULE PrioQueueProofs --------------------------
(***************************************************************************)
(* Facts about the queue operations of PrioQueue, for every queue; and     *)
(* what other proofs share with these: induction over the naturals, and    *)
(* that definitions by recursion exist.                                    *)
(***************************************************************************)
EXTENDS PrioQueue, SequenceTheorems, WellFoundedInduction, TLAPS

\* A non-empty set of naturals has a least element.
LEMMA LeastNat ==
    ASSUME NEW T, T \subseteq Nat, T # {}
    PROVE  \E x \in T : \A y \in T : x <= y
<1> DEFINE R == {ss \in Nat \X Nat : ss[1] < ss[2]}
<1>1. IsWellFoundedOn(R, Nat)
  BY NatLessThanWellFounded DEF OpToRel
<1>2. PICK x \in T : \A y \in T : ~(<<y, x>> \in R)
  <2> HIDE DEF R
  <2> QED BY <1>1, WFMin
<1>3. ASSUME NEW y \in T PROVE x <= y
  <2>1. x \in Nat /\ y \in Nat
    OBVIOUS
  <2>2. y < x => <<y, x>> \in R
    BY <2>1
  <2>3. QED
    BY <1>2, <2>1, <2>2
<1>4. QED
  BY <1>3

\* Inserting at index i shifts what follows by one.
LEMMA InsertAtProperties ==
    ASSUME NEW S, NEW q \in Seq(S), NEW e \in S, NEW i \in 1..(Len(q) + 1)
    PROVE  /\ InsertAt(q, i, e) \in Seq(S)
           /\ Len(InsertAt(q, i, e)) = Len(q) + 1
           /\ \A j \in 1..(Len(q) + 1) :
                 InsertAt(q, i, e)[j] = IF j < i THEN q[j]
                                        ELSE IF j = i THEN e ELSE q[j - 1]
<1> DEFINE a == SubSeq(q, 1, i - 1)
           b == SubSeq(q, i, Len(q))
<1>1. /\ a \in Seq(S) /\ Len(a) = i - 1
      /\ \A j \in 1..(i - 1) : a[j] = q[j]
  BY SubSeqProperties, ElementOfSeq, LenProperties
<1>2. /\ b \in Seq(S) /\ Len(b) = Len(q) - i + 1
      /\ \A j \in 1..(Len(q) - i + 1) : b[j] = q[i + j - 1]
  BY SubSeqProperties, ElementOfSeq, LenProperties
<1> HIDE DEF a, b
<1>3. /\ <<e>> \in Seq(S) /\ Len(<<e>>) = 1 /\ <<e>>[1] = e
  OBVIOUS
<1>4. /\ a \o <<e>> \in Seq(S) /\ Len(a \o <<e>>) = i
      /\ \A j \in 1..i : (a \o <<e>>)[j] = IF j < i THEN q[j] ELSE e
  BY <1>1, <1>3, ConcatProperties
<1>5. /\ (a \o <<e>>) \o b \in Seq(S) /\ Len((a \o <<e>>) \o b) = Len(q) + 1
      /\ \A j \in 1..(Len(q) + 1) :
            ((a \o <<e>>) \o b)[j] = IF j <= i THEN (a \o <<e>>)[j] ELSE b[j - i]
  BY <1>2, <1>4, ConcatProperties
<1>6. \A j \in 1..(Len(q) + 1) : j > i => b[j - i] = q[j - 1]
  BY <1>2
<1>7. InsertAt(q, i, e) = (a \o <<e>>) \o b
  BY DEF InsertAt, a, b
<1>8. QED
  BY SMTT(30), <1>4, <1>5, <1>6, <1>7
LEMMA RemoveAtProperties ==
    ASSUME NEW S, NEW q \in Seq(S), NEW i \in 1..Len(q)
    PROVE  /\ RemoveAt(q, i) \in Seq(S)
           /\ Len(RemoveAt(q, i)) = Len(q) - 1
           /\ \A j \in 1..(Len(q) - 1) :
                 RemoveAt(q, i)[j] = IF j < i THEN q[j] ELSE q[j + 1]
<1> DEFINE a == SubSeq(q, 1, i - 1)
           b == SubSeq(q, i + 1, Len(q))
<1>1. /\ a \in Seq(S) /\ Len(a) = i - 1
      /\ \A j \in 1..(i - 1) : a[j] = q[j]
  BY SubSeqProperties, ElementOfSeq, LenProperties
<1>2. /\ b \in Seq(S) /\ Len(b) = Len(q) - i
      /\ \A j \in 1..(Len(q) - i) : b[j] = q[i + j]
  BY SubSeqProperties, ElementOfSeq, LenProperties
<1> HIDE DEF a, b
<1>0. Len(q) \in Nat /\ i \in Nat /\ 1 <= i /\ i <= Len(q)
  BY LenProperties
<1>a. /\ a \o b \in Seq(S) /\ Len(a \o b) = Len(a) + Len(b)
      /\ \A j \in 1..(Len(a) + Len(b)) :
            (a \o b)[j] = IF j <= Len(a) THEN a[j] ELSE b[j - Len(a)]
  BY <1>1, <1>2, ConcatProperties
<1>3. /\ a \o b \in Seq(S) /\ Len(a \o b) = Len(q) - 1
      /\ \A j \in 1..(Len(q) - 1) :
            (a \o b)[j] = IF j < i THEN a[j] ELSE b[j - (i - 1)]
  <2>1. Len(a) + Len(b) = Len(q) - 1
    BY <1>0, <1>1, <1>2
  <2>2. ASSUME NEW j \in 1..(Len(q) - 1)
        PROVE  (a \o b)[j] = IF j < i THEN a[j] ELSE b[j - (i - 1)]
    <3>1. (a \o b)[j] = IF j <= i - 1 THEN a[j] ELSE b[j - (i - 1)]
      BY <1>1, <1>a, <2>1
    <3>2. QED
      BY <3>1, <1>0
  <2>3. QED
    BY <1>a, <2>1, <2>2
<1>4. \A j \in 1..(Len(q) - 1) : j >= i => b[j - (i - 1)] = q[j + 1]
  BY <1>2
<1>5. RemoveAt(q, i) = a \o b
  BY DEF RemoveAt, a, b
<1>6. QED
  BY <1>1, <1>3, <1>4, <1>5

\* queue_add stops at a place: everything before it is less urgent than the
\* newcomer, and the element found there is not.
LEMMA AddIndex ==
    ASSUME NEW S, NEW q \in Seq(S), NEW e \in S, NEW prio \in [S -> Int]
    PROVE  /\ add_index(q, e, prio) \in 1..(Len(q) + 1)
           /\ \A j \in 1..(add_index(q, e, prio) - 1) : prio[q[j]] < prio[e]
           /\ add_index(q, e, prio) <= Len(q) =>
                 prio[q[add_index(q, e, prio)]] >= prio[e]
<1> DEFINE T == {i \in 1..(Len(q) + 1) : i <= Len(q) => prio[q[i]] >= prio[e]}
<1>1. Len(q) + 1 \in T /\ T \subseteq Nat
  BY LenProperties
<1>2. PICK i \in T : \A j \in T : i <= j
  <2> HIDE DEF T
  <2> QED BY <1>1, LeastNat
<1>3. \A j \in 1..Len(q) : q[j] \in S /\ prio[q[j]] \in Int
  BY ElementOfSeq
<1>4. i \in 1..(Len(q) + 1)
  BY <1>2
<1>5. ASSUME NEW j \in 1..(i - 1) PROVE prio[q[j]] < prio[e]
  <2>1. j \notin T
    BY <1>1, <1>2
  <2>2. j \in 1..(Len(q) + 1) /\ j <= Len(q)
    BY LenProperties, <1>4
  <2>3. QED
    BY <1>3, <2>1, <2>2
<1>6. i <= Len(q) => prio[q[i]] >= prio[e]
  BY <1>2
<1>7. QED
  BY <1>4, <1>5, <1>6 DEF add_index

\* queue_add inserts the newcomer once, keeps everything else, keeps a sorted
\* queue sorted, and links no element twice if the newcomer was not linked.
THEOREM QueueAdd ==
    ASSUME NEW S, NEW q \in Seq(S), NEW e \in S, NEW prio \in [S -> Int]
    PROVE  /\ queue_add(q, e, prio) \in Seq(S)
           /\ ToSet(queue_add(q, e, prio)) = ToSet(q) \cup {e}
           /\ NoDup(q) /\ e \notin ToSet(q) => NoDup(queue_add(q, e, prio))
           /\ Sorted(q, prio) => Sorted(queue_add(q, e, prio), prio)
<1> DEFINE i == add_index(q, e, prio)
           r == queue_add(q, e, prio)
<1>0. r = InsertAt(q, i, e)
  BY DEF queue_add
<1>1. /\ i \in 1..(Len(q) + 1)
      /\ \A j \in 1..(i - 1) : prio[q[j]] < prio[e]
      /\ i <= Len(q) => prio[q[i]] >= prio[e]
  BY AddIndex
<1> HIDE DEF i, r
<1>2. /\ r \in Seq(S)
      /\ Len(r) = Len(q) + 1
      /\ \A j \in 1..(Len(q) + 1) :
            r[j] = IF j < i THEN q[j] ELSE IF j = i THEN e ELSE q[j - 1]
  <2>1. i \in 1..(Len(q) + 1)
    BY <1>1
  <2>2. /\ InsertAt(q, i, e) \in Seq(S)
        /\ Len(InsertAt(q, i, e)) = Len(q) + 1
        /\ \A j \in 1..(Len(q) + 1) :
              InsertAt(q, i, e)[j] = IF j < i THEN q[j] ELSE IF j = i THEN e ELSE q[j - 1]
    BY <2>1, InsertAtProperties
  <2>3. QED
    BY <1>0, <2>2
<1>3. Len(q) \in Nat /\ DOMAIN q = 1..Len(q) /\ DOMAIN r = 1..(Len(q) + 1)
  BY <1>2, LenProperties
<1>4. \A j \in 1..Len(q) : q[j] \in S /\ prio[q[j]] \in Int
  BY ElementOfSeq
<1>5. ToSet(r) = ToSet(q) \cup {e}
  <2>1. ToSet(r) \subseteq ToSet(q) \cup {e}
    <3>1. ASSUME NEW j \in 1..(Len(q) + 1) PROVE r[j] \in ToSet(q) \cup {e}
      <4>1. \A k \in 1..Len(q) : q[k] \in ToSet(q)
        BY <1>3 DEF ToSet
      <4>2. CASE j < i
        BY <4>1, <4>2, <1>1, <1>2, <1>3
      <4>3. CASE j = i
        BY <4>3, <1>2
      <4>4. CASE j > i
        <5>1. j - 1 \in 1..Len(q) /\ r[j] = q[j - 1]
          BY <4>4, <1>1, <1>2, <1>3
        <5>2. QED
          BY <5>1, <4>1
      <4>5. QED
        BY <4>2, <4>3, <4>4, <1>1, <1>3
    <3>2. QED
      BY <3>1, <1>3 DEF ToSet
  <2>2. e \in ToSet(r)
    BY SMTT(30), <1>1, <1>2, <1>3 DEF ToSet
  <2>3. ASSUME NEW j \in 1..Len(q) PROVE q[j] \in ToSet(r)
    <3>1. CASE j < i
      <4>1. r[j] = q[j] /\ j \in DOMAIN r
        BY <3>1, <1>1, <1>2, <1>3
      <4>2. QED
        BY <4>1 DEF ToSet
    <3>2. CASE j >= i
      <4>1. r[j + 1] = q[j] /\ j + 1 \in DOMAIN r
        BY <3>2, <1>1, <1>2, <1>3
      <4>2. QED
        BY <4>1 DEF ToSet
    <3>3. QED
      BY <3>1, <3>2, <1>1, <1>3
  <2>4. QED
    BY <2>1, <2>2, <2>3, <1>3 DEF ToSet
<1>6. ASSUME NoDup(q), e \notin ToSet(q) PROVE NoDup(r)
  <2>1. \A j \in 1..Len(q) : q[j] # e
    BY <1>6, <1>3 DEF ToSet
  <2>2. ASSUME NEW j \in 1..(Len(q) + 1), NEW k \in 1..(Len(q) + 1), j < k
        PROVE  r[j] # r[k]
    <3>1. CASE k < i
      BY <3>1, <2>2, <1>6, <1>1, <1>2, <1>3 DEF NoDup
    <3>2. CASE k = i
      BY <3>2, <2>1, <2>2, <1>1, <1>2, <1>3
    <3>3. CASE k > i /\ j < i
      <4>1. r[k] = q[k - 1] /\ r[j] = q[j] /\ k - 1 \in 1..Len(q) /\ j \in 1..Len(q) /\ j < k - 1
        BY <3>3, <1>1, <1>2, <1>3
      <4>2. QED
        BY <4>1, <1>6, <1>3 DEF NoDup
    <3>4. CASE k > i /\ j = i
      <4>1. r[k] = q[k - 1] /\ r[j] = e /\ k - 1 \in 1..Len(q)
        BY <3>4, <1>1, <1>2, <1>3
      <4>2. QED
        BY <4>1, <2>1
    <3>5. CASE k > i /\ j > i
      <4>1. r[k] = q[k - 1] /\ r[j] = q[j - 1] /\ k - 1 \in 1..Len(q) /\ j - 1 \in 1..Len(q)
        BY <3>5, <1>1, <1>2, <1>3
      <4>2. QED
        BY <4>1, <2>2, <1>6, <1>3 DEF NoDup
    <3>6. QED
      BY <3>1, <3>2, <3>3, <3>4, <3>5, <2>2, <1>1, <1>3
  <2>3. QED
    BY <2>2, <1>2, <1>3 DEF NoDup
<1>7. ASSUME Sorted(q, prio) PROVE Sorted(r, prio)
  <2>1. \A j \in 1..Len(q) : j < i => prio[q[j]] <= prio[e]
    BY <1>1, <1>3, <1>4
  <2>2. \A j \in 1..Len(q) : j >= i => prio[q[j]] >= prio[e]
    BY <1>7, <1>1, <1>3, <1>4 DEF Sorted
  <2>3. ASSUME NEW j \in 1..Len(r), NEW k \in 1..Len(r), j < k
        PROVE  prio[r[j]] <= prio[r[k]]
    <3>0. j \in 1..(Len(q) + 1) /\ k \in 1..(Len(q) + 1)
      BY <1>2
    <3>1. CASE k < i
      <4>1. r[k] = q[k] /\ r[j] = q[j] /\ k \in 1..Len(q) /\ j \in 1..Len(q)
        BY <3>0, <3>1, <2>3, <1>1, <1>2, <1>3
      <4>2. QED
        BY <4>1, <2>3, <1>7 DEF Sorted
    <3>2. CASE k = i
      <4>1. r[k] = e /\ r[j] = q[j] /\ j \in 1..Len(q) /\ j < i
        BY <3>0, <3>2, <2>3, <1>1, <1>2, <1>3
      <4>2. QED
        BY <4>1, <2>1
    <3>3. CASE k > i /\ j < i
      <4>1. r[k] = q[k - 1] /\ r[j] = q[j] /\ k - 1 \in 1..Len(q) /\ j \in 1..Len(q) /\ k - 1 >= i
        BY <3>0, <3>3, <1>1, <1>2, <1>3
      <4>2. prio[q[j]] <= prio[e] /\ prio[e] <= prio[q[k - 1]] /\ prio[e] \in Int
        BY <4>1, <3>3, <2>1, <2>2, <1>4
      <4>3. QED
        BY <4>1, <4>2, <1>4
    <3>4. CASE k > i /\ j = i
      <4>1. r[k] = q[k - 1] /\ r[j] = e /\ k - 1 \in 1..Len(q) /\ k - 1 >= i
        BY <3>0, <3>4, <1>1, <1>2, <1>3
      <4>2. prio[q[k - 1]] >= prio[e] /\ prio[q[k - 1]] \in Int /\ prio[e] \in Int
        BY <4>1, <2>2, <1>4
      <4>3. QED
        BY <4>1, <4>2
    <3>5. CASE k > i /\ j > i
      <4>1. r[k] = q[k - 1] /\ r[j] = q[j - 1] /\ k - 1 \in 1..Len(q) /\ j - 1 \in 1..Len(q) /\ j - 1 < k - 1
        BY <3>0, <3>5, <2>3, <1>1, <1>2, <1>3
      <4>2. QED
        BY <4>1, <1>7 DEF Sorted
    <3>6. QED
      BY <3>0, <3>1, <3>2, <3>3, <3>4, <3>5, <2>3, <1>1, <1>3
  <2>4. QED
    BY <2>3 DEF Sorted
<1>8. QED
  BY <1>2, <1>5, <1>6, <1>7 DEF r

\* queue_del removes one link of e, and leaves a queue without e alone.
THEOREM QueueDel ==
    ASSUME NEW S, NEW q \in Seq(S), NEW e, NEW prio
    PROVE  /\ queue_del(q, e) \in Seq(S)
           /\ ToSet(queue_del(q, e)) \subseteq ToSet(q)
           /\ ToSet(q) \ {e} \subseteq ToSet(queue_del(q, e))
           /\ NoDup(q) => /\ NoDup(queue_del(q, e))
                          /\ ToSet(queue_del(q, e)) = ToSet(q) \ {e}
           /\ Sorted(q, prio) => Sorted(queue_del(q, e), prio)
<1> DEFINE r == queue_del(q, e)
           i == CHOOSE i \in 1..Len(q) : q[i] = e
<1>0. Len(q) \in Nat /\ DOMAIN q = 1..Len(q)
  BY LenProperties
<1>1. CASE e \notin ToSet(q)
  BY <1>1 DEF queue_del
<1>2. CASE e \in ToSet(q)
  <2>1. r = RemoveAt(q, i)
    BY <1>2 DEF queue_del
  <2>2. i \in 1..Len(q) /\ q[i] = e
    BY <1>0, <1>2 DEF ToSet
  <2> HIDE DEF i, r
  <2>3. /\ RemoveAt(q, i) \in Seq(S)
        /\ Len(RemoveAt(q, i)) = Len(q) - 1
        /\ \A j \in 1..(Len(q) - 1) :
              RemoveAt(q, i)[j] = IF j < i THEN q[j] ELSE q[j + 1]
    BY <2>2, RemoveAtProperties
  <2>4. /\ r \in Seq(S)
        /\ Len(r) = Len(q) - 1
        /\ \A j \in 1..(Len(q) - 1) : r[j] = IF j < i THEN q[j] ELSE q[j + 1]
    BY <2>1, <2>3
  <2>5. DOMAIN r = 1..(Len(q) - 1)
    BY <2>4, LenProperties
  \* position j of r is position s(j) of q
  <2>6. ASSUME NEW j \in 1..(Len(q) - 1)
        PROVE  \E k \in 1..Len(q) : r[j] = q[k] /\ k # i
    <3>1. CASE j < i
      BY <3>1, <2>2, <2>4, <1>0
    <3>2. CASE j >= i
      <4>1. j + 1 \in 1..Len(q) /\ r[j] = q[j + 1] /\ j + 1 # i
        BY <3>2, <2>2, <2>4, <1>0
      <4>2. QED
        BY <4>1
    <3>3. QED
      BY <3>1, <3>2, <2>2, <1>0
  <2>7. ToSet(r) \subseteq ToSet(q)
    BY <2>5, <2>6, <1>0 DEF ToSet
  <2>8. ASSUME NEW k \in 1..Len(q), k # i PROVE q[k] \in ToSet(r)
    <3>1. CASE k < i
      <4>1. k \in DOMAIN r /\ r[k] = q[k]
        BY <3>1, <2>2, <2>4, <2>5, <1>0
      <4>2. QED
        BY <4>1 DEF ToSet
    <3>2. CASE k > i
      <4>1. k - 1 \in DOMAIN r /\ r[k - 1] = q[k]
        BY <3>2, <2>2, <2>4, <2>5, <1>0
      <4>2. QED
        BY <4>1 DEF ToSet
    <3>3. QED
      BY <3>1, <3>2, <2>2, <2>8, <1>0
  <2>9. ToSet(q) \ {e} \subseteq ToSet(r)
    BY <2>2, <2>8, <1>0 DEF ToSet
  \* the order of the remaining elements does not change
  <2>10. ASSUME NEW j \in 1..(Len(q) - 1), NEW k \in 1..(Len(q) - 1), j < k
         PROVE  \E a \in 1..Len(q), b \in 1..Len(q) : r[j] = q[a] /\ r[k] = q[b] /\ a < b
    <3>1. CASE k < i
      <4>1. /\ j \in 1..Len(q) /\ k \in 1..Len(q)
            /\ r[j] = q[j] /\ r[k] = q[k]
        BY <3>1, <2>10, <2>2, <2>4, <1>0
      <4>2. QED
        BY <4>1, <2>10
    <3>2. CASE k >= i
      <4>1. k + 1 \in 1..Len(q) /\ r[k] = q[k + 1]
        BY <3>2, <2>2, <2>4, <1>0
      <4>2. CASE j < i
        BY SMTT(30), <4>1, <4>2, <2>10, <2>2, <2>4, <1>0
      <4>3. CASE j >= i
        <5>1. j + 1 \in 1..Len(q) /\ r[j] = q[j + 1] /\ j + 1 < k + 1
          BY <4>3, <2>10, <2>2, <2>4, <1>0
        <5>2. QED
          BY <4>1, <5>1
      <4>4. QED
        BY <4>2, <4>3, <2>2, <1>0
    <3>3. QED
      BY <3>1, <3>2, <2>2, <1>0
  <2>11. ASSUME NoDup(q) PROVE NoDup(r) /\ ToSet(r) = ToSet(q) \ {e}
    <3>1. e \notin ToSet(r)
      BY <2>2, <2>5, <2>6, <2>11 DEF ToSet, NoDup
    <3>2. ASSUME NEW j \in 1..(Len(q) - 1), NEW k \in 1..(Len(q) - 1), j < k
          PROVE  r[j] # r[k]
      BY <3>2, <2>10, <2>11 DEF NoDup
    <3>3. ASSUME NEW j \in 1..Len(r), NEW k \in 1..Len(r), r[j] = r[k]
          PROVE  j = k
      <4>1. j \in 1..(Len(q) - 1) /\ k \in 1..(Len(q) - 1)
        BY <2>4
      <4>2. ~(j < k) /\ ~(k < j)
        BY <4>1, <3>2, <3>3
      <4>3. QED
        BY <4>1, <4>2
    <3>4. NoDup(r)
      BY <3>3 DEF NoDup
    <3>5. QED
      BY <3>1, <3>4, <2>7, <2>9
  <2>12. ASSUME Sorted(q, prio) PROVE Sorted(r, prio)
    <3>1. ASSUME NEW j \in 1..(Len(q) - 1), NEW k \in 1..(Len(q) - 1), j < k
          PROVE  prio[r[j]] <= prio[r[k]]
      <4>1. PICK a \in 1..Len(q), b \in 1..Len(q) : r[j] = q[a] /\ r[k] = q[b] /\ a < b
        BY <3>1, <2>10
      <4>2. prio[q[a]] <= prio[q[b]]
        BY <4>1, <2>12 DEF Sorted
      <4>3. QED
        BY <4>1, <4>2
    <3>2. QED
      BY <3>1, <2>4 DEF Sorted
  <2>13. QED
    BY <2>4, <2>7, <2>9, <2>11, <2>12 DEF r
<1>3. QED
  BY <1>1, <1>2


\* queue_out takes the top and leaves the other elements as they were.
THEOREM QueueOut ==
    ASSUME NEW S, NEW q \in Seq(S), NEW prio, q # <<>>
    PROVE  /\ queue_top(q) \in S /\ queue_top(q) \in ToSet(q)
           /\ queue_out_rest(q) \in Seq(S)
           /\ Len(queue_out_rest(q)) = Len(q) - 1
           /\ \A j \in 1..(Len(q) - 1) : queue_out_rest(q)[j] = q[j]
           /\ NoDup(q) => /\ NoDup(queue_out_rest(q))
                          /\ ToSet(queue_out_rest(q)) = ToSet(q) \ {queue_top(q)}
           /\ Sorted(q, prio) => Sorted(queue_out_rest(q), prio)
<1> DEFINE n == Len(q)
           r == SubSeq(q, 1, n - 1)
<1>1. n \in Nat /\ n \in 1..n /\ DOMAIN q = 1..n
  BY EmptySeq, LenProperties
<1>2. r \in Seq(S) /\ Len(r) = n - 1 /\ \A j \in 1..(n - 1) : r[j] = q[j]
  BY <1>1, SubSeqProperties, ElementOfSeq
<1>3. queue_out_rest(q) = r /\ queue_top(q) = q[n]
  BY DEF queue_out_rest, queue_top
<1>4. DOMAIN r = 1..(n - 1)
  BY <1>2, LenProperties
<1>5. q[n] \in S /\ q[n] \in ToSet(q)
  BY <1>1, ElementOfSeq DEF ToSet
<1> HIDE DEF r
<1>6. NoDup(q) => NoDup(r) /\ ToSet(r) = ToSet(q) \ {q[n]}
  <2> SUFFICES ASSUME NoDup(q) PROVE NoDup(r) /\ ToSet(r) = ToSet(q) \ {q[n]}
    OBVIOUS
  <2>1. NoDup(r)
    BY <1>1, <1>2 DEF NoDup
  <2>2. ASSUME NEW x \in ToSet(r) PROVE x \in ToSet(q) \ {q[n]}
    <3>1. PICK j \in 1..(n - 1) : x = q[j]
      BY <1>2, <1>4 DEF ToSet
    <3>2. j \in 1..n /\ j # n
      <4> HIDE DEF n
      <4> QED BY <1>1
    <3>3. QED
      BY <1>1, <3>1, <3>2 DEF NoDup, ToSet
  <2>3. ASSUME NEW x \in ToSet(q) \ {q[n]} PROVE x \in ToSet(r)
    <3>1. PICK j \in 1..n : x = q[j]
      BY <1>1 DEF ToSet
    <3>2. j \in 1..(n - 1)
      BY <1>1, <3>1
    <3>3. QED
      BY <1>2, <1>4, <3>1, <3>2 DEF ToSet
  <2>4. QED
    BY <2>1, <2>2, <2>3
<1>7. Sorted(q, prio) => Sorted(r, prio)
  BY <1>1, <1>2 DEF Sorted
<1>8. QED
  BY <1>2, <1>3, <1>5, <1>6, <1>7

\* Induction on natural numbers, over the set of those that have the property.
LEMMA Induction ==
    ASSUME NEW T, 0 \in T, \A n \in Nat : n \in T => n + 1 \in T
    PROVE  Nat \subseteq T
<1>1. SUFFICES ASSUME Nat \ T # {} PROVE FALSE
  OBVIOUS
<1>2. PICK n \in Nat \ T : \A m \in Nat \ T : n <= m
  <2>1. Nat \ T \subseteq Nat
    OBVIOUS
  <2>2. QED
    BY <1>1, <2>1, LeastNat
<1>3. n # 0 /\ n \in Nat
  BY <1>2
<1>4. n - 1 \in Nat /\ ~(n <= n - 1) /\ (n - 1) + 1 = n
  BY <1>3
<1>5. n - 1 \in T
  BY <1>2, <1>4
<1>6. QED
  BY <1>2, <1>4, <1>5

-----------------------------------------------------------------------------
(* Definitions by recursion *)

\* g is a sequence in S that starts with s0 and goes on as F says.
Follows(g, S, s0, F) ==
    /\ g \in [Nat -> S] /\ g[0] = s0
    /\ \A i \in Nat : g[i + 1] = F[<<i, g[i]>>]

\* A sequence may be defined by its first element and how each follows from the
\* one before.
LEMMA Recursion ==
    ASSUME NEW S, NEW s0 \in S, NEW F \in [Nat \X S -> S]
    PROVE  \E g : Follows(g, S, s0, F)
<1> DEFINE Prefix(n, g) == /\ g \in [0..n -> S] /\ g[0] = s0
                           /\ \A i \in 0..(n - 1) : g[i + 1] = F[<<i, g[i]>>]
<1>1. ASSUME NEW n \in Nat, NEW m \in Nat, n <= m, NEW g, NEW h, Prefix(n, g), Prefix(m, h)
      PROVE  g[n] = h[n]
  <2> DEFINE T == {i \in 0..n : g[i] # h[i]}
  <2>1. SUFFICES ASSUME T # {} PROVE FALSE
    BY <1>1
  <2>2. PICK i \in T : \A j \in T : i <= j
    <3>1. T \subseteq Nat
      OBVIOUS
    <3> HIDE DEF T
    <3>2. QED
      BY <2>1, <3>1, LeastNat
  <2>3. i # 0
    BY <1>1, <2>2
  <2>4. i - 1 \in 0..(n - 1) /\ i - 1 \in 0..(m - 1) /\ i - 1 \notin T
    BY <1>1, <2>2, <2>3
  <2>5. g[i - 1] = h[i - 1]
    BY <2>4
  <2>6. g[(i - 1) + 1] = F[<<i - 1, g[i - 1]>>] /\ h[(i - 1) + 1] = F[<<i - 1, h[i - 1]>>]
    BY <1>1, <2>4
  <2>7. (i - 1) + 1 = i
    BY <2>2
  <2>8. QED
    BY <2>2, <2>5, <2>6, <2>7
<1>2. ASSUME NEW n \in Nat PROVE \E g : Prefix(n, g)
  <2> DEFINE T == {m \in Nat : ~\E g : Prefix(m, g)}
  <2>1. SUFFICES ASSUME T # {} PROVE FALSE
    OBVIOUS
  <2>2. PICK m \in T : \A j \in T : m <= j
    BY <2>1, LeastNat
  <2>3. Prefix(0, [i \in 0..0 |-> s0])
    OBVIOUS
  <2>4. m # 0
    BY <2>2, <2>3
  <2>5. m - 1 \in Nat /\ m - 1 \notin T
    BY <2>2, <2>4
  <2>6. PICK g : Prefix(m - 1, g)
    BY <2>5
  <2> DEFINE h == [i \in 0..m |-> IF i = m THEN F[<<m - 1, g[m - 1]>>] ELSE g[i]]
  <2>7. g[m - 1] \in S
    BY <2>5, <2>6
  <2>8. F[<<m - 1, g[m - 1]>>] \in S
    BY <2>5, <2>7
  <2>9. h \in [0..m -> S] /\ h[0] = s0
    BY <2>4, <2>5, <2>6, <2>8
  <2>10. ASSUME NEW i \in 0..(m - 1) PROVE h[i + 1] = F[<<i, h[i]>>]
    <3>1. h[i] = g[i] /\ i + 1 \in 0..m /\ m \in Nat
      BY <2>2
    <3>2. CASE i = m - 1
      <4>1. h[m] = F[<<m - 1, g[m - 1]>>] /\ i + 1 = m
        BY <3>1, <3>2
      <4>2. QED
        BY <3>1, <3>2, <4>1
    <3>3. CASE i # m - 1
      <4>1. i \in 0..((m - 1) - 1) /\ i + 1 # m
        BY <3>1, <3>3
      <4>2. h[i + 1] = g[i + 1]
        BY <3>1, <4>1
      <4>3. QED
        BY <2>6, <3>1, <4>1, <4>2
    <3>4. QED
      BY <3>2, <3>3
  <2>11. Prefix(m, h)
    BY <2>9, <2>10
  <2>12. QED
    BY <2>2, <2>11
<1> DEFINE pre(n) == CHOOSE g : Prefix(n, g)
           G == [n \in Nat |-> pre(n)[n]]
<1>3. ASSUME NEW n \in Nat PROVE Prefix(n, pre(n))
  BY <1>2
<1>4. ASSUME NEW n \in Nat PROVE G[n] = pre(n)[n] /\ G[n] \in S
  <2>1. pre(n)[n] \in S
    <3> HIDE DEF pre
    <3> QED BY <1>3
  <2>2. QED
    BY <2>1
<1>5. G[0] = s0
  <2>1. G[0] = pre(0)[0]
    BY <1>4
  <2>2. Prefix(0, pre(0))
    <3> HIDE DEF pre, Prefix
    <3> QED BY <1>3
  <2> HIDE DEF pre, G
  <2>3. QED
    BY <2>1, <2>2
<1>6. ASSUME NEW i \in Nat PROVE G[i + 1] = F[<<i, G[i]>>]
  <2>1. Prefix(i, pre(i)) /\ Prefix(i + 1, pre(i + 1)) /\ i + 1 \in Nat
    <3> HIDE DEF pre, Prefix
    <3> QED BY <1>3
  <2> HIDE DEF pre
  <2>2. pre(i)[i] = pre(i + 1)[i]
    <3> HIDE DEF Prefix
    <3> QED BY <1>1, <2>1
  <2>3. pre(i + 1)[i + 1] = F[<<i, pre(i + 1)[i]>>]
    BY <2>1
  <2>4. QED
    BY <2>1, <2>2, <2>3
<1>7. G \in [Nat -> S]
  <2> HIDE DEF pre
  <2> QED BY <1>4
<1>8. QED
  <2> HIDE DEF G
  <2> QED BY <1>5, <1>6, <1>7 DEF Follows

=============================================================================
