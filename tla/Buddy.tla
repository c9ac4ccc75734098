------------------------------- MODULE Buddy -------------------------------
(***************************************************************************)
(* The buddy allocator of kernel/page_allocator.c.                         *)
(*                                                                         *)
(* Addresses are page numbers.  map[i] is the list of the free blocks of   *)
(* 2^i pages, which the code threads through the free pages themselves.    *)
(* used is what the callers remember: every caller frees what it was given *)
(* with the number of pages it asked for.                                  *)
(***************************************************************************)
EXTENDS Integers, Sequences, SequencesExt, FiniteSetsExt

CONSTANTS
    MAP_SIZE,  \* 15 in the code
    NbPages    \* the numbers of pages that are requested

Top == MAP_SIZE - 1
Order == 0..Top

\* 1 << i: the number of pages of a block of order i.
pages[i \in 0..MAP_SIZE] == IF i = 0 THEN 1 ELSE 2 * pages[i - 1]

BlockPages == pages[Top]
FIRST_ADDRESS == BlockPages
SECOND_ADDRESS == 2 * BlockPages
THIRD_ADDRESS == 3 * BlockPages

ASSUME BuddyAssumption ==
    /\ MAP_SIZE \in Nat \ {0, 1}
    /\ NbPages \subseteq 1..(BlockPages - 1)

VARIABLES map, nb_alloc, used
vars == <<map, nb_alloc, used>>

-----------------------------------------------------------------------------
(* Arithmetic on blocks *)

\* Mutated form: rounds down.
order_down(n) == CHOOSE p \in Order : pages[p] <= n /\ n < pages[p + 1]
\* puiss2(nb_pages << SHIFT) - SHIFT: the least order that fits.
order(n) == CHOOSE p \in Order : n <= pages[p] /\ \A q \in 0..(p - 1) : pages[q] < n

\* a ^ (1 << i), for a block of order i.
buddy(a, i) == IF (a \div pages[i]) % 2 = 0 THEN a + pages[i] ELSE a - pages[i]

\* The block of order i that the page a is in.
block(a, i) == a - (a % pages[i])

-----------------------------------------------------------------------------
(* alloc_physical_page *)

\* init_alloc and alloc_block: a further block of memory is put on the top list.
alloc_block ==
    [map |-> [map EXCEPT ![Top] = << <<FIRST_ADDRESS, SECOND_ADDRESS, THIRD_ADDRESS>>[nb_alloc + 1] >>],
     nb_alloc |-> nb_alloc + 1]

fits(m, i) == {j \in Order : j >= i /\ m[j] # <<>>}

\* Mutated form: the upper halves are not put on their lists.
split_drops(m, i) ==
    LET scan == Min(fits(m, i))
    IN  [m EXCEPT ![scan] = Tail(@)]
\* The first block of the least order that fits is split down to order i: its
\* upper halves become the only blocks of their lists.
split(m, i) ==
    LET scan == Min(fits(m, i))
        a == Head(m[scan])
    IN  [j \in Order |-> IF j = scan THEN Tail(m[j])
                         ELSE IF i <= j /\ j < scan THEN <<a + pages[j]>> ELSE m[j]]

take(m, nb, n) ==
    /\ map' = split(m, order(n))
    /\ nb_alloc' = nb
    /\ used' = used \cup {<<Head(m[Min(fits(m, order(n)))]), n>>}

\* A block is found on the lists.
AllocListed(n) ==
    /\ fits(map, order(n)) # {}
    /\ take(map, nb_alloc, n)

\* None is: the next initial block is taken.  The search of the code for a
\* block of the top order does not stop at the end of the array, so a request
\* of that size is only answered from the list (or by the first block).
AllocFresh(n) ==
    /\ fits(map, order(n)) = {}
    /\ order(n) < Top \/ nb_alloc = 0
    /\ nb_alloc < 3
    /\ take(alloc_block.map, alloc_block.nb_alloc, n)

-----------------------------------------------------------------------------
(* free_physical_page *)

\* The list q without the block at a.
unlink(q, a) == RemoveAt(q, CHOOSE i \in 1..Len(q) : q[i] = a)

\* The order at which merging stops: the buddy is not free.  MAP_SIZE stands
\* for the break after the buddy was found on the top list.
merged_order(a, i) ==
    Min({j \in i..Top : buddy(block(a, j), j) \notin ToSet(map[j])} \cup {MAP_SIZE})

\* Mutated form: only one merge.
free_one_merge(b) ==
    LET a == b[1]
        i == order(b[2])
        k == IF merged_order(a, i) = i THEN i ELSE i + 1
        rest == [j \in Order |-> IF i <= j /\ j < k THEN unlink(map[j], buddy(block(a, j), j))
                                                  ELSE map[j]]
    IN  /\ k \in Order
        /\ map' = [rest EXCEPT ![k] = <<block(a, k)>> \o @]
        /\ used' = used \ {b}
        /\ UNCHANGED nb_alloc
\* The block b merges with free buddies as long as there are any, each of which
\* leaves its list, and the result goes to the front of the list of its order.
\* The second and the third initial block are buddies too: after merging them
\* the code writes area.map[MAP_SIZE], which is area.nb_alloc.
free_physical_page(b) ==
    LET a == b[1]
        i == order(b[2])
        k == merged_order(a, i)
        rest == [j \in Order |-> IF i <= j /\ j < k THEN unlink(map[j], buddy(block(a, j), j))
                                                  ELSE map[j]]
    IN  /\ used' = used \ {b}
        /\ IF k = MAP_SIZE
           THEN map' = rest /\ nb_alloc' = block(a, Top)
           ELSE map' = [rest EXCEPT ![k] = <<block(a, k)>> \o @] /\ UNCHANGED nb_alloc

-----------------------------------------------------------------------------
Init == map = [i \in Order |-> <<>>] /\ nb_alloc = 0 /\ used = {}

Next ==
    \/ \E n \in NbPages : AllocListed(n) \/ AllocFresh(n)
    \/ \E b \in used : free_physical_page(b)

Spec == Init /\ [][Next]_vars

-----------------------------------------------------------------------------
(* Properties *)

Memory == FIRST_ADDRESS..(THIRD_ADDRESS + BlockPages - 1)

\* Lists of blocks that are aligned and lie in managed memory; nb_alloc counts
\* the initial blocks until the merge of two of them overwrites it.
BuddyTypeOK ==
    /\ map \in [Order -> Seq(Memory)]
    /\ \A i \in Order : \A a \in ToSet(map[i]) : a % pages[i] = 0
    /\ nb_alloc \in 0..3 \cup {SECOND_ADDRESS, THIRD_ADDRESS}
    /\ used \subseteq Memory \X NbPages

\* The blocks on the free lists and those held by callers, with their orders.
FreeBlocks == UNION {{<<a, i>> : a \in ToSet(map[i])} : i \in Order}
HeldBlocks == {<<b[1], order(b[2])>> : b \in used}
End(x) == x[1] + pages[x[2]]
Managed == UNION {x[1]..(End(x) - 1) : x \in FreeBlocks \cup HeldBlocks}

\* No page is in two free blocks, in two held blocks, or both free and held,
\* whatever was split and merged, in any order.
Disjoint ==
    /\ \A i \in Order : Len(map[i]) = Cardinality(ToSet(map[i]))
    /\ FreeBlocks \cap HeldBlocks = {}
    /\ \A x, y \in FreeBlocks \cup HeldBlocks :
          x # y => End(x) <= y[1] \/ End(y) <= x[1]

\* No page is lost by splitting and merging: all pages of the initial blocks
\* taken so far are free or held, until nb_alloc is overwritten.
PagesAccounted ==
    nb_alloc <= 3 => Managed = FIRST_ADDRESS..(FIRST_ADDRESS + nb_alloc * BlockPages - 1)

\* The free lists and the callers share the managed pages out exactly.
PagesShared == BuddyTypeOK /\ Disjoint /\ PagesAccounted

\* Freeing undoes fragmentation completely: no two buddies are both free, so
\* once everything is given back large requests can be answered again.
Coalesced ==
    \A i \in Order : \A a \in ToSet(map[i]) : buddy(a, i) \notin ToSet(map[i])

Frames == INSTANCE PageFrames

\* Callers never hold a common page, nor one outside managed memory.
ImplementsFrames == Frames!Spec

-----------------------------------------------------------------------------
=============================================================================
