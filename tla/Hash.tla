-------------------------------- MODULE Hash --------------------------------
(***************************************************************************)
(* The open-addressing hash table of kernel/hash.c, with deleted slots,    *)
(* growing and shrinking, and a heap that may be exhausted.                *)
(*                                                                         *)
(* A key is a pair: its hash code and a tag that tells apart the strings   *)
(* with that hash code.  The hash code cached in a slot is always that of  *)
(* its key and is left out.                                                *)
(***************************************************************************)
EXTENDS Integers, FiniteSets

CONSTANTS
    Key,           \* pairs <<hash code, tag>>
    Value, None,
    HASH_MINSIZE,
    MaxFailures    \* how often the heap may refuse a new table

pow2[n \in Nat] == IF n = 0 THEN 1 ELSE 2 * pow2[n - 1]

ASSUME HashAssumption ==
    /\ Key \subseteq Nat \X Nat /\ None \notin Value
    /\ \A k \in Key : k[1] \div pow2[30] < 4   \* a hash code has 32 bits
    /\ \E n \in 2..16 : HASH_MINSIZE = pow2[n]
    /\ MaxFailures \in Nat

VARIABLES
    size,      \* mask + 1
    table,     \* the slots, 0..size-1
    fill, count,
    failures   \* refused allocations so far
vars == <<size, table, fill, count, failures>>

NoKey == <<0, 0>>
EmptySlot == [mode |-> "EMPTY", key |-> NoKey, value |-> None]
DeletedSlot == [mode |-> "DELETED", key |-> NoKey, value |-> None]
ActiveSlot(k, v) == [mode |-> "ACTIVE", key |-> k, value |-> v]

hfunc(k) == k[1]

-----------------------------------------------------------------------------
(* hash_lookup *)

\* perturb, a 32-bit word, is 0 after this many shifts by 5.
PERTURB_STEPS == 7

Nowhere == -1

\* A search: the probes made, the slot it looks at, perturb, and the first deleted
\* slot it met.
Search == [probes : Nat, index : Nat, perturb : Nat, freeslot : Int]

first_probe(h, n) == [probes |-> 0, index |-> h % n, perturb |-> h, freeslot |-> Nowhere]

next_probe(t, n, w) ==
    [probes   |-> w.probes + 1,
     index    |-> (5 * w.index + w.perturb + 1) % n,
     perturb  |-> w.perturb \div 32,
     freeslot |-> IF t[w.index].mode = "DELETED" /\ w.freeslot = Nowhere
                  THEN w.index ELSE w.freeslot]

\* Mutated form: the first deleted slot ends the search.
ends_at_deleted(t, k, w) == t[w.index].mode # "ACTIVE" \/ t[w.index].key = k

\* It ends at an empty slot, or at k.
ends(t, k, w) ==
    \/ t[w.index].mode = "EMPTY"
    \/ t[w.index].mode = "ACTIVE" /\ t[w.index].key = k

\* The slot of k or, if k is absent, the first one it can be put into.
place(t, w) == IF t[w.index].mode = "EMPTY" /\ w.freeslot # Nowhere THEN w.freeslot ELSE w.index

\* Once perturb is 0 the recurrence 5 * index + 1 visits every slot of a table of n
\* slots: a search that has not ended after n further probes never does.
hash_lookup(t, n, k) ==
    LET walk[w \in Search] ==
            IF ends(t, k, w) THEN place(t, w)
            ELSE IF w.probes >= PERTURB_STEPS + n THEN Nowhere
            ELSE walk[next_probe(t, n, w)]
    IN  walk[first_probe(hfunc(k), n)]

slot_of(k) == table[hash_lookup(table, size, k)]

\* hash_get(map, k, NULL); hash_isset(map, k) is hash_get(k) # None.
hash_get(k) == IF slot_of(k).mode = "ACTIVE" THEN slot_of(k).value ELSE None

-----------------------------------------------------------------------------
(* hash_update *)

hash_initialize(n) == [i \in 0..(n - 1) |-> EmptySlot]

\* Mutated form: the first slot is forgotten.
copy_from_one(old, n, new) ==
    LET copy[i \in 1..n] ==
            IF i = 1 THEN hash_initialize(new)
            ELSE IF old[i - 1].mode # "ACTIVE" THEN copy[i - 1]
            ELSE LET t == copy[i - 1]
                 IN  [t EXCEPT ![hash_lookup(t, new, old[i - 1].key)] = old[i - 1]]
    IN  copy[n]
\* The active slots of a table of n slots, moved to one of new slots.
hash_copy(old, n, new) ==
    LET copy[i \in 0..n] ==
            IF i = 0 THEN hash_initialize(new)
            ELSE IF old[i - 1].mode # "ACTIVE" THEN copy[i - 1]
            ELSE LET t == copy[i - 1]
                 IN  [t EXCEPT ![hash_lookup(t, new, old[i - 1].key)] = old[i - 1]]
    IN  copy[n]

\* Mutated form: deleted slots do not count.
size_by_count(f, c) ==
    IF 3 * c >= 2 * size THEN 2 * size
    ELSE IF size > HASH_MINSIZE /\ 4 * c <= size THEN size \div 2 ELSE size
\* The size hash_update chooses for f filled and c active slots.
new_size(f, c) ==
    IF 3 * f >= 2 * size THEN 2 * size
    ELSE IF size > HASH_MINSIZE /\ 4 * c <= size THEN size \div 2 ELSE size

active(t) == {i \in DOMAIN t : t[i].mode = "ACTIVE"}

\* hash_update after the slots have become t.
hash_update(t, f, c) ==
    LET n == new_size(f, c)
        unresized == table' = t /\ fill' = f /\ count' = c /\ size' = size
    IN  \/ n = size /\ unresized /\ UNCHANGED failures
        \/ n # size /\ failures < MaxFailures /\ unresized /\ failures' = failures + 1
        \/ /\ n # size
           /\ size' = n
           /\ table' = hash_copy(t, size, n)
           /\ fill' = Cardinality(active(t))
           /\ count' = Cardinality(active(t))
           /\ UNCHANGED failures

-----------------------------------------------------------------------------
Init ==
    /\ size = HASH_MINSIZE
    /\ table = hash_initialize(HASH_MINSIZE)
    /\ fill = 0 /\ count = 0
    /\ failures = 0

\* hash_set of a key that is present.
hash_set_present(k, v) ==
    /\ slot_of(k).mode = "ACTIVE"
    /\ table' = [table EXCEPT ![hash_lookup(table, size, k)].value = v]
    /\ UNCHANGED <<size, fill, count, failures>>

\* hash_set of a key that is absent.
hash_set_absent(k, v) ==
    LET i == hash_lookup(table, size, k)
    IN  /\ table[i].mode # "ACTIVE"
        /\ hash_update([table EXCEPT ![i] = ActiveSlot(k, v)],
                       IF table[i].mode = "EMPTY" THEN fill + 1 ELSE fill, count + 1)

hash_del(k) ==
    LET i == hash_lookup(table, size, k)
    IN  /\ table[i].mode = "ACTIVE"
        /\ hash_update([table EXCEPT ![i] = DeletedSlot], fill, count - 1)

Next ==
    \E k \in Key :
        \/ hash_del(k)
        \/ \E v \in Value : hash_set_present(k, v) \/ hash_set_absent(k, v)

Spec == Init /\ [][Next]_vars

-----------------------------------------------------------------------------
(* Properties *)

Slot == [mode : {"EMPTY", "ACTIVE", "DELETED"}, key : Key \cup {NoKey}, value : Value \cup {None}]

\* The table has as many slots as mask says, a power of two not below
\* HASH_MINSIZE, and the counters are within it.
HashTypeOK ==
    /\ \E n \in 0..size : size = HASH_MINSIZE * pow2[n]
    /\ table \in [0..(size - 1) -> Slot]
    /\ fill \in 0..size /\ count \in 0..fill
    /\ failures \in 0..MaxFailures

\* hash_lookup ends for every key, present or not: resizing keeps an empty slot
\* however many deleted slots sets and deletes leave behind, also when the heap
\* refused to let the table grow before.
LookupEnds == \A k \in Key : hash_lookup(table, size, k) # Nowhere

\* fill and count are the numbers that hash.h documents, through reuse of
\* deleted slots and resizing.
CountsExact ==
    /\ fill = Cardinality({i \in DOMAIN table : table[i].mode # "EMPTY"})
    /\ count = Cardinality(active(table))

\* No key is in two slots, and every key in the table is found where it is.
KeysFound == \A i \in active(table) : hash_lookup(table, size, table[i].key) = i

\* Slots, keys and counters agree after any sequence of sets, deletes, resizings
\* and refused resizings.
TableConsistent == HashTypeOK /\ CountsExact /\ KeysFound

Map == INSTANCE KeyMap WITH contents <- [k \in Key |-> hash_get(k)]

\* The table implements the map of hash.h: no resizing, collision or reuse of a
\* slot loses, revives or changes the value of any other key.
ImplementsMap == Map!Spec

=============================================================================
