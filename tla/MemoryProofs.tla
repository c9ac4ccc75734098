---------------------------- MODULE MemoryProofs ----------------------------
(***************************************************************************)
(* Address spaces and shared pages are right for every layout, number of   *)
(* processes and keys that the assumptions of Memory allow.  First lemmas  *)
(* about the operators of Memory: what map_zone, unmap_zone and            *)
(* free_frames do to one address space, and what start_task builds.        *)
(***************************************************************************)
EXTENDS Memory, PrioQueueProofs, FiniteSetTheorems

-----------------------------------------------------------------------------
(* Arithmetic *)

LEMMA DivMod ==
    ASSUME NEW a \in Nat, NEW p \in Nat, p > 0
    PROVE  /\ a \div p \in Nat /\ a % p \in 0..(p - 1)
           /\ a = p * (a \div p) + (a % p)
  OBVIOUS

LEMMA DivUnique ==
    ASSUME NEW q \in Nat, NEW p \in Nat, p > 0, NEW r \in 0..(p - 1)
    PROVE  (p * q + r) \div p = q /\ (p * q + r) % p = r
<1> DEFINE a == p * q + r
           d == a \div p
<1>1. a \in Nat
  OBVIOUS
<1>2. d \in Nat /\ a % p \in 0..(p - 1) /\ a = p * d + (a % p)
  <2> HIDE DEF a
  <2> QED BY <1>1, DivMod DEF d
<1>3. d = q
  <2>1. CASE d < q
    <3>1. d + 1 <= q
      BY <2>1, <1>2
    <3>2. p * (d + 1) <= p * q
      BY <3>1, <1>2
    <3>3. p * (d + 1) = p * d + p
      BY <1>2
    <3> QED BY <3>2, <3>3, <1>2
  <2>2. CASE q < d
    <3>1. q + 1 <= d
      BY <2>2, <1>2
    <3>2. p * (q + 1) <= p * d
      BY <3>1, <1>2
    <3>3. p * (q + 1) = p * q + p
      OBVIOUS
    <3> QED BY <3>2, <3>3, <1>2
  <2> QED BY <2>1, <2>2, <1>2
<1>4. QED
  BY <1>2, <1>3

\* A number is at most q exactly if its quotient is.
LEMMA DivBound ==
    ASSUME NEW a \in Nat, NEW p \in Nat, p > 0, NEW q \in Nat
    PROVE  a < p * q <=> a \div p < q
<1> DEFINE d == a \div p
<1>1. d \in Nat /\ a % p \in 0..(p - 1) /\ a = p * d + (a % p)
  BY DivMod
<1>2. ASSUME d < q PROVE a < p * q
  <2>1. d + 1 <= q
    BY <1>1, <1>2
  <2>2. p * (d + 1) <= p * q
    BY <2>1, <1>1
  <2>3. p * (d + 1) = p * d + p
    BY <1>1
  <2> HIDE DEF d
  <2> QED BY <2>2, <2>3, <1>1
<1>3. ASSUME ~(d < q) PROVE ~(a < p * q)
  <2>1. p * q <= p * d
    BY <1>1, <1>3
  <2> HIDE DEF d
  <2> QED BY <2>1, <1>1
<1>4. QED
  BY <1>2, <1>3

-----------------------------------------------------------------------------
(* Pages, tables and entries *)

PTE == [frame : Nat, rw : BOOLEAN, us : BOOLEAN]

\* The pages and the directory entries of the process, and the entries of a table.
UserPages == (KERNEL_ENTRIES * PT_ENTRIES)..((PD_ENTRIES * PT_ENTRIES) - 1)
UserTables == KERNEL_ENTRIES..(PD_ENTRIES - 1)
Slots == 0..(PT_ENTRIES - 1)

\* What map_zone writes.
UserEntry(f) == Entry(f, TRUE, TRUE)

LEMMA Layout ==
    /\ PAGE_SIZE \in Nat /\ PAGE_SIZE > 0 /\ PT_ENTRIES \in Nat /\ PT_ENTRIES > 0
    /\ PD_ENTRIES \in Nat /\ KERNEL_ENTRIES \in Nat
    /\ KERNEL_ENTRIES * PT_ENTRIES \in Nat /\ PD_ENTRIES * PT_ENTRIES \in Nat
    /\ Frames \in Nat /\ KernelFrames \in Nat /\ KERNEL_ENTRIES < KernelFrames
    /\ Managed \subseteq Nat /\ Frames \notin Managed
    /\ USER_START \in Nat /\ USER_STACK_END \in Nat
    /\ USER_START >= KERNEL_ENTRIES * PT_ENTRIES
    /\ PAGE_MAX \in Nat /\ USER_STACK_END + PAGE_MAX <= PD_ENTRIES * PT_ENTRIES
    /\ PAGE_MAX > 0
  BY MemoryLayout DEF Managed

LEMMA Entries ==
    /\ Absent \notin PTE
    /\ \A f \in Nat : UserEntry(f) \in PTE /\ UserEntry(f).frame = f
                      /\ UserEntry(f).us = TRUE /\ UserEntry(f) # Absent
<1>1. \A x \in PTE : DOMAIN x = {"frame", "rw", "us"}
  BY DEF PTE
<1>2. DOMAIN Absent = {}
  BY DEF Absent
<1>3. "frame" \in {"frame", "rw", "us"}
  OBVIOUS
<1>4. Absent \notin PTE
  BY <1>1, <1>2, <1>3
<1>5. \A f \in Nat : UserEntry(f) \in PTE /\ UserEntry(f).frame = f /\ UserEntry(f).us = TRUE
  BY DEF UserEntry, Entry, PTE
<1>6. QED
  BY <1>4, <1>5

\* A page of the process is an entry of one of its tables.
LEMMA PageIndex ==
    ASSUME NEW v \in UserPages
    PROVE  /\ v \in Nat /\ pd_index(v) \in UserTables /\ pt_index(v) \in Slots
           /\ \A w \in UserPages :
                pd_index(w) = pd_index(v) /\ pt_index(w) = pt_index(v) => w = v
<1>1. \A w \in UserPages : /\ w \in Nat /\ pd_index(w) \in Nat /\ pt_index(w) \in Slots
                           /\ w = PT_ENTRIES * pd_index(w) + pt_index(w)
  BY Layout, DivMod DEF UserPages, pd_index, pt_index, Slots
<1>2. ~(v < PT_ENTRIES * KERNEL_ENTRIES) /\ v < PT_ENTRIES * PD_ENTRIES
  BY Layout DEF UserPages
<1>3. ~(pd_index(v) < KERNEL_ENTRIES) /\ pd_index(v) < PD_ENTRIES
  BY <1>1, <1>2, Layout, DivBound DEF pd_index
<1>4. QED
  BY <1>1, <1>3, Layout DEF UserTables

-----------------------------------------------------------------------------
(* An address space in memory *)

IsMem(m) ==
    /\ m = [content |-> m.content, used |-> m.used]
    /\ DOMAIN m.content = Managed

\* The frames of the tables of a directory.
TablesIn(m, d) ==
    {m.content[d][i].frame : i \in {j \in KERNEL_ENTRIES..(PD_ENTRIES - 1) : m.content[d][j] # Absent}}

\* d is a directory with tables of its own, all in frames that are in use.
IsSpace(m, d) ==
    /\ d \in m.used
    /\ m.content[d] \in [0..(PD_ENTRIES - 1) -> PTE \cup {Absent}]
    /\ \A i \in 0..(KERNEL_ENTRIES - 1) : m.content[d][i] = pgdir[i]
    /\ \A i \in UserTables : m.content[d][i] # Absent =>
          /\ m.content[d][i].frame \in m.used \ {d}
          /\ m.content[m.content[d][i].frame] \in [Slots -> PTE \cup {Absent}]
    /\ \A i, j \in UserTables :
          /\ m.content[d][i] # Absent /\ m.content[d][j] # Absent
          /\ m.content[d][i].frame = m.content[d][j].frame
          => i = j

\* Entry j of table i.
At(m, d, i, j) ==
    IF m.content[d][i] = Absent THEN Absent ELSE m.content[m.content[d][i].frame][j]

LEMMA WalkAt ==
    ASSUME NEW m, IsMem(m), Fits(m), NEW d, IsSpace(m, d), NEW v \in UserPages
    PROVE  Walk(m, d, v) = At(m, d, pd_index(v), pt_index(v))
<1>1. pd_index(v) \in UserTables
  BY PageIndex
<1>2. m.content[d][pd_index(v)] # Absent => m.content[d][pd_index(v)].frame \in DOMAIN m.content
  BY <1>1 DEF IsMem, Fits, IsSpace
<1>3. QED
  BY <1>2 DEF Walk, At, Table

\* Entry j of table i becomes e.
SetAt(m, d, i, j, e) == [m EXCEPT !.content[m.content[d][i].frame][j] = e]

LEMMA SetEntry ==
    ASSUME NEW m, IsMem(m), Fits(m), NEW d, IsSpace(m, d), NEW i \in UserTables,
           m.content[d][i] # Absent, NEW j \in Slots, NEW e \in PTE \cup {Absent}, NEW m2,
           m2 = SetAt(m, d, i, j, e)
    PROVE  /\ IsMem(m2) /\ m2.used = m.used /\ IsSpace(m2, d)
           /\ m2.content[d] = m.content[d]
           /\ \A a \in UserTables, b \in Slots :
                 At(m2, d, a, b) = IF a = i /\ b = j THEN e ELSE At(m, d, a, b)
           /\ \A g \in Managed : g # m.content[d][i].frame => m2.content[g] = m.content[g]
<1> DEFINE t == m.content[d][i].frame
<1>1. /\ t \in m.used \ {d} /\ m.content[t] \in [Slots -> PTE \cup {Absent}]
      /\ t \in Managed /\ d \in Managed
  BY DEF IsSpace, Fits
<1>2. /\ IsMem(m2) /\ m2.used = m.used
      /\ m2.content[t] = [m.content[t] EXCEPT ![j] = e]
      /\ \A g \in Managed : g # t => m2.content[g] = m.content[g]
  BY <1>1 DEF IsMem, SetAt
<1>3. m2.content[d] = m.content[d]
  BY <1>1, <1>2
<1>4. m2.content[t] \in [Slots -> PTE \cup {Absent}]
  BY <1>1, <1>2
<1>5. \A a \in UserTables : m.content[d][a] # Absent => m.content[d][a].frame \in Managed
  BY DEF IsSpace, Fits
<1>6. IsSpace(m2, d)
  <2>1. ASSUME NEW a \in UserTables, m2.content[d][a] # Absent
        PROVE  /\ m2.content[d][a].frame \in m2.used \ {d}
               /\ m2.content[m2.content[d][a].frame] \in [Slots -> PTE \cup {Absent}]
    <3> DEFINE f == m.content[d][a].frame
    <3>1. f \in m.used \ {d} /\ m.content[f] \in [Slots -> PTE \cup {Absent}]
      BY <1>3, <2>1 DEF IsSpace
    <3>2. m2.content[f] = m.content[f] \/ f = t
      BY <1>2, <1>5, <1>3, <2>1
    <3>3. QED
      BY <3>1, <3>2, <1>2, <1>3, <1>4
  <2>2. /\ d \in m.used /\ m.content[d] \in [0..(PD_ENTRIES - 1) -> PTE \cup {Absent}]
        /\ \A a \in 0..(KERNEL_ENTRIES - 1) : m.content[d][a] = pgdir[a]
    BY DEF IsSpace
  <2>3. \A a, b \in UserTables :
              /\ m.content[d][a] # Absent /\ m.content[d][b] # Absent
              /\ m.content[d][a].frame = m.content[d][b].frame
              => a = b
    BY DEF IsSpace
  <2>4. d \in m2.used /\ m2.content[d] \in [0..(PD_ENTRIES - 1) -> PTE \cup {Absent}]
    BY <2>2, <1>2, <1>3
  <2>5. \A a \in 0..(KERNEL_ENTRIES - 1) : m2.content[d][a] = pgdir[a]
    BY <2>2, <1>3
  <2>6. \A a, b \in UserTables :
              /\ m2.content[d][a] # Absent /\ m2.content[d][b] # Absent
              /\ m2.content[d][a].frame = m2.content[d][b].frame
              => a = b
    BY <2>3, <1>3
  <2>7. QED
    BY <2>1, <2>4, <2>5, <2>6 DEF IsSpace
<1>7. ASSUME NEW a \in UserTables, NEW b \in Slots
      PROVE  At(m2, d, a, b) = IF a = i /\ b = j THEN e ELSE At(m, d, a, b)
  <2>1. CASE m.content[d][a] = Absent
    BY <2>1, <1>3 DEF At
  <2>2. CASE m.content[d][a] # Absent /\ a # i
    <3>1. m.content[d][a].frame # t
      BY <2>2 DEF IsSpace
    <3>2. m2.content[m.content[d][a].frame] = m.content[m.content[d][a].frame]
      BY <3>1, <1>2, <1>5, <2>2
    <3>3. At(m2, d, a, b) = m2.content[m.content[d][a].frame][b]
      BY <1>3, <2>2 DEF At
    <3>4. At(m, d, a, b) = m.content[m.content[d][a].frame][b]
      BY <2>2 DEF At
    <3>5. QED
      BY <3>2, <3>3, <3>4, <2>2
  <2>3. CASE a = i
    <3>1. At(m2, d, a, b) = m2.content[t][b] /\ At(m, d, a, b) = m.content[t][b]
      BY <2>3, <1>3 DEF At
    <3>2. m2.content[t][b] = IF b = j THEN e ELSE m.content[t][b]
      BY <1>1, <1>2
    <3>3. QED
      BY <2>3, <3>1, <3>2
  <2>4. QED
    BY <2>1, <2>2, <2>3
<1>8. QED
  BY <1>2, <1>3, <1>6, <1>7

\* The frame t becomes table i, with no entries.
WithTable(m, d, i, t) ==
    [content |-> [m.content EXCEPT ![t] = Blank(PT_ENTRIES), ![d][i] = UserEntry(t)],
     used    |-> m.used \cup {t}]

\* A new, empty table changes no translation.
LEMMA AddTable ==
    ASSUME NEW m, IsMem(m), Fits(m), NEW d, IsSpace(m, d), NEW i \in UserTables,
           m.content[d][i] = Absent, NEW t \in Managed, t \notin m.used, NEW m2,
           m2 = WithTable(m, d, i, t)
    PROVE  /\ IsMem(m2) /\ IsSpace(m2, d)
           /\ m2.content[d][i] # Absent /\ m2.content[d][i].frame = t
           /\ TablesIn(m2, d) = TablesIn(m, d) \cup {t}
           /\ \A a \in UserTables, b \in Slots : At(m2, d, a, b) = At(m, d, a, b)
           /\ \A g \in m.used : g # d => m2.content[g] = m.content[g]
<1>1. d \in m.used /\ d \in Managed /\ d # t /\ m.used \subseteq Managed
      /\ m.content[d] \in [0..(PD_ENTRIES - 1) -> PTE \cup {Absent}]
      /\ UserTables \subseteq 0..(PD_ENTRIES - 1) /\ t \in Nat
  BY Layout, SMTT(40) DEF IsSpace, Fits, UserTables
<1>2. /\ IsMem(m2) /\ m2.used = m.used \cup {t}
      /\ m2.content[t] = Blank(PT_ENTRIES)
      /\ m2.content[d] = [m.content[d] EXCEPT ![i] = UserEntry(t)]
      /\ \A g \in Managed : g # t /\ g # d => m2.content[g] = m.content[g]
  BY <1>1 DEF IsMem, WithTable
<1>3. Blank(PT_ENTRIES) \in [Slots -> PTE \cup {Absent}]
      /\ \A b \in Slots : Blank(PT_ENTRIES)[b] = Absent
  BY DEF Blank, Slots
<1>4. /\ m2.content[d][i] = UserEntry(t)
      /\ \A a \in UserTables : a # i => m2.content[d][a] = m.content[d][a]
      /\ m2.content[d] \in [0..(PD_ENTRIES - 1) -> PTE \cup {Absent}]
  <2>1. UserEntry(t) \in PTE
    BY <1>1, Entries
  <2>2. i \in 0..(PD_ENTRIES - 1) /\ \A a \in UserTables : a \in 0..(PD_ENTRIES - 1)
    BY <1>1
  <2>3. m2.content[d][i] = UserEntry(t)
    BY <2>2, <1>1, <1>2
  <2>4. \A a \in UserTables : a # i => m2.content[d][a] = m.content[d][a]
    BY <2>2, <1>1, <1>2
  <2>5. m2.content[d] \in [0..(PD_ENTRIES - 1) -> PTE \cup {Absent}]
    <3> DEFINE c == m.content[d]
               c2 == m2.content[d]
    <3>1. c \in [0..(PD_ENTRIES - 1) -> PTE \cup {Absent}] /\ c2 = [c EXCEPT ![i] = UserEntry(t)]
      BY <1>1, <1>2
    <3> HIDE DEF c, c2
    <3>2. c2 \in [0..(PD_ENTRIES - 1) -> PTE \cup {Absent}]
      BY <3>1, <2>1, <2>2
    <3>3. QED
      BY <3>2 DEF c2
  <2>6. QED
    BY <2>3, <2>4, <2>5
<1>5. UserEntry(t) # Absent /\ UserEntry(t).frame = t
  BY <1>1, Entries
<1>6. \A a \in UserTables : m.content[d][a] # Absent =>
        /\ m.content[d][a].frame \in m.used \ {d} /\ m.content[d][a].frame # t
        /\ m.content[d][a].frame \in Managed
        /\ m.content[m.content[d][a].frame] \in [Slots -> PTE \cup {Absent}]
  BY <1>1 DEF IsSpace
<1>7. \A g \in m.used : g # d => m2.content[g] = m.content[g]
  BY <1>1, <1>2
<1>8. IsSpace(m2, d)
  <2>1. ASSUME NEW a \in UserTables, m2.content[d][a] # Absent
        PROVE  /\ m2.content[d][a].frame \in m2.used \ {d}
               /\ m2.content[m2.content[d][a].frame] \in [Slots -> PTE \cup {Absent}]
    <3>1. CASE a = i
      BY <3>1, <1>1, <1>2, <1>3, <1>4, <1>5
    <3>2. CASE a # i
      <4>1. m2.content[d][a] = m.content[d][a]
        BY <3>2, <1>4
      <4>2. m2.content[m.content[d][a].frame] = m.content[m.content[d][a].frame]
        BY <4>1, <2>1, <1>6, <1>7
      <4>3. QED
        BY <4>1, <4>2, <2>1, <1>2, <1>6
    <3>3. QED
      BY <3>1, <3>2
  <2>2. ASSUME NEW a \in UserTables, NEW b \in UserTables,
               m2.content[d][a] # Absent, m2.content[d][b] # Absent,
               m2.content[d][a].frame = m2.content[d][b].frame
        PROVE  a = b
    <3>1. CASE a = i \/ b = i
      BY <3>1, <2>2, <1>4, <1>5, <1>6
    <3>2. CASE a # i /\ b # i
      BY <3>2, <2>2, <1>4 DEF IsSpace
    <3>3. QED
      BY <3>1, <3>2
  <2>3. \A a \in 0..(KERNEL_ENTRIES - 1) : m2.content[d][a] = pgdir[a]
    <3>1. ASSUME NEW a \in 0..(KERNEL_ENTRIES - 1) PROVE m2.content[d][a] = pgdir[a]
      <4>1. a # i /\ a \in 0..(PD_ENTRIES - 1)
        BY Layout DEF UserTables
      <4>2. m2.content[d][a] = m.content[d][a]
        BY <4>1, <1>1, <1>2
      <4>3. QED
        BY <4>2 DEF IsSpace
    <3>2. QED
      BY <3>1
  <2>4. QED
    BY <2>1, <2>2, <2>3, <1>1, <1>2, <1>4, SMTT(40) DEF IsSpace
<1>9. ASSUME NEW a \in UserTables, NEW b \in Slots PROVE At(m2, d, a, b) = At(m, d, a, b)
  <2>1. CASE a = i
    BY <2>1, <1>2, <1>3, <1>4, <1>5 DEF At
  <2>2. CASE a # i /\ m.content[d][a] = Absent
    BY <2>2, <1>4 DEF At
  <2>3. CASE a # i /\ m.content[d][a] # Absent
    <3>1. m2.content[d][a] = m.content[d][a]
      BY <2>3, <1>4
    <3>2. m2.content[m.content[d][a].frame] = m.content[m.content[d][a].frame]
      BY <2>3, <1>6, <1>7
    <3>3. At(m2, d, a, b) = m2.content[m.content[d][a].frame][b]
      BY <2>3, <3>1 DEF At
    <3>4. QED
      BY <2>3, <3>2, <3>3 DEF At
  <2>4. QED
    BY <2>1, <2>2, <2>3
<1>10. TablesIn(m2, d) = TablesIn(m, d) \cup {t}
  <2>1. \A f : f \in TablesIn(m2, d) <=>
               \E a \in UserTables : m2.content[d][a] # Absent /\ f = m2.content[d][a].frame
    BY DEF TablesIn, UserTables
  <2>2. \A f : f \in TablesIn(m, d) <=>
               \E a \in UserTables : m.content[d][a] # Absent /\ f = m.content[d][a].frame
    BY DEF TablesIn, UserTables
  <2>3. ASSUME NEW a \in UserTables, m2.content[d][a] # Absent
        PROVE  m2.content[d][a].frame \in TablesIn(m, d) \cup {t}
    BY <2>2, <2>3, <1>4, <1>5
  <2>4. ASSUME NEW a \in UserTables, m.content[d][a] # Absent
        PROVE  m.content[d][a].frame \in TablesIn(m2, d)
    <3>1. a # i /\ m2.content[d][a] = m.content[d][a]
      BY <2>4, <1>4
    <3>2. QED
      BY <2>1, <2>4, <3>1
  <2>5. t \in TablesIn(m2, d)
    BY <2>1, <1>4, <1>5
  <2>6. TablesIn(m2, d) \subseteq TablesIn(m, d) \cup {t}
    <3> SUFFICES ASSUME NEW f \in TablesIn(m2, d) PROVE f \in TablesIn(m, d) \cup {t}
      OBVIOUS
    <3>1. PICK a \in UserTables : m2.content[d][a] # Absent /\ f = m2.content[d][a].frame
      BY <2>1
    <3>2. QED
      BY <3>1, <2>3
  <2>7. TablesIn(m, d) \cup {t} \subseteq TablesIn(m2, d)
    <3> SUFFICES ASSUME NEW f \in TablesIn(m, d) PROVE f \in TablesIn(m2, d)
      BY <2>5
    <3>1. PICK a \in UserTables : m.content[d][a] # Absent /\ f = m.content[d][a].frame
      BY <2>2
    <3>2. QED
      BY <3>1, <2>4
  <2>8. QED
    BY <2>6, <2>7
<1>11. QED
  BY <1>2, <1>4, <1>5, <1>7, <1>8, <1>9, <1>10

\* An address space is not affected by what happens to other frames.
LEMMA SpaceKept ==
    ASSUME NEW m, IsMem(m), Fits(m), NEW m2, IsMem(m2), Fits(m2), NEW d, IsSpace(m, d),
           d \in m2.used, TablesIn(m, d) \subseteq m2.used, m2.content[d] = m.content[d],
           \A g \in TablesIn(m, d) : m2.content[g] = m.content[g]
    PROVE  /\ IsSpace(m2, d) /\ TablesIn(m2, d) = TablesIn(m, d)
           /\ \A v \in UserPages : Walk(m2, d, v) = Walk(m, d, v)
<1>1. TablesIn(m2, d) = TablesIn(m, d)
  BY DEF TablesIn
<1>2. \A i \in UserTables : m.content[d][i] # Absent => m.content[d][i].frame \in TablesIn(m, d)
  BY DEF TablesIn, UserTables
<1>3. ASSUME NEW i \in UserTables, m2.content[d][i] # Absent
      PROVE  /\ m2.content[d][i].frame \in m2.used \ {d}
             /\ m2.content[m2.content[d][i].frame] \in [Slots -> PTE \cup {Absent}]
  <2>1. m.content[d][i].frame \in TablesIn(m, d) /\ m2.content[d][i] = m.content[d][i]
    BY <1>2, <1>3
  <2>2. m.content[d][i].frame # d /\ m.content[m.content[d][i].frame] \in [Slots -> PTE \cup {Absent}]
    BY <2>1, <1>3 DEF IsSpace
  <2>3. QED
    BY <2>1, <2>2
<1>4. IsSpace(m2, d)
  <2>1. \A i, j \in UserTables :
              /\ m2.content[d][i] # Absent /\ m2.content[d][j] # Absent
              /\ m2.content[d][i].frame = m2.content[d][j].frame
              => i = j
    BY DEF IsSpace
  <2>2. m2.content[d] \in [0..(PD_ENTRIES - 1) -> PTE \cup {Absent}]
        /\ \A i \in 0..(KERNEL_ENTRIES - 1) : m2.content[d][i] = pgdir[i]
    BY DEF IsSpace
  <2>3. QED
    BY <1>3, <2>1, <2>2 DEF IsSpace
<1>5. ASSUME NEW v \in UserPages PROVE Walk(m2, d, v) = Walk(m, d, v)
  <2>1. Walk(m2, d, v) = At(m2, d, pd_index(v), pt_index(v))
        /\ Walk(m, d, v) = At(m, d, pd_index(v), pt_index(v))
    BY <1>4, WalkAt
  <2>2. PICK i \in UserTables : i = pd_index(v)
    BY PageIndex
  <2>3. At(m2, d, i, pt_index(v)) = At(m, d, i, pt_index(v))
    BY <1>2 DEF At
  <2>4. QED
    BY <2>1, <2>2, <2>3
<1>6. QED
  BY <1>1, <1>4, <1>5

-----------------------------------------------------------------------------
(* Frames that are handed out *)

\* The parts of memory: one for each process and one for the shared pages.
Parts == 0..Cardinality(Proc)

LEMMA PartsType ==
    /\ Cardinality(Proc) \in Nat /\ Proc \subseteq Parts /\ Shared \in Parts
    /\ \A p \in Parts : Part(p) \subseteq Nat
<1>1. Cardinality(Proc) \in Nat
  BY MemoryLayout, FS_CardinalityType
<1>2. Proc = 0..(Cardinality(Proc) - 1)
  BY MemoryLayout
<1>3. PartSize \in Nat
  <2> DEFINE a == Frames - KernelFrames
             n == Cardinality(Proc) + 1
  <2>1. a \in Nat /\ n \in Nat /\ n > 0
    BY <1>1, MemoryLayout
  <2> HIDE DEF a, n
  <2>2. a \div n \in Nat
    BY <2>1, DivMod
  <2>3. QED
    BY <2>2 DEF PartSize, a, n
<1>4. ASSUME NEW p \in Parts PROVE Part(p) \subseteq Nat
  <2>1. p \in Nat /\ p * PartSize \in Nat
    BY <1>1, <1>3 DEF Parts
  <2>2. KernelFrames + p * PartSize \in Nat
    BY <2>1, Layout
  <2>3. QED
    BY <2>2, <1>3 DEF Part, Block
<1>5. QED
  BY <1>1, <1>2, <1>4 DEF Parts, Shared

LEMMA FirstFreeIs ==
    ASSUME NEW m, NEW n \in Nat \ {0}, NEW p \in Parts
    PROVE  /\ FirstFree(m, n, p) \in Nat
           /\ \/ FirstFree(m, n, p) = Frames
              \/ Block(<<FirstFree(m, n, p), n>>) \cap m.used = {}
<1> DEFINE S == {f \in Part(p) : Block(<<f, n>>) \subseteq Part(p) \ m.used} \cup {Frames}
<1>1. S \subseteq Nat /\ S # {}
  BY PartsType, Layout
<1>2. PICK x \in S : \A y \in S : x <= y
  <2> HIDE DEF S
  <2> QED BY <1>1, LeastNat
<1>3. FirstFree(m, n, p) = Min(S)
  BY DEF FirstFree
<1>4. Min(S) \in S
  <2> HIDE DEF S
  <2> QED BY <1>2 DEF Min
<1>5. QED
  BY <1>1, <1>3, <1>4

\* What Fits tells about the frames just handed out: they are nobody else's.
LEMMA AllocFrames ==
    ASSUME NEW m, IsMem(m), NEW n \in Nat \ {0}, NEW p \in Parts, NEW f, f = FirstFree(m, n, p),
           NEW m2, m2 = alloc_physical_page(m, n, p)
    PROVE  /\ IsMem(m2) /\ m2.content = m.content /\ f \in Nat
           /\ m2.used = m.used \cup Block(<<f, n>>)
           /\ Fits(m2) => /\ Fits(m) /\ Block(<<f, n>>) \subseteq Managed
                          /\ Block(<<f, n>>) \cap m.used = {} /\ f \in Block(<<f, n>>)
<1>1. f \in Nat /\ (f = Frames \/ Block(<<f, n>>) \cap m.used = {})
  BY FirstFreeIs
<1>2. IsMem(m2) /\ m2.content = m.content /\ m2.used = m.used \cup Block(<<f, n>>)
  BY DEF IsMem, alloc_physical_page
<1>3. f \in Block(<<f, n>>)
  BY <1>1 DEF Block
<1>4. QED
  BY <1>1, <1>2, <1>3, Layout DEF Fits

LEMMA OneFrame ==
    ASSUME NEW f \in Nat
    PROVE  Block(<<f, 1>>) = {f}
  BY DEF Block

-----------------------------------------------------------------------------
(* map_page and map_zone *)

\* m2 differs from m by the tables and translations of the pages from first to
\* last in the directory d: they lie in the frames from base on.
Mapped(m, m2, d, first, last, base) ==
    /\ IsSpace(m2, d)
    /\ TablesIn(m2, d) = TablesIn(m, d) \cup (m2.used \ m.used)
    /\ \A g \in m.used : g # d /\ g \notin TablesIn(m, d) => m2.content[g] = m.content[g]
    /\ \A v \in UserPages :
          Walk(m2, d, v) = IF first <= v /\ v <= last THEN UserEntry(base + (v - first))
                                                      ELSE Walk(m, d, v)

\* Writing one entry of an existing table.
LEMMA WriteEntry ==
    ASSUME NEW m, IsMem(m), Fits(m), NEW d, IsSpace(m, d), NEW v \in UserPages,
           m.content[d][pd_index(v)] # Absent, NEW e \in PTE \cup {Absent}, NEW m2,
           m2 = SetAt(m, d, pd_index(v), pt_index(v), e)
    PROVE  /\ IsMem(m2) /\ m2.used = m.used /\ IsSpace(m2, d)
           /\ TablesIn(m2, d) = TablesIn(m, d)
           /\ \A g \in m.used : g \notin TablesIn(m, d) => m2.content[g] = m.content[g]
           /\ \A w \in UserPages : Walk(m2, d, w) = IF w = v THEN e ELSE Walk(m, d, w)
<1>1. pd_index(v) \in UserTables /\ pt_index(v) \in Slots
  BY PageIndex
<1>2. /\ IsMem(m2) /\ m2.used = m.used /\ IsSpace(m2, d) /\ m2.content[d] = m.content[d]
      /\ \A a \in UserTables, b \in Slots :
            At(m2, d, a, b) = IF a = pd_index(v) /\ b = pt_index(v) THEN e ELSE At(m, d, a, b)
      /\ \A g \in Managed : g # m.content[d][pd_index(v)].frame => m2.content[g] = m.content[g]
  <2>1. PICK i \in UserTables, j \in Slots : i = pd_index(v) /\ j = pt_index(v)
    BY <1>1
  <2>2. m.content[d][i] # Absent /\ m2 = SetAt(m, d, i, j, e)
    BY <2>1
  <2>3. /\ IsMem(m2) /\ m2.used = m.used /\ IsSpace(m2, d) /\ m2.content[d] = m.content[d]
        /\ \A a \in UserTables, b \in Slots :
              At(m2, d, a, b) = IF a = i /\ b = j THEN e ELSE At(m, d, a, b)
        /\ \A g \in Managed : g # m.content[d][i].frame => m2.content[g] = m.content[g]
    BY <2>2, SetEntry
  <2>4. QED
    BY <2>1, <2>3
<1>3. TablesIn(m2, d) = TablesIn(m, d)
  BY <1>2 DEF TablesIn
<1>4. m.content[d][pd_index(v)].frame \in TablesIn(m, d)
  BY <1>1 DEF TablesIn, UserTables
<1>5. \A g \in m.used : g \notin TablesIn(m, d) => m2.content[g] = m.content[g]
  BY <1>2, <1>4 DEF Fits
<1>6. ASSUME NEW w \in UserPages PROVE Walk(m2, d, w) = IF w = v THEN e ELSE Walk(m, d, w)
  <2>1. pd_index(w) \in UserTables /\ pt_index(w) \in Slots
        /\ (pd_index(w) = pd_index(v) /\ pt_index(w) = pt_index(v) => w = v)
    BY PageIndex
  <2>2. Fits(m2)
    BY <1>2 DEF Fits
  <2>3. Walk(m2, d, w) = At(m2, d, pd_index(w), pt_index(w))
    BY <1>2, <2>2, WalkAt
  <2>4. Walk(m, d, w) = At(m, d, pd_index(w), pt_index(w))
    BY WalkAt
  <2>5. QED
    BY <1>2, <2>1, <2>3, <2>4
<1>7. QED
  BY <1>2, <1>3, <1>5, <1>6

\* One page.
LEMMA MapPage ==
    ASSUME NEW m, IsMem(m), NEW p \in Parts, NEW d, NEW v \in UserPages, NEW f \in Nat,
           NEW m2, m2 = map_page(m, p, d, v, f, UserFlags)
    PROVE  /\ IsMem(m2) /\ m.used \subseteq m2.used
           /\ Fits(m2) /\ IsSpace(m, d) => Mapped(m, m2, d, v, v, f)
<1> DEFINE new == FirstFree(m, 1, p)
           i == pd_index(v)
           j == pt_index(v)
           e == UserEntry(f)
           m0 == alloc_physical_page(m, 1, p)
           m1 == [m0 EXCEPT !.content[new] = Blank(PT_ENTRIES), !.content[d][i] = UserEntry(new)]
<1>0. /\ new \in Nat /\ i \in UserTables /\ j \in Slots /\ e \in PTE /\ e \in PTE \cup {Absent}
      /\ Block(<<new, 1>>) = {new} /\ v \in Nat /\ f + (v - v) = f
  <2>1. new \in Nat
    <3>1. 1 \in Nat \ {0}
      OBVIOUS
    <3>2. QED
      BY <3>1, FirstFreeIs
  <2>2. QED
    BY <2>1, PageIndex, Entries, OneFrame
<1>1. /\ IsMem(m0) /\ m0.content = m.content /\ m0.used = m.used \cup {new}
      /\ Fits(m0) => Fits(m) /\ new \in Managed /\ new \notin m.used
  <2>1. PICK g, a : g = new /\ a = m0
    OBVIOUS
  <2>2. /\ IsMem(a) /\ a.content = m.content /\ a.used = m.used \cup Block(<<g, 1>>)
        /\ Fits(a) => /\ Fits(m) /\ Block(<<g, 1>>) \subseteq Managed
                      /\ Block(<<g, 1>>) \cap m.used = {} /\ g \in Block(<<g, 1>>)
    BY <2>1, AllocFrames
  <2>3. QED
    BY <1>0, <2>1, <2>2
<1>2. /\ IsMem(m1) /\ m1.used = m0.used
      /\ m1 = WithTable(m, d, i, new)
  <2>1. m0 = [content |-> m.content, used |-> m.used \cup {new}] /\ DOMAIN m.content = Managed
    BY <1>1 DEF IsMem
  <2> HIDE DEF m0, new, i
  <2>2. m1 = WithTable(m, d, i, new)
    <3> DEFINE c1 == [m.content EXCEPT ![new] = Blank(PT_ENTRIES)]
               a == [m0 EXCEPT !.content[new] = Blank(PT_ENTRIES)]
               c2 == [c1 EXCEPT ![d][i] = UserEntry(new)]
    <3>1. a = [content |-> c1, used |-> m.used \cup {new}]
      BY <2>1
    <3>2. m1 = [a EXCEPT !.content[d][i] = UserEntry(new)]
      OBVIOUS
    <3>3. m1 = [content |-> c2, used |-> m.used \cup {new}]
      <4> HIDE DEF c1, a
      <4> QED BY <3>1, <3>2
    <3>4. c2 = [m.content EXCEPT ![new] = Blank(PT_ENTRIES), ![d][i] = UserEntry(new)]
      OBVIOUS
    <3> HIDE DEF c2, m1
    <3>5. QED
      BY <3>3, <3>4 DEF WithTable
  <2>3. IsMem(m1) /\ m1.used = m.used \cup {new}
    BY <2>1, <2>2 DEF IsMem, WithTable
  <2>4. QED
    BY <2>1, <2>2, <2>3, <1>1
<1>3. CASE m.content[d][i] = Absent
  <2>1. m2 = [m1 EXCEPT !.content[new][j] = e]
    BY <1>3 DEF map_page, UserFlags, UserEntry
  <2>2. IsMem(m2) /\ m2.used = m1.used
    <3> HIDE DEF m1, new, j, e
    <3> QED BY <2>1, <1>2 DEF IsMem
  <2>3. ASSUME Fits(m2), IsSpace(m, d) PROVE Mapped(m, m2, d, v, v, f)
    <3>1. Fits(m0) /\ Fits(m) /\ Fits(m1) /\ new \in Managed /\ new \notin m.used
      <4>1. Fits(m0) /\ Fits(m1)
        BY <2>2, <2>3, <1>2 DEF Fits
      <4>2. QED
        BY <4>1, <1>1
    <3>2. /\ IsSpace(m1, d) /\ m1.content[d][i] # Absent /\ m1.content[d][i].frame = new
          /\ TablesIn(m1, d) = TablesIn(m, d) \cup {new}
          /\ \A a \in UserTables, b \in Slots : At(m1, d, a, b) = At(m, d, a, b)
          /\ \A g \in m.used : g # d => m1.content[g] = m.content[g]
      <4> HIDE DEF m1, m0, new, i, j, e
      <4> QED BY <1>0, <1>2, <1>3, <2>3, <3>1, AddTable
    <3>3. /\ m2.used = m1.used /\ IsSpace(m2, d)
          /\ TablesIn(m2, d) = TablesIn(m1, d)
          /\ \A g \in m1.used : g \notin TablesIn(m1, d) => m2.content[g] = m1.content[g]
          /\ \A w \in UserPages : Walk(m2, d, w) = IF w = v THEN e ELSE Walk(m1, d, w)
      <4>1. m2 = SetAt(m1, d, i, j, e)
        BY <2>1, <3>2 DEF SetAt
      <4>2. m1.content[d][pd_index(v)] # Absent /\ m2 = SetAt(m1, d, pd_index(v), pt_index(v), e)
        BY <4>1, <3>2
      <4> HIDE DEF m1, m0, new, i, j, e
      <4>3. QED
        BY <4>2, <1>0, <1>2, <3>1, <3>2, WriteEntry
    <3>4. ASSUME NEW w \in UserPages PROVE Walk(m1, d, w) = Walk(m, d, w)
      <4> HIDE DEF m1, m0, new, i, j, e
      <4>1. Walk(m1, d, w) = At(m1, d, pd_index(w), pt_index(w))
        BY <1>2, <3>1, <3>2, WalkAt
      <4>2. Walk(m, d, w) = At(m, d, pd_index(w), pt_index(w))
        BY <2>3, <3>1, WalkAt
      <4>3. QED
        BY <4>1, <4>2, <3>2, PageIndex
    <3> HIDE DEF m1, m0, new, i, j
    <3>5. TablesIn(m2, d) = TablesIn(m, d) \cup (m2.used \ m.used)
      BY <3>1, <3>2, <3>3, <1>1, <1>2
    <3>6. ASSUME NEW g \in m.used, g # d, g \notin TablesIn(m, d)
          PROVE  m2.content[g] = m.content[g]
      BY <3>6, <3>1, <3>2, <3>3, <1>1, <1>2
    <3>7. ASSUME NEW w \in UserPages
          PROVE  Walk(m2, d, w) = IF v <= w /\ w <= v THEN UserEntry(f + (w - v)) ELSE Walk(m, d, w)
      <4>1. w \in Nat /\ (v <= w /\ w <= v <=> w = v)
        BY <1>0, PageIndex
      <4>2. QED
        BY <4>1, <1>0, <3>3, <3>4
    <3>8. QED
      BY <3>3, <3>5, <3>6, <3>7 DEF Mapped
  <2>4. QED
    BY <2>2, <2>3, <1>1, <1>2
<1>4. CASE m.content[d][i] # Absent
  <2>1. m2 = [m EXCEPT !.content[m.content[d][i].frame][j] = e]
    BY <1>4 DEF map_page, UserFlags, UserEntry
  <2>2. IsMem(m2) /\ m2.used = m.used
    <3> HIDE DEF i, j, e
    <3> QED BY <2>1 DEF IsMem
  <2>3. ASSUME Fits(m2), IsSpace(m, d) PROVE Mapped(m, m2, d, v, v, f)
    <3>1. Fits(m)
      BY <2>2, <2>3 DEF Fits
    <3>2. /\ IsSpace(m2, d) /\ TablesIn(m2, d) = TablesIn(m, d)
          /\ \A g \in m.used : g \notin TablesIn(m, d) => m2.content[g] = m.content[g]
          /\ \A w \in UserPages : Walk(m2, d, w) = IF w = v THEN e ELSE Walk(m, d, w)
      <4>1. m.content[d][pd_index(v)] # Absent /\ m2 = SetAt(m, d, pd_index(v), pt_index(v), e)
        BY <2>1, <1>4 DEF SetAt
      <4> HIDE DEF m1, m0, new, i, j, e
      <4>2. QED
        BY <4>1, <1>0, <2>3, <3>1, WriteEntry
    <3>3. ASSUME NEW w \in UserPages
          PROVE  Walk(m2, d, w) = IF v <= w /\ w <= v THEN UserEntry(f + (w - v)) ELSE Walk(m, d, w)
      <4>1. w \in Nat /\ (v <= w /\ w <= v <=> w = v)
        BY <1>0, PageIndex
      <4>2. QED
        BY <4>1, <1>0, <3>2
    <3>4. TablesIn(m2, d) = TablesIn(m, d) \cup (m2.used \ m.used)
      BY <3>2, <2>2
    <3>5. QED
      BY <3>2, <3>3, <3>4 DEF Mapped
  <2>4. QED
    BY <2>2, <2>3
<1>5. QED
  BY <1>3, <1>4

LEMMA MappedNext ==
    ASSUME NEW m, NEW x, NEW y, NEW d, NEW first \in Nat, NEW u \in Int, NEW base \in Nat,
           first <= u + 1, m.used \subseteq x.used, x.used \subseteq y.used,
           Mapped(m, x, d, first, u, base),
           Mapped(x, y, d, u + 1, u + 1, base + ((u + 1) - first))
    PROVE  Mapped(m, y, d, first, u + 1, base)
<1>1. /\ IsSpace(y, d) /\ TablesIn(x, d) = TablesIn(m, d) \cup (x.used \ m.used)
      /\ TablesIn(y, d) = TablesIn(x, d) \cup (y.used \ x.used)
  BY DEF Mapped
<1>2. TablesIn(y, d) = TablesIn(m, d) \cup (y.used \ m.used)
  BY <1>1
<1>3. ASSUME NEW g \in m.used, g # d, g \notin TablesIn(m, d) PROVE y.content[g] = m.content[g]
  <2>1. x.content[g] = m.content[g]
    BY <1>3 DEF Mapped
  <2>2. g \in x.used /\ g \notin TablesIn(x, d)
    BY <1>1, <1>3
  <2>3. y.content[g] = x.content[g]
    BY <2>2, <1>3 DEF Mapped
  <2>4. QED
    BY <2>1, <2>3
<1>4. ASSUME NEW v \in UserPages
      PROVE  Walk(y, d, v) = IF first <= v /\ v <= u + 1 THEN UserEntry(base + (v - first))
                                                        ELSE Walk(m, d, v)
  <2>1. v \in Nat
    BY PageIndex
  <2>2. Walk(x, d, v) = IF first <= v /\ v <= u THEN UserEntry(base + (v - first)) ELSE Walk(m, d, v)
    BY DEF Mapped
  <2>3. Walk(y, d, v) = IF u + 1 <= v /\ v <= u + 1
                        THEN UserEntry((base + ((u + 1) - first)) + (v - (u + 1))) ELSE Walk(x, d, v)
    BY DEF Mapped
  <2>4. CASE v = u + 1
    <3>1. (base + ((u + 1) - first)) + (v - (u + 1)) = base + (v - first)
      BY <2>1, <2>4
    <3>2. u + 1 <= v /\ v <= u + 1 /\ first <= v
      BY <2>4
    <3>3. QED
      BY <2>3, <3>1, <3>2
  <2>5. CASE v # u + 1
    <3>1. ~(u + 1 <= v /\ v <= u + 1) /\ (v <= u + 1 <=> v <= u)
      BY <2>1, <2>5
    <3>2. QED
      BY <2>2, <2>3, <3>1
  <2>6. QED
    BY <2>4, <2>5
<1>5. QED
  BY <1>1, <1>2, <1>3, <1>4 DEF Mapped

\* The function of map_zone.
IsZone(g, m, p, d, first, last, base) ==
    g = [v \in (first - 1)..last |->
            IF v < first THEN m ELSE map_page(g[v - 1], p, d, v, base + v - first, UserFlags)]

\* It exists: its values can be tabulated page by page.
LEMMA ZoneExists ==
    ASSUME NEW m, NEW p, NEW d, NEW base, NEW first \in Nat, NEW last \in Nat, last >= first - 1
    PROVE  \E g : IsZone(g, m, p, d, first, last, base)
<1> DEFINE Is(g, n) == g = [v \in (first - 1)..n |->
                IF v < first THEN m ELSE map_page(g[v - 1], p, d, v, base + v - first, UserFlags)]
           Bad == {n \in Nat : ~ \E g : Is(g, (first - 1) + n)}
<1>1. ASSUME Bad # {} PROVE FALSE
  <2>1. Bad \subseteq Nat
    OBVIOUS
  <2>2. PICK k \in Bad : \A n \in Bad : k <= n
    <3> HIDE DEF Bad
    <3> QED BY <1>1, <2>1, LeastNat
  <2>3. k # 0
    <3>1. Is([v \in (first - 1)..(first - 1) |-> m], first - 1)
      OBVIOUS
    <3>2. (first - 1) + 0 = first - 1
      OBVIOUS
    <3>3. 0 \notin Bad
      BY <3>1, <3>2
    <3> QED BY <3>3
  <2> DEFINE u == (first - 1) + (k - 1)
  <2>4. k \in Nat /\ k - 1 \in Nat /\ k - 1 \notin Bad /\ u \in Int /\ u + 1 = (first - 1) + k
        /\ u + 1 >= first /\ u >= first - 1
    <3>1. k \in Nat /\ k - 1 \in Nat /\ k - 1 < k
      BY <2>2, <2>3
    <3>2. k - 1 \in Bad => k <= k - 1
      BY <2>2
    <3> QED BY <3>1, <3>2
  <2>5. PICK g : Is(g, u)
    BY <2>4
  <2> HIDE DEF u
  <2> DEFINE w == u + 1
             h == [v \in (first - 1)..w |->
                     IF v = w THEN map_page(g[v - 1], p, d, v, base + v - first, UserFlags) ELSE g[v]]
  <2>6. ASSUME NEW v \in (first - 1)..w
        PROVE  h[v] = IF v < first THEN m ELSE map_page(h[v - 1], p, d, v, base + v - first, UserFlags)
    <3>1. CASE v = w
      <4>1. v - 1 \in (first - 1)..w /\ v - 1 # w /\ ~(v < first)
        BY <3>1, <2>4
      <4>2. h[v - 1] = g[v - 1]
        BY <4>1
      <4>3. h[v] = map_page(g[v - 1], p, d, v, base + v - first, UserFlags)
        BY <3>1
      <4>4. QED
        BY <4>1, <4>2, <4>3
    <3>2. CASE v # w
      <4>1. v \in (first - 1)..u /\ h[v] = g[v]
        BY <3>2, <2>4
      <4>2. g[v] = IF v < first THEN m ELSE map_page(g[v - 1], p, d, v, base + v - first, UserFlags)
        BY <4>1, <2>5
      <4>3. ~(v < first) => h[v - 1] = g[v - 1]
        <5>1. ~(v < first) => v - 1 \in (first - 1)..w /\ v - 1 # w
          BY <4>1, <2>4
        <5>2. QED
          BY <5>1
      <4> QED BY <4>1, <4>2, <4>3
    <3> QED BY <3>1, <3>2
  <2>7. Is(h, w)
    BY <2>6
  <2> QED BY <2>7, <2>2, <2>4
<1>2. last - (first - 1) \in Nat /\ (first - 1) + (last - (first - 1)) = last
  OBVIOUS
<1>3. PICK n \in Nat : (first - 1) + n = last
  BY <1>2
<1>4. PICK g : Is(g, (first - 1) + n)
  <2>1. n \notin Bad
    BY <1>1
  <2>2. QED
    BY <2>1
<1>5. Is(g, last)
  BY <1>3, <1>4
<1>6. QED
  BY <1>5 DEF IsZone

\* A zone, page by page.
LEMMA MapZone ==
    ASSUME NEW m, IsMem(m), NEW p \in Parts, NEW d, NEW vs \in Nat, NEW ve \in Nat, NEW ps \in Nat,
           NEW first \in UserPages, NEW last \in UserPages, NEW base \in Nat,
           first = vs \div PAGE_SIZE, last = ve \div PAGE_SIZE, base = ps \div PAGE_SIZE,
           first <= last, NEW m2, m2 = map_zone(m, p, d, vs, ve, ps, UserFlags)
    PROVE  /\ IsMem(m2) /\ m.used \subseteq m2.used
           /\ Fits(m2) /\ IsSpace(m, d) => Mapped(m, m2, d, first, last, base)
<1>0. /\ first \in Nat /\ last \in Nat /\ last >= first - 1
      /\ \A u \in first..last : u \in UserPages
  <2>1. first \in Nat /\ last \in Nat
    BY PageIndex
  <2>2. \A u \in first..last : u \in UserPages
    BY <2>1, Layout DEF UserPages
  <2>3. QED
    BY <2>1, <2>2
<1> DEFINE Is(g) == g = [v \in (first - 1)..last |->
                IF v < first THEN m ELSE map_page(g[v - 1], p, d, v, base + v - first, UserFlags)]
           mapped == CHOOSE g : Is(g)
<1>1. Is(mapped)
  <2>1. PICK g : IsZone(g, m, p, d, first, last, base)
    BY <1>0, ZoneExists
  <2>2. Is(g)
    BY <2>1 DEF IsZone
  <2>3. QED
    BY <2>2
<1>2. m2 = mapped[last]
  BY DEF map_zone
<1> HIDE DEF mapped
<1>3. mapped[first - 1] = m
  BY <1>0, <1>1
<1>4. \A v \in first..last :
          mapped[v] = map_page(mapped[v - 1], p, d, v, base + (v - first), UserFlags)
  <2>1. \A v \in first..last : v \in (first - 1)..last /\ ~(v < first) /\ v \in Nat
    BY <1>0
  <2>2. QED
    BY <1>1, <2>1
<1> HIDE DEF Is
<1> DEFINE Good(v) == /\ IsMem(mapped[v]) /\ m.used \subseteq mapped[v].used
                      /\ Fits(mapped[v]) /\ IsSpace(m, d) => Mapped(m, mapped[v], d, first, v, base)
           Bad == {v \in first..last : ~Good(v)}
<1>5. ASSUME NEW x, IsMem(x), m.used \subseteq x.used, NEW v \in first..last, x = mapped[v - 1],
             v > first => (Fits(x) /\ IsSpace(m, d) => Mapped(m, x, d, first, v - 1, base)),
             v = first => x = m
      PROVE  Good(v)
  <2>1. PICK y : y = mapped[v]
    OBVIOUS
  <2>2. v \in UserPages /\ v \in Nat /\ base + (v - first) \in Nat /\ first \in Nat
    BY <1>0
  <2>3. y = map_page(x, p, d, v, base + (v - first), UserFlags)
    BY <1>4, <1>5, <2>1
  <2>4. /\ IsMem(y) /\ x.used \subseteq y.used
        /\ Fits(y) /\ IsSpace(x, d) => Mapped(x, y, d, v, v, base + (v - first))
    <3>1. PICK f \in Nat : f = base + (v - first)
      BY <2>2
    <3>2. y = map_page(x, p, d, v, f, UserFlags)
      BY <2>3, <3>1
    <3>3. /\ IsMem(y) /\ x.used \subseteq y.used
          /\ Fits(y) /\ IsSpace(x, d) => Mapped(x, y, d, v, v, f)
      <4>1. IsMem(x) /\ v \in UserPages
        BY <1>5, <2>2
      <4> HIDE DEF Good, Bad
      <4>2. \A z : z = map_page(x, p, d, v, f, UserFlags) =>
                 /\ IsMem(z) /\ x.used \subseteq z.used
                 /\ Fits(z) /\ IsSpace(x, d) => Mapped(x, z, d, v, v, f)
        BY <4>1, MapPage
      <4>3. QED
        BY <4>2, <3>2
    <3>4. QED
      BY <3>1, <3>3
  <2>5. ASSUME Fits(y), IsSpace(m, d) PROVE Mapped(m, y, d, first, v, base)
    <3>1. CASE v = first
      <4>1. base + (v - first) = base
        BY <3>1, <2>2
      <4>2. QED
        BY <3>1, <4>1, <1>5, <2>4, <2>5
    <3>2. CASE v > first
      <4>1. Fits(x)
        BY <2>4, <2>5 DEF Fits
      <4>2. Mapped(m, x, d, first, v - 1, base) /\ IsSpace(x, d)
        BY <3>2, <4>1, <1>5, <2>5 DEF Mapped
      <4>3. Mapped(x, y, d, v, v, base + (v - first))
        BY <4>2, <2>4, <2>5
      <4>4. PICK u \in Int : u = v - 1
        BY <2>2
      <4>5. u + 1 = v /\ first <= u + 1
        BY <4>4, <2>2, <3>2
      <4>6. Mapped(m, x, d, first, u, base)
            /\ Mapped(x, y, d, u + 1, u + 1, base + ((u + 1) - first))
        BY <4>2, <4>3, <4>4, <4>5
      <4>7. Mapped(m, y, d, first, u + 1, base)
        BY <4>5, <4>6, <2>2, <2>4, <1>5, MappedNext
      <4>8. QED
        BY <4>5, <4>7
    <3>3. QED
      BY <3>1, <3>2, <2>2
  <2>6. m.used \subseteq y.used
    BY <1>5, <2>4
  <2>7. QED
    BY <2>1, <2>4, <2>5, <2>6
<1>6. Bad = {}
  <2>1. SUFFICES ASSUME Bad # {} PROVE FALSE
    OBVIOUS
  <2>2. Bad \subseteq Nat
    BY <1>0
  <2>3. PICK v \in Bad : \A w \in Bad : v <= w
    <3> HIDE DEF Bad
    <3> QED BY <2>1, <2>2, LeastNat
  <2>4. v \in first..last /\ ~Good(v) /\ v \in Nat /\ first \in Nat
    BY <2>3, <1>0
  <2>5. v > first => v - 1 \in first..last /\ v - 1 \notin Bad
    <3>1. v - 1 \in Bad => v <= v - 1
      BY <2>3
    <3> HIDE DEF Bad
    <3>2. QED
      BY <3>1, <2>4, <1>0
  <2>6. v > first => Good(v - 1)
    BY <2>5
  <2>7. PICK x : x = mapped[v - 1]
    OBVIOUS
  <2>8. v = first => x = m
    BY <2>7, <1>3
  <2>9. /\ IsMem(x) /\ m.used \subseteq x.used
        /\ v > first => (Fits(x) /\ IsSpace(m, d) => Mapped(m, x, d, first, v - 1, base))
    <3>1. CASE v = first
      BY <3>1, <2>8, <2>4
    <3>2. CASE v > first
      BY <3>2, <2>6, <2>7
    <3>3. QED
      BY <3>1, <3>2, <2>4
  <2> HIDE DEF Good, Bad
  <2>10. Good(v)
    BY <2>4, <2>7, <2>8, <2>9, <1>5
  <2>11. QED
    BY <2>4, <2>10
<1>7. last \in first..last
  BY <1>0
<1>8. Good(last)
  BY <1>6, <1>7
<1>9. QED
  BY <1>2, <1>8

\* m2 differs from m only in that page v of directory d is not mapped.
Unmapped(m, m2, d, v) ==
    /\ IsMem(m2) /\ m2.used = m.used /\ IsSpace(m2, d)
    /\ TablesIn(m2, d) = TablesIn(m, d)
    /\ \A g \in m.used : g \notin TablesIn(m, d) => m2.content[g] = m.content[g]
    /\ \A w \in UserPages : Walk(m2, d, w) = IF w = v THEN Absent ELSE Walk(m, d, w)

\* unmap_zone of one page, with or without a table for it.
LEMMA UnmapOne ==
    ASSUME NEW m, IsMem(m), Fits(m), NEW d, IsSpace(m, d), NEW v \in UserPages, NEW vs \in Nat,
           NEW ve \in Nat, v = vs \div PAGE_SIZE, v = ve \div PAGE_SIZE,
           NEW m2, m2 = unmap_zone(m, d, vs, ve)
    PROVE  Unmapped(m, m2, d, v)
<1> DEFINE Is(g) == g = [w \in (v - 1)..v |-> IF w < v THEN m ELSE unmap_page(g[w - 1], d, w)]
           unmapped == CHOOSE g : Is(g)
           h == [w \in (v - 1)..v |-> IF w < v THEN m ELSE unmap_page(m, d, w)]
<1>0. v \in Nat
  BY PageIndex
<1>1. Is(unmapped)
  <2>1. \A w \in (v - 1)..v : ~(w < v) => h[w - 1] = m
    BY <1>0
  <2>2. \A w \in (v - 1)..v : h[w] = IF w < v THEN m ELSE unmap_page(h[w - 1], d, w)
    <3> SUFFICES ASSUME NEW w \in (v - 1)..v
                 PROVE  h[w] = IF w < v THEN m ELSE unmap_page(h[w - 1], d, w)
      OBVIOUS
    <3>1. h[w] = IF w < v THEN m ELSE unmap_page(m, d, w)
      OBVIOUS
    <3>2. QED
      BY <2>1, <3>1
  <2>3. Is(h)
    BY <2>2
  <2>4. QED
    BY <2>3
<1>2. m2 = unmapped[v]
  BY DEF unmap_zone
<1> HIDE DEF unmapped, h
<1>3. m2 = unmap_page(m, d, v)
  <2>1. unmapped[v - 1] = m
    BY <1>0, <1>1
  <2>2. unmapped[v] = unmap_page(unmapped[v - 1], d, v)
    BY <1>0, <1>1
  <2>3. QED
    BY <2>1, <2>2, <1>2
<1>4. CASE m.content[d][pd_index(v)] = Absent
  <2>1. m2 = m
    BY <1>3, <1>4 DEF unmap_page
  <2>2. Walk(m, d, v) = Absent
    BY <1>4 DEF Walk
  <2>3. QED
    BY <2>1, <2>2 DEF Unmapped
<1>5. CASE m.content[d][pd_index(v)] # Absent
  <2>1. m2 = SetAt(m, d, pd_index(v), pt_index(v), Absent)
    BY <1>3, <1>5 DEF unmap_page, SetAt
  <2>2. Absent \in PTE \cup {Absent}
    OBVIOUS
  <2>3. \A z : z = SetAt(m, d, pd_index(v), pt_index(v), Absent) =>
           /\ IsMem(z) /\ z.used = m.used /\ IsSpace(z, d)
           /\ TablesIn(z, d) = TablesIn(m, d)
           /\ \A g \in m.used : g \notin TablesIn(m, d) => z.content[g] = m.content[g]
           /\ \A w \in UserPages : Walk(z, d, w) = IF w = v THEN Absent ELSE Walk(m, d, w)
    BY <2>2, <1>5, WriteEntry
  <2>4. QED
    BY <2>1, <2>3 DEF Unmapped
<1>6. QED
  BY <1>4, <1>5

-----------------------------------------------------------------------------
(* Frames that are given back *)

LEMMA FreeFrames ==
    ASSUME NEW m, IsMem(m), NEW fs, NEW m2, m2 = free_frames(m, fs)
    PROVE  /\ IsMem(m2) /\ m2.used = m.used \ fs
           /\ \A g \in Managed : g \notin fs => m2.content[g] = m.content[g]
  BY DEF IsMem, free_frames

LEMMA FreeSpace ==
    ASSUME NEW m, IsMem(m), NEW d, NEW c, NEW s, NEW m2,
           m2 = free_physical_page(free_physical_page(page_directory_destroy(m, d), s), c)
    PROVE  LET fs == {d} \cup TablesIn(m, d) \cup Block(c) \cup Block(s) IN
           /\ IsMem(m2) /\ m2.used = m.used \ fs
           /\ \A g \in Managed : g \notin fs => m2.content[g] = m.content[g]
<1>1. PICK f1, a : f1 = {d} \cup TablesIn(m, d) /\ a = free_frames(m, f1)
  OBVIOUS
<1>2. PICK b : b = free_frames(a, Block(s))
  OBVIOUS
<1>3. a = page_directory_destroy(m, d)
  BY <1>1 DEF page_directory_destroy, TablesIn
<1>4. m2 = free_frames(b, Block(c))
  BY <1>2, <1>3 DEF free_physical_page
<1>5. /\ IsMem(a) /\ a.used = m.used \ f1
      /\ \A g \in Managed : g \notin f1 => a.content[g] = m.content[g]
  BY <1>1, FreeFrames
<1>6. /\ IsMem(b) /\ b.used = a.used \ Block(s)
      /\ \A g \in Managed : g \notin Block(s) => b.content[g] = a.content[g]
  BY <1>2, <1>5, FreeFrames
<1>7. /\ IsMem(m2) /\ m2.used = b.used \ Block(c)
      /\ \A g \in Managed : g \notin Block(c) => m2.content[g] = b.content[g]
  BY <1>4, <1>6, FreeFrames
<1>8. QED
  BY <1>1, <1>5, <1>6, <1>7

-----------------------------------------------------------------------------
(* The memory of a new process *)

LEMMA KernelBelow ==
    KERNEL_ENTRIES < PD_ENTRIES
<1>1. KERNEL_ENTRIES * PT_ENTRIES < PD_ENTRIES * PT_ENTRIES
  BY MemoryLayout
<1>2. KERNEL_ENTRIES >= PD_ENTRIES => KERNEL_ENTRIES * PT_ENTRIES >= PD_ENTRIES * PT_ENTRIES
  BY Layout
<1>3. QED
  BY <1>1, <1>2, Layout

\* A new directory maps nothing for the process.
LEMMA NewDirectory ==
    ASSUME NEW m, IsMem(m), NEW p \in Parts, NEW f, f = FirstFree(m, 1, p),
           NEW m1, m1 = page_directory_create(m, p)
    PROVE  /\ IsMem(m1) /\ m.used \subseteq m1.used
           /\ Fits(m1) => /\ f \in Managed /\ f \notin m.used /\ m1.used = m.used \cup {f}
                          /\ IsSpace(m1, f) /\ TablesIn(m1, f) = {}
                          /\ \A v \in UserPages : Walk(m1, f, v) = Absent
                          /\ \A g \in m.used : m1.content[g] = m.content[g]
<1> DEFINE dir == [i \in 0..(PD_ENTRIES - 1) |-> IF i < KERNEL_ENTRIES THEN pgdir[i] ELSE Absent]
           m0 == alloc_physical_page(m, 1, p)
<1>1. /\ IsMem(m0) /\ m0.content = m.content /\ m0.used = m.used \cup {f}
      /\ Fits(m0) => Fits(m) /\ f \in Managed /\ f \notin m.used
  <2>1. PICK a : a = m0
    OBVIOUS
  <2>2. 1 \in Nat \ {0}
    OBVIOUS
  <2>3. /\ IsMem(a) /\ a.content = m.content /\ f \in Nat /\ a.used = m.used \cup Block(<<f, 1>>)
        /\ Fits(a) => /\ Fits(m) /\ Block(<<f, 1>>) \subseteq Managed
                      /\ Block(<<f, 1>>) \cap m.used = {} /\ f \in Block(<<f, 1>>)
    BY <2>1, <2>2, AllocFrames
  <2>4. QED
    BY <2>1, <2>3, OneFrame
<1>2. m1 = [m0 EXCEPT !.content[f] = dir]
  BY DEF page_directory_create
<1>3. /\ IsMem(m1) /\ m1.used = m.used \cup {f} /\ m1.content = [m.content EXCEPT ![f] = dir]
  <2> HIDE DEF m0, dir
  <2> QED BY <1>1, <1>2 DEF IsMem
<1>4. /\ \A i \in 0..(KERNEL_ENTRIES - 1) : i \in 0..(PD_ENTRIES - 1) /\ dir[i] = pgdir[i]
      /\ \A i \in UserTables : i \in 0..(PD_ENTRIES - 1) /\ dir[i] = Absent
      /\ dir \in [0..(PD_ENTRIES - 1) -> PTE \cup {Absent}]
  <2>1. \A i \in 0..(KERNEL_ENTRIES - 1) : i \in 0..(PD_ENTRIES - 1) /\ pgdir[i] \in PTE
    BY KernelBelow, Layout DEF pgdir, Entry, PTE
  <2>2. \A i \in 0..(KERNEL_ENTRIES - 1) : dir[i] = pgdir[i]
    BY <2>1, Layout
  <2>3. \A i \in UserTables : i \in 0..(PD_ENTRIES - 1) /\ dir[i] = Absent
    BY Layout DEF UserTables
  <2>4. \A i \in 0..(PD_ENTRIES - 1) : dir[i] \in PTE \cup {Absent}
    BY <2>1, Layout
  <2>5. QED
    BY <2>1, <2>2, <2>3, <2>4
<1>5. ASSUME Fits(m1)
      PROVE  /\ f \in Managed /\ f \notin m.used
             /\ IsSpace(m1, f) /\ TablesIn(m1, f) = {}
             /\ \A v \in UserPages : Walk(m1, f, v) = Absent
             /\ \A g \in m.used : m1.content[g] = m.content[g]
  <2>1. Fits(m) /\ f \in Managed /\ f \notin m.used
    BY <1>1, <1>3, <1>5 DEF Fits
  <2>2. m1.content[f] = dir /\ \A g \in m.used : m1.content[g] = m.content[g]
    <3> HIDE DEF dir
    <3> QED BY <1>3, <2>1 DEF IsMem, Fits
  <2>3. \A i \in UserTables : m1.content[f][i] = Absent
    BY <1>4, <2>2
  <2>4. IsSpace(m1, f)
    <3> HIDE DEF dir
    <3> QED BY <1>3, <1>4, <2>2, <2>3 DEF IsSpace
  <2>5. TablesIn(m1, f) = {}
    BY <2>3 DEF TablesIn, UserTables
  <2>6. \A v \in UserPages : Walk(m1, f, v) = Absent
    BY <2>3, PageIndex DEF Walk
  <2>7. QED
    BY <2>1, <2>2, <2>4, <2>5, <2>6
<1>6. QED
  BY <1>3, <1>5

\* The page of an address: q whole pages and an offset.
LEMMA PageOf ==
    ASSUME NEW q \in Nat, NEW r \in 0..(PAGE_SIZE - 1)
    PROVE  (q * PAGE_SIZE + r) \div PAGE_SIZE = q
<1>1. PAGE_SIZE * q = q * PAGE_SIZE
  BY Layout
<1>2. (PAGE_SIZE * q + r) \div PAGE_SIZE = q
  BY Layout, DivUnique
<1>3. QED
  BY <1>1, <1>2

LEMMA PageStart ==
    ASSUME NEW q \in Nat
    PROVE  q * PAGE_SIZE \in Nat /\ (q * PAGE_SIZE) \div PAGE_SIZE = q
           /\ q * PAGE_SIZE + PAGE_SIZE - 1 \in Nat
           /\ (q * PAGE_SIZE + PAGE_SIZE - 1) \div PAGE_SIZE = q
<1>1. q * PAGE_SIZE \in Nat /\ 0 \in 0..(PAGE_SIZE - 1) /\ PAGE_SIZE - 1 \in 0..(PAGE_SIZE - 1)
  BY Layout
<1>2. (q * PAGE_SIZE + 0) \div PAGE_SIZE = q
  BY <1>1, PageOf
<1>3. (q * PAGE_SIZE + (PAGE_SIZE - 1)) \div PAGE_SIZE = q
  BY <1>1, PageOf
<1>4. q * PAGE_SIZE + 0 = q * PAGE_SIZE
  BY <1>1
<1>5. QED
  BY <1>1, <1>2, <1>3, <1>4, Layout

\* The pages of the code and the first page of the stack.
CodeEnd(size) == USER_START + (size \div PAGE_SIZE)
StackStart(ssize) == (USER_STACK_END * PAGE_SIZE - real_size(ssize) + 1) \div PAGE_SIZE

LEMMA CodePages ==
    ASSUME NEW size \in CodeSize
    PROVE  /\ size \in Nat /\ nb_code_pages(size) \in Nat \ {0}
           /\ USER_START * PAGE_SIZE \in Nat
           /\ (USER_START * PAGE_SIZE) \div PAGE_SIZE = USER_START
           /\ USER_START * PAGE_SIZE + size \in Nat
           /\ (USER_START * PAGE_SIZE + size) \div PAGE_SIZE = CodeEnd(size)
           /\ CodeEnd(size) \in Nat /\ CodeEnd(size) = USER_START + nb_code_pages(size) - 1
<1> DEFINE q == size \div PAGE_SIZE
           r == size % PAGE_SIZE
<1>1. size \in Nat
  BY MemoryLayout
<1>2. q \in Nat /\ r \in 0..(PAGE_SIZE - 1) /\ size = PAGE_SIZE * q + r
  BY <1>1, Layout, DivMod
<1>3. nb_code_pages(size) = q + 1
  BY DEF nb_code_pages
<1> HIDE DEF q, r
<1>4. (USER_START + q) * PAGE_SIZE = (USER_START * PAGE_SIZE) + (PAGE_SIZE * q)
      /\ USER_START + q \in Nat /\ USER_START * PAGE_SIZE \in Nat /\ PAGE_SIZE * q \in Nat
  BY <1>2, Layout
<1>5. USER_START * PAGE_SIZE + size = (USER_START + q) * PAGE_SIZE + r
  BY <1>2, <1>4
<1>6. ((USER_START + q) * PAGE_SIZE + r) \div PAGE_SIZE = USER_START + q
  BY <1>2, <1>4, PageOf
<1>7. (USER_START * PAGE_SIZE) \div PAGE_SIZE = USER_START
  BY PageStart, Layout
<1>8. CodeEnd(size) = USER_START + q
  BY DEF CodeEnd, q
<1>9. QED
  BY <1>1, <1>2, <1>3, <1>4, <1>5, <1>6, <1>7, <1>8, Layout

\* The stack is mapped from StackStart on, in one page more than it has frames, or
\* in as many.
LEMMA StackPages ==
    ASSUME NEW ssize \in StackSize, NEW size \in CodeSize
    PROVE  /\ nb_stack_pages(ssize) \in Nat \ {0}
           /\ real_size(ssize) \in Nat
           /\ USER_STACK_END * PAGE_SIZE \in Nat
           /\ (USER_STACK_END * PAGE_SIZE) \div PAGE_SIZE = USER_STACK_END
           /\ USER_STACK_END * PAGE_SIZE - real_size(ssize) + 1 \in Nat
           /\ StackStart(ssize) \in Nat
           /\ CodeEnd(size) < StackStart(ssize) /\ StackStart(ssize) <= USER_STACK_END
           /\ StackStart(ssize) = IF real_size(ssize) % PAGE_SIZE <= 1
                                  THEN (USER_STACK_END + 1) - nb_stack_pages(ssize)
                                  ELSE USER_STACK_END - nb_stack_pages(ssize)
<1> DEFINE rs == real_size(ssize)
           q == rs \div PAGE_SIZE
           r == rs % PAGE_SIZE
           U == USER_STACK_END
           a == U * PAGE_SIZE
<1>1. rs \in Nat /\ rs > 0 /\ PAGE_SIZE >= 4
  <2>1. ssize \in Nat
    BY MemoryLayout
  <2>2. PAGE_SIZE \in Nat \ {0} /\ PAGE_SIZE % 4 = 0
    BY MemoryLayout
  <2>3. PAGE_SIZE >= 4
    BY <2>2
  <2>4. QED
    BY <2>1, <2>3 DEF real_size
<1>2. q \in Nat /\ r \in 0..(PAGE_SIZE - 1) /\ rs = PAGE_SIZE * q + r
  <2> HIDE DEF rs
  <2> QED BY <1>1, Layout, DivMod
<1>3. nb_stack_pages(ssize) = q + 1
  BY DEF nb_stack_pages
<1>4. U \in Nat /\ a \in Nat /\ a \div PAGE_SIZE = U
  BY PageStart, Layout
<1>5. /\ CodeEnd(size) \in Nat /\ CodeEnd(size) + 1 = USER_START + nb_code_pages(size)
      /\ nb_code_pages(size) \in Nat
  BY CodePages, Layout
<1>6. USER_START + nb_code_pages(size) + nb_stack_pages(ssize) <= U
  BY ProgramsFit
<1>7. CodeEnd(size) + q + 2 <= U
  BY <1>2, <1>3, <1>4, <1>5, <1>6, Layout
<1>8. StackStart(ssize) = (a - rs + 1) \div PAGE_SIZE
  BY DEF StackStart
<1> HIDE DEF rs, q, r, U, a
<1>9. CASE r <= 1
  <2>1. U - q \in Nat /\ 1 - r \in 0..(PAGE_SIZE - 1)
    <3>1. U - q \in Nat
      BY <1>2, <1>4, <1>5, <1>7
    <3>2. 1 - r \in 0..(PAGE_SIZE - 1)
      BY <1>1, <1>2, <1>9, Layout
    <3>3. QED
      BY <3>1, <3>2
  <2>2. (U - q) * PAGE_SIZE = a - (PAGE_SIZE * q)
    BY <1>2, <1>4, Layout DEF a
  <2>3. a - rs + 1 = (U - q) * PAGE_SIZE + (1 - r)
    <3>1. PAGE_SIZE * q \in Nat
      BY <1>2, Layout
    <3>2. QED
      BY <2>2, <3>1, <1>1, <1>2, <1>4
  <2>4. (a - rs + 1) \div PAGE_SIZE = U - q
    BY <2>1, <2>3, PageOf
  <2>5. (U - q) * PAGE_SIZE + (1 - r) \in Nat
    BY <2>1, Layout
  <2>6. StackStart(ssize) = U - q /\ a - rs + 1 \in Nat
    BY <2>3, <2>4, <2>5, <1>8
  <2>7. U - q <= U /\ CodeEnd(size) < U - q /\ U - q = (U + 1) - (q + 1)
    BY <1>2, <1>4, <1>5, <1>7
  <2>8. QED
    BY <2>1, <2>6, <2>7, <1>1, <1>2, <1>3, <1>4, <1>9 DEF a, U, rs, r
<1>10. CASE r > 1
  <2> DEFINE k == U - (q + 1)
             t == (PAGE_SIZE + 1) - r
  <2>1. k \in Nat /\ t \in 0..(PAGE_SIZE - 1)
    BY <1>1, <1>2, <1>4, <1>5, <1>7, <1>10, Layout
  <2>2. k * PAGE_SIZE = a - (PAGE_SIZE * q) - PAGE_SIZE
    BY <1>2, <1>4, Layout DEF a
  <2> HIDE DEF k
  <2>3. a - rs + 1 = k * PAGE_SIZE + t
    <3>1. PAGE_SIZE * q \in Nat
      BY <1>2, Layout
    <3>2. QED
      BY <2>2, <3>1, <1>1, <1>2, <1>4, Layout
  <2> HIDE DEF t
  <2>4. (a - rs + 1) \div PAGE_SIZE = k
    BY <2>1, <2>3, PageOf
  <2>5. k * PAGE_SIZE + t \in Nat
    BY <2>1, Layout
  <2>6. StackStart(ssize) = k /\ a - rs + 1 \in Nat
    BY <2>3, <2>4, <2>5, <1>8
  <2>7. k <= U /\ CodeEnd(size) < k /\ k = U - (q + 1)
    BY <1>2, <1>4, <1>5, <1>7 DEF k
  <2>8. QED
    BY <2>1, <2>6, <2>7, <1>1, <1>2, <1>3, <1>4, <1>10 DEF a, U, rs, r
<1>11. QED
  BY <1>2, <1>9, <1>10

\* A new address space takes only free frames, each for one purpose, and maps its
\* code and its stack.
NewFrames(new) == {new.dir} \cup TablesIn(new.mem, new.dir) \cup Block(new.code) \cup Block(new.stack)

NewMapping(new, size, ssize, v) ==
    IF StackStart(ssize) <= v /\ v <= USER_STACK_END
    THEN UserEntry(new.stack[1] + (v - StackStart(ssize)))
    ELSE IF USER_START <= v /\ v <= CodeEnd(size)
         THEN UserEntry(new.code[1] + (v - USER_START)) ELSE Absent

LEMMA NewSpaceCorrect ==
    ASSUME NEW m, IsMem(m), NEW p \in Parts, NEW size \in CodeSize, NEW ssize \in StackSize,
           NEW new, new = NewSpace(m, p, size, ssize), Fits(new.mem)
    PROVE  /\ IsMem(new.mem) /\ new.mem.used = m.used \cup NewFrames(new)
           /\ NewFrames(new) \cap m.used = {} /\ Fits(m)
           /\ \A g \in m.used : new.mem.content[g] = m.content[g]
           /\ IsSpace(new.mem, new.dir)
           /\ \A v \in UserPages : Walk(new.mem, new.dir, v) = NewMapping(new, size, ssize, v)
           /\ new.dir \notin TablesIn(new.mem, new.dir)
           /\ ({new.dir} \cup TablesIn(new.mem, new.dir)) \cap (Block(new.code) \cup Block(new.stack)) = {}
           /\ Block(new.code) \cap Block(new.stack) = {}
           /\ new.code = <<new.code[1], nb_code_pages(size)>> /\ new.code[1] \in Nat
           /\ new.stack = <<new.stack[1], nb_stack_pages(ssize)>> /\ new.stack[1] \in Nat
           /\ new.arg = new.stack[1] * PAGE_SIZE + ArgumentAt(ssize)
<1> DEFINE D == FirstFree(m, 1, p)
           M1 == page_directory_create(m, p)
           nc == nb_code_pages(size)
           ns == nb_stack_pages(ssize)
           C == FirstFree(M1, nc, p)
           A1 == alloc_physical_page(M1, nc, p)
           M2 == map_zone(A1, p, D, USER_START * PAGE_SIZE, USER_START * PAGE_SIZE + size,
                          C * PAGE_SIZE, UserFlags)
           S == FirstFree(M2, ns, p)
           A2 == alloc_physical_page(M2, ns, p)
           M3 == map_zone(A2, p, D, USER_STACK_END * PAGE_SIZE - real_size(ssize) + 1,
                          USER_STACK_END * PAGE_SIZE, S * PAGE_SIZE, UserFlags)
<1>1. new = [mem |-> M3, dir |-> D, code |-> <<C, nc>>, stack |-> <<S, ns>>,
             arg |-> S * PAGE_SIZE + ArgumentAt(ssize)]
  BY DEF NewSpace
<1>2. PICK d, m1, c, a1, m2, s, a2, m3 :
        /\ d = D /\ m1 = M1 /\ c = C /\ a1 = A1 /\ m2 = M2 /\ s = S /\ a2 = A2 /\ m3 = M3
  OBVIOUS
<1>3. /\ d = FirstFree(m, 1, p) /\ m1 = page_directory_create(m, p)
      /\ c = FirstFree(m1, nc, p) /\ a1 = alloc_physical_page(m1, nc, p)
      /\ m2 = map_zone(a1, p, d, USER_START * PAGE_SIZE, USER_START * PAGE_SIZE + size,
                       c * PAGE_SIZE, UserFlags)
      /\ s = FirstFree(m2, ns, p) /\ a2 = alloc_physical_page(m2, ns, p)
      /\ m3 = map_zone(a2, p, d, USER_STACK_END * PAGE_SIZE - real_size(ssize) + 1,
                       USER_STACK_END * PAGE_SIZE, s * PAGE_SIZE, UserFlags)
      /\ new = [mem |-> m3, dir |-> d, code |-> <<c, nc>>, stack |-> <<s, ns>>,
                arg |-> s * PAGE_SIZE + ArgumentAt(ssize)]
  BY <1>1, <1>2
<1> HIDE DEF D, M1, C, A1, M2, S, A2, M3
<1>4. nc \in Nat \ {0} /\ ns \in Nat \ {0}
  BY CodePages, StackPages
<1> HIDE DEF nc, ns
<1>5. /\ IsMem(m1) /\ m.used \subseteq m1.used
      /\ Fits(m1) => /\ d \in Managed /\ d \notin m.used /\ m1.used = m.used \cup {d}
                     /\ IsSpace(m1, d) /\ TablesIn(m1, d) = {}
                     /\ \A v \in UserPages : Walk(m1, d, v) = Absent
                     /\ \A g \in m.used : m1.content[g] = m.content[g]
  BY <1>3, NewDirectory
<1>6. /\ IsMem(a1) /\ a1.content = m1.content /\ c \in Nat
      /\ a1.used = m1.used \cup Block(<<c, nc>>)
      /\ Fits(a1) => /\ Fits(m1) /\ Block(<<c, nc>>) \subseteq Managed
                     /\ Block(<<c, nc>>) \cap m1.used = {} /\ c \in Block(<<c, nc>>)
  BY <1>3, <1>4, <1>5, AllocFrames
<1>7. /\ IsMem(m2) /\ a1.used \subseteq m2.used
      /\ Fits(m2) /\ IsSpace(a1, d) => Mapped(a1, m2, d, USER_START, CodeEnd(size), c)
  <2>1. PICK vs \in Nat, ve \in Nat, ps \in Nat, lo \in Nat, hi \in Nat :
           /\ vs = USER_START * PAGE_SIZE /\ ve = USER_START * PAGE_SIZE + size
           /\ ps = c * PAGE_SIZE /\ lo = USER_START /\ hi = CodeEnd(size)
    BY <1>6, CodePages, StackPages, PageStart, Layout
  <2>2. /\ lo = vs \div PAGE_SIZE /\ hi = ve \div PAGE_SIZE /\ c = ps \div PAGE_SIZE
        /\ lo \in UserPages /\ hi \in UserPages /\ lo <= hi
    <3>1. lo = vs \div PAGE_SIZE /\ hi = ve \div PAGE_SIZE /\ c = ps \div PAGE_SIZE
      BY <1>6, <2>1, CodePages, PageStart
    <3>2. /\ lo \in Nat /\ hi \in Nat /\ lo <= hi /\ lo >= KERNEL_ENTRIES * PT_ENTRIES
          /\ hi < PD_ENTRIES * PT_ENTRIES
      BY <2>1, CodePages, StackPages, Layout
    <3>3. QED
      BY <3>1, <3>2, Layout DEF UserPages
  <2>3. m2 = map_zone(a1, p, d, vs, ve, ps, UserFlags)
    BY <1>3, <2>1
  <2>4. \A z : z = map_zone(a1, p, d, vs, ve, ps, UserFlags) =>
           /\ IsMem(z) /\ a1.used \subseteq z.used
           /\ Fits(z) /\ IsSpace(a1, d) => Mapped(a1, z, d, lo, hi, c)
    BY <1>6, <2>2, MapZone
  <2>5. QED
    BY <2>1, <2>3, <2>4
<1>8. /\ IsMem(a2) /\ a2.content = m2.content /\ s \in Nat
      /\ a2.used = m2.used \cup Block(<<s, ns>>)
      /\ Fits(a2) => /\ Fits(m2) /\ Block(<<s, ns>>) \subseteq Managed
                     /\ Block(<<s, ns>>) \cap m2.used = {} /\ s \in Block(<<s, ns>>)
  BY <1>3, <1>4, <1>7, AllocFrames
<1>9. /\ IsMem(m3) /\ a2.used \subseteq m3.used
      /\ Fits(m3) /\ IsSpace(a2, d) => Mapped(a2, m3, d, StackStart(ssize), USER_STACK_END, s)
  <2>1. PICK vs \in Nat, ve \in Nat, ps \in Nat, lo \in Nat, hi \in Nat :
           /\ vs = USER_STACK_END * PAGE_SIZE - real_size(ssize) + 1
           /\ ve = USER_STACK_END * PAGE_SIZE
           /\ ps = s * PAGE_SIZE /\ lo = StackStart(ssize) /\ hi = USER_STACK_END
    BY <1>8, StackPages, PageStart, Layout
  <2>2. /\ lo = vs \div PAGE_SIZE /\ hi = ve \div PAGE_SIZE /\ s = ps \div PAGE_SIZE
        /\ lo \in UserPages /\ hi \in UserPages /\ lo <= hi
    <3>1. lo = vs \div PAGE_SIZE /\ hi = ve \div PAGE_SIZE /\ s = ps \div PAGE_SIZE
      BY <1>8, <2>1, StackPages, PageStart DEF StackStart
    <3>2. /\ lo \in Nat /\ hi \in Nat /\ lo <= hi /\ lo >= KERNEL_ENTRIES * PT_ENTRIES
          /\ hi < PD_ENTRIES * PT_ENTRIES
      <4>1. CodeEnd(size) < lo /\ lo <= hi /\ lo \in Nat /\ hi \in Nat
        BY <2>1, StackPages, Layout
      <4>2. CodeEnd(size) >= KERNEL_ENTRIES * PT_ENTRIES /\ CodeEnd(size) \in Nat
        BY CodePages, Layout
      <4>3. QED
        BY <4>1, <4>2, <2>1, Layout
    <3>3. QED
      BY <3>1, <3>2, Layout DEF UserPages
  <2>3. m3 = map_zone(a2, p, d, vs, ve, ps, UserFlags)
    BY <1>3, <2>1
  <2>4. \A z : z = map_zone(a2, p, d, vs, ve, ps, UserFlags) =>
           /\ IsMem(z) /\ a2.used \subseteq z.used
           /\ Fits(z) /\ IsSpace(a2, d) => Mapped(a2, z, d, lo, hi, s)
    BY <1>8, <2>2, MapZone
  <2>5. QED
    BY <2>1, <2>3, <2>4
<1>10. Fits(m3) /\ Fits(a2) /\ Fits(m2) /\ Fits(a1) /\ Fits(m1) /\ Fits(m)
  BY <1>3, <1>5, <1>6, <1>7, <1>8, <1>9 DEF Fits
<1>11. /\ IsSpace(a1, d) /\ TablesIn(a1, d) = {}
       /\ \A v \in UserPages : Walk(a1, d, v) = Absent
  <2>1. /\ IsSpace(m1, d) /\ TablesIn(m1, d) = {} /\ m1.used = m.used \cup {d}
        /\ \A v \in UserPages : Walk(m1, d, v) = Absent
    BY <1>5, <1>10
  <2>2. d \in a1.used /\ TablesIn(m1, d) \subseteq a1.used
    BY <2>1, <1>6
  <2>3. /\ IsSpace(a1, d) /\ TablesIn(a1, d) = TablesIn(m1, d)
        /\ \A v \in UserPages : Walk(a1, d, v) = Walk(m1, d, v)
    BY <2>1, <2>2, <1>5, <1>6, <1>10, SpaceKept
  <2>4. QED
    BY <2>1, <2>3
<1>12. Mapped(a1, m2, d, USER_START, CodeEnd(size), c)
  BY <1>7, <1>10, <1>11
<1>13. /\ IsSpace(a2, d) /\ TablesIn(a2, d) = TablesIn(m2, d)
       /\ \A v \in UserPages : Walk(a2, d, v) = Walk(m2, d, v)
  <2>1. IsSpace(m2, d) /\ TablesIn(m2, d) = TablesIn(a1, d) \cup (m2.used \ a1.used)
    BY <1>12 DEF Mapped
  <2>2. d \in a2.used /\ TablesIn(m2, d) \subseteq a2.used
    BY <2>1, <1>8, <1>11 DEF IsSpace
  <2>3. QED
    BY <2>1, <2>2, <1>7, <1>8, <1>10, SpaceKept
<1>14. Mapped(a2, m3, d, StackStart(ssize), USER_STACK_END, s)
  BY <1>9, <1>10, <1>13
<1>15. PICK t2, t3 : t2 = TablesIn(m2, d) /\ t3 = TablesIn(m3, d)
  OBVIOUS
<1>16. t2 = m2.used \ a1.used /\ t3 = t2 \cup (m3.used \ a2.used)
  BY <1>11, <1>12, <1>13, <1>14, <1>15 DEF Mapped
<1>17. PICK bc, bs : bc = Block(<<c, nc>>) /\ bs = Block(<<s, ns>>)
  OBVIOUS
<1>18. /\ d \notin m.used /\ m1.used = m.used \cup {d} /\ a1.used = m1.used \cup bc
       /\ bc \cap m1.used = {} /\ a1.used \subseteq m2.used /\ a2.used = m2.used \cup bs
       /\ bs \cap m2.used = {} /\ a2.used \subseteq m3.used
  BY <1>5, <1>6, <1>7, <1>8, <1>9, <1>10, <1>17
<1>19. /\ m3.used = m.used \cup ({d} \cup t3 \cup bc \cup bs)
       /\ ({d} \cup t3 \cup bc \cup bs) \cap m.used = {}
       /\ d \notin t3 /\ ({d} \cup t3) \cap (bc \cup bs) = {} /\ bc \cap bs = {}
  BY <1>16, <1>18
<1>20. ASSUME NEW g \in m.used PROVE m3.content[g] = m.content[g]
  <2>1. g # d /\ g \in a1.used /\ g \notin TablesIn(a1, d) /\ g \in a2.used /\ g \notin TablesIn(a2, d)
    BY <1>11, <1>13, <1>15, <1>16, <1>18
  <2>2. m1.content[g] = m.content[g] /\ a1.content[g] = m1.content[g]
    BY <1>5, <1>6, <1>10
  <2>3. m2.content[g] = a1.content[g]
    BY <2>1, <1>12 DEF Mapped
  <2>4. m3.content[g] = a2.content[g]
    BY <2>1, <1>14 DEF Mapped
  <2>5. QED
    BY <2>2, <2>3, <2>4, <1>8
<1>21. ASSUME NEW v \in UserPages
       PROVE  Walk(m3, d, v) = IF StackStart(ssize) <= v /\ v <= USER_STACK_END
                               THEN UserEntry(s + (v - StackStart(ssize)))
                               ELSE IF USER_START <= v /\ v <= CodeEnd(size)
                                    THEN UserEntry(c + (v - USER_START)) ELSE Absent
  <2>1. Walk(m2, d, v) = IF USER_START <= v /\ v <= CodeEnd(size)
                         THEN UserEntry(c + (v - USER_START)) ELSE Absent
    BY <1>11, <1>12 DEF Mapped
  <2>2. Walk(m3, d, v) = IF StackStart(ssize) <= v /\ v <= USER_STACK_END
                         THEN UserEntry(s + (v - StackStart(ssize))) ELSE Walk(a2, d, v)
    BY <1>14 DEF Mapped
  <2>3. QED
    BY <2>1, <2>2, <1>13
<1>22. /\ new.mem = m3 /\ new.dir = d /\ new.code = <<c, nc>> /\ new.stack = <<s, ns>>
       /\ new.code[1] = c /\ new.stack[1] = s /\ new.arg = s * PAGE_SIZE + ArgumentAt(ssize)
  BY <1>3
<1>23. NewFrames(new) = {d} \cup t3 \cup bc \cup bs
  BY <1>15, <1>17, <1>22 DEF NewFrames
<1>24. \A v \in UserPages : Walk(new.mem, new.dir, v) = NewMapping(new, size, ssize, v)
  BY <1>21, <1>22 DEF NewMapping
<1>25. IsSpace(m3, d)
  BY <1>14 DEF Mapped
<1>26. /\ IsMem(new.mem) /\ new.mem.used = m.used \cup NewFrames(new)
       /\ NewFrames(new) \cap m.used = {} /\ Fits(m)
       /\ IsSpace(new.mem, new.dir) /\ new.dir \notin TablesIn(new.mem, new.dir)
  BY <1>9, <1>10, <1>15, <1>19, <1>22, <1>23, <1>25
<1>27. \A g \in m.used : new.mem.content[g] = m.content[g]
  BY <1>20, <1>22
<1>28. /\ ({new.dir} \cup TablesIn(new.mem, new.dir)) \cap (Block(new.code) \cup Block(new.stack)) = {}
       /\ Block(new.code) \cap Block(new.stack) = {}
  BY <1>15, <1>17, <1>19, <1>22
<1>29. QED
  BY <1>6, <1>8, <1>22, <1>24, <1>26, <1>27, <1>28 DEF nc, ns

\* The argument of main is where the program looks for it unless the stack fills its
\* pages: start_task then writes it a page too high.
StacksEndInPage == \A ssize \in StackSize : real_size(ssize) % PAGE_SIZE > 1

\* What page v of a process with the frames c for code and s for its stack may be
\* mapped to: the page above the stack is the last one of the stack if it fills its
\* pages, and otherwise the frame behind them.
Own(c, s, v, f) ==
    \/ f \in Block(c) /\ USER_START <= v /\ v < USER_STACK_END
    \/ f \in Block(s) /\ v <= USER_STACK_END /\ (StacksEndInPage => v < USER_STACK_END)
    \/ f = s[1] + s[2] /\ v = USER_STACK_END

LEMMA NewTranslations ==
    ASSUME NEW size \in CodeSize, NEW ssize \in StackSize, NEW new, NEW c \in Nat, NEW s \in Nat,
           new.code = <<c, nb_code_pages(size)>>, new.stack = <<s, nb_stack_pages(ssize)>>,
           NEW v \in UserPages, NewMapping(new, size, ssize, v) # Absent
    PROVE  \E f \in Nat : NewMapping(new, size, ssize, v) = UserEntry(f)
                          /\ Own(new.code, new.stack, v, f)
<1> DEFINE nc == nb_code_pages(size)
           ns == nb_stack_pages(ssize)
           lo == StackStart(ssize)
           hi == CodeEnd(size)
<1>0. /\ v \in Nat /\ USER_START \in Nat /\ USER_STACK_END \in Nat
      /\ nc \in Nat /\ hi \in Nat /\ hi = USER_START + nc - 1
      /\ ns \in Nat /\ lo \in Nat /\ hi < lo /\ lo <= USER_STACK_END
      /\ lo = (USER_STACK_END + 1) - ns \/ lo = USER_STACK_END - ns
      /\ new.code[1] = c /\ new.stack[1] = s /\ new.stack[2] = ns
      /\ Block(new.code) = c..(c + nc - 1) /\ Block(new.stack) = s..(s + ns - 1)
  BY PageIndex, Layout, CodePages, StackPages DEF Block
<1>1. NewMapping(new, size, ssize, v) =
        IF lo <= v /\ v <= USER_STACK_END THEN UserEntry(s + (v - lo))
        ELSE IF USER_START <= v /\ v <= hi THEN UserEntry(c + (v - USER_START)) ELSE Absent
  BY <1>0 DEF NewMapping
<1>2. StacksEndInPage => lo = USER_STACK_END - ns
  <2>1. StacksEndInPage => ~(real_size(ssize) % PAGE_SIZE <= 1)
    <3>1. real_size(ssize) % PAGE_SIZE \in Nat
      BY StackPages, Layout, DivMod
    <3>2. QED
      BY <3>1 DEF StacksEndInPage
  <2>2. QED
    BY <2>1, StackPages
<1> HIDE DEF nc, ns, lo, hi
<1>3. CASE lo <= v /\ v <= USER_STACK_END
  <2>1. PICK f : f = s + (v - lo)
    OBVIOUS
  <2>2. f \in Nat /\ f >= s /\ v - lo <= USER_STACK_END - lo
    BY <2>1, <1>0, <1>3
  <2>3. CASE v - lo <= ns - 1
    <3>1. f \in s..(s + ns - 1)
      BY <2>1, <2>2, <2>3, <1>0
    <3>2. StacksEndInPage => v < USER_STACK_END
      BY <2>3, <1>0, <1>2
    <3>3. Own(new.code, new.stack, v, f)
      BY <3>1, <3>2, <1>0, <1>3 DEF Own
    <3>4. QED
      BY <3>3, <2>1, <2>2, <1>1, <1>3
  <2>4. CASE v - lo > ns - 1
    <3>1. USER_STACK_END - lo = ns - 1 \/ USER_STACK_END - lo = ns
      BY <1>0
    <3>2. v - lo = ns /\ USER_STACK_END - lo = ns
      BY <3>1, <2>2, <2>4, <1>0
    <3>3. v = USER_STACK_END /\ f = s + ns
      BY <3>2, <2>1, <1>0, SMTT(40)
    <3>4. Own(new.code, new.stack, v, f)
      BY <3>3, <1>0 DEF Own
    <3>5. QED
      BY <3>4, <2>1, <2>2, <1>1, <1>3
  <2>5. ns \in Nat /\ v - lo \in Int
    BY <1>0
  <2>6. v - lo <= ns - 1 \/ v - lo > ns - 1
    BY <2>5
  <2>7. QED
    BY <2>3, <2>4, <2>6
<1>4. CASE ~(lo <= v /\ v <= USER_STACK_END)
  <2>1. USER_START <= v /\ v <= hi
    BY <1>1, <1>4
  <2>2. PICK f : f = c + (v - USER_START)
    OBVIOUS
  <2>3. f \in Nat /\ f \in c..(c + nc - 1) /\ v < USER_STACK_END
    BY <2>1, <2>2, <1>0
  <2>4. NewMapping(new, size, ssize, v) = UserEntry(f)
    BY <2>1, <2>2, <1>1, <1>4
  <2>5. Own(new.code, new.stack, v, f)
    BY <2>1, <2>3, <1>0 DEF Own
  <2>6. QED
    BY <2>3, <2>4, <2>5
<1>5. QED
  BY <1>3, <1>4

LEMMA NewArgument ==
    ASSUME StacksEndInPage, NEW size \in CodeSize, NEW ssize \in StackSize, NEW new, NEW s \in Nat,
           new.stack = <<s, nb_stack_pages(ssize)>>,
           new.arg = s * PAGE_SIZE + ArgumentAt(ssize)
    PROVE  /\ USER_STACK_END - 1 \in UserPages
           /\ NewMapping(new, size, ssize, USER_STACK_END - 1).frame * PAGE_SIZE + PAGE_SIZE - 4
                = new.arg
<1> DEFINE rs == real_size(ssize)
           q == rs \div PAGE_SIZE
           r == rs % PAGE_SIZE
           ns == nb_stack_pages(ssize)
           U == USER_STACK_END
           lo == StackStart(ssize)
<1>1. /\ ns \in Nat \ {0} /\ rs \in Nat /\ lo \in Nat /\ lo <= U /\ U \in Nat
      /\ CodeEnd(size) < lo /\ lo = U - ns /\ CodeEnd(size) \in Nat
      /\ CodeEnd(size) >= USER_START
  <2>1. ~(r <= 1)
    <3>1. r > 1 /\ rs \in Nat
      BY StackPages DEF StacksEndInPage
    <3>2. r \in Nat
      BY <3>1, Layout, DivMod
    <3> HIDE DEF r
    <3>3. QED
      BY <3>1, <3>2
  <2>2. CodeEnd(size) \in Nat /\ CodeEnd(size) >= USER_START
    BY CodePages, Layout
  <2>3. QED
    BY <2>1, <2>2, StackPages, Layout
<1>2. q \in Nat /\ r \in 0..(PAGE_SIZE - 1) /\ rs = PAGE_SIZE * q + r
  <2> HIDE DEF rs
  <2> QED BY <1>1, Layout, DivMod
<1>3. ns = q + 1
  BY DEF nb_stack_pages
<1>4. ArgumentAt(ssize) = (PAGE_SIZE - r) + rs - 4
  BY DEF ArgumentAt
<1>5. new.stack[1] = s
  OBVIOUS
<1>6. U - 1 \in UserPages
  BY <1>1, Layout DEF UserPages
<1>7. NewMapping(new, size, ssize, U - 1) = UserEntry(s + ((U - 1) - lo))
  <2>1. lo <= U - 1 /\ U - 1 <= U
    BY <1>1
  <2>2. QED
    BY <2>1, <1>5 DEF NewMapping
<1> HIDE DEF rs, q, r, ns, U, lo
<1>8. s + ((U - 1) - lo) = s + q /\ s + q \in Nat
  BY <1>1, <1>2, <1>3
<1>9. NewMapping(new, size, ssize, U - 1).frame = s + q
  BY <1>7, <1>8, Entries
<1>10. (s + q) * PAGE_SIZE = (s * PAGE_SIZE) + (PAGE_SIZE * q)
       /\ s * PAGE_SIZE \in Nat /\ PAGE_SIZE * q \in Nat
  BY <1>2, Layout
<1>11. new.arg = s * PAGE_SIZE + ((PAGE_SIZE - r) + rs - 4)
  BY <1>4
<1>12. (s + q) * PAGE_SIZE + PAGE_SIZE - 4 = new.arg
  BY <1>2, <1>10, <1>11, Layout
<1>13. QED
  BY <1>6, <1>9, <1>12 DEF U

LEMMA SharedUser ==
    \A i \in 0..(PAGE_MAX - 1) : SharedPage(i) \in UserPages /\ SharedPage(i) >= USER_STACK_END
<1>1. USER_STACK_END >= USER_START
  BY MemoryLayout
<1>2. QED
  BY <1>1, Layout DEF SharedPage, UserPages

\* What a new process starts with.
LEMMA NewProcess ==
    ASSUME NEW m, IsMem(m), NEW p \in Parts, NEW size \in CodeSize, NEW ssize \in StackSize,
           NEW new, new = NewSpace(m, p, size, ssize), Fits(new.mem)
    PROVE  /\ new.mem = [content |-> new.mem.content, used |-> new.mem.used]
           /\ DOMAIN new.mem.content = Managed
           /\ new.dir \in Nat /\ new.code \in Nat \X Nat /\ new.stack \in Nat \X Nat /\ new.arg \in Int
           /\ \A v \in UserPages : Walk(new.mem, new.dir, v) # Absent =>
                 \E f \in Nat : Walk(new.mem, new.dir, v) = UserEntry(f)
                                /\ Own(new.code, new.stack, v, f)
           /\ StacksEndInPage =>
                 /\ USER_STACK_END - 1 \in UserPages
                 /\ Walk(new.mem, new.dir, USER_STACK_END - 1).frame * PAGE_SIZE + PAGE_SIZE - 4 = new.arg
<1>1. /\ IsMem(new.mem) /\ IsSpace(new.mem, new.dir)
      /\ \A v \in UserPages : Walk(new.mem, new.dir, v) = NewMapping(new, size, ssize, v)
      /\ new.code = <<new.code[1], nb_code_pages(size)>> /\ new.code[1] \in Nat
      /\ new.stack = <<new.stack[1], nb_stack_pages(ssize)>> /\ new.stack[1] \in Nat
      /\ new.arg = new.stack[1] * PAGE_SIZE + ArgumentAt(ssize)
  BY NewSpaceCorrect
<1>2. PICK c \in Nat, s \in Nat : c = new.code[1] /\ s = new.stack[1]
  BY <1>1
<1>3. nb_code_pages(size) \in Nat /\ nb_stack_pages(ssize) \in Nat /\ real_size(ssize) \in Nat
  BY CodePages, StackPages
<1>4. new.dir \in Nat
  BY <1>1, Layout DEF IsSpace, Fits
<1>5. new.code \in Nat \X Nat /\ new.stack \in Nat \X Nat
  <2>1. PICK nc \in Nat, ns \in Nat : nc = nb_code_pages(size) /\ ns = nb_stack_pages(ssize)
    BY <1>3
  <2>2. new.code = <<c, nc>> /\ new.stack = <<s, ns>>
    BY <2>1, <1>1, <1>2
  <2>3. QED
    BY <2>2
<1>6. new.arg \in Int
  <2>1. real_size(ssize) % PAGE_SIZE \in Nat
    BY <1>3, Layout, DivMod
  <2>2. ArgumentAt(ssize) \in Int
    BY <2>1, <1>3, Layout DEF ArgumentAt
  <2>3. s * PAGE_SIZE \in Int
    BY Layout
  <2>4. QED
    BY <2>2, <2>3, <1>1, <1>2
<1>7. new.code = <<c, nb_code_pages(size)>> /\ new.stack = <<s, nb_stack_pages(ssize)>>
      /\ new.arg = s * PAGE_SIZE + ArgumentAt(ssize)
  BY <1>1, <1>2
<1>8. ASSUME NEW v \in UserPages, Walk(new.mem, new.dir, v) # Absent
      PROVE  \E f \in Nat : Walk(new.mem, new.dir, v) = UserEntry(f) /\ Own(new.code, new.stack, v, f)
  <2>1. NewMapping(new, size, ssize, v) # Absent
    BY <1>1, <1>8
  <2>2. \E f \in Nat : NewMapping(new, size, ssize, v) = UserEntry(f) /\ Own(new.code, new.stack, v, f)
    BY <2>1, <1>7, NewTranslations
  <2>3. QED
    BY <2>2, <1>1
<1>9. ASSUME StacksEndInPage
      PROVE  /\ USER_STACK_END - 1 \in UserPages
             /\ Walk(new.mem, new.dir, USER_STACK_END - 1).frame * PAGE_SIZE + PAGE_SIZE - 4 = new.arg
  <2>1. /\ USER_STACK_END - 1 \in UserPages
        /\ NewMapping(new, size, ssize, USER_STACK_END - 1).frame * PAGE_SIZE + PAGE_SIZE - 4 = new.arg
    BY <1>7, <1>9, NewArgument
  <2>2. QED
    BY <2>1, <1>1
<1>10. QED
  BY <1>1, <1>4, <1>5, <1>6, <1>8, <1>9 DEF IsMem

\* Mapping and unmapping a shared page: frame f as page v.
MapAt(m, p, d, v, f) ==
    map_zone(m, p, d, v * PAGE_SIZE, v * PAGE_SIZE + PAGE_SIZE - 1, f * PAGE_SIZE, UserFlags)

UnmapAt(m, d, v) == unmap_zone(m, d, v * PAGE_SIZE, v * PAGE_SIZE + PAGE_SIZE - 1)

MappedOne(m, m2, d, v, f) ==
    /\ IsSpace(m2, d) /\ TablesIn(m2, d) = TablesIn(m, d) \cup (m2.used \ m.used)
    /\ \A g \in m.used : g # d /\ g \notin TablesIn(m, d) => m2.content[g] = m.content[g]
    /\ \A w \in UserPages : Walk(m2, d, w) = IF w = v THEN UserEntry(f) ELSE Walk(m, d, w)

LEMMA MapOne ==
    ASSUME NEW m, IsMem(m), NEW p \in Parts, NEW d, NEW v \in UserPages, NEW f \in Nat, NEW m2,
           m2 = MapAt(m, p, d, v, f)
    PROVE  /\ IsMem(m2) /\ m.used \subseteq m2.used
           /\ Fits(m2) /\ IsSpace(m, d) => MappedOne(m, m2, d, v, f)
<1>1. v \in Nat
  BY PageIndex
<1>2. PICK vs \in Nat, ve \in Nat, ps \in Nat :
        /\ vs = v * PAGE_SIZE /\ ve = v * PAGE_SIZE + PAGE_SIZE - 1 /\ ps = f * PAGE_SIZE
        /\ v = vs \div PAGE_SIZE /\ v = ve \div PAGE_SIZE /\ f = ps \div PAGE_SIZE
  BY <1>1, PageStart
<1>3. m2 = map_zone(m, p, d, vs, ve, ps, UserFlags) /\ v <= v
  BY <1>1, <1>2 DEF MapAt
<1>4. \A z : z = map_zone(m, p, d, vs, ve, ps, UserFlags) =>
         /\ IsMem(z) /\ m.used \subseteq z.used
         /\ Fits(z) /\ IsSpace(m, d) => Mapped(m, z, d, v, v, f)
  BY <1>2, <1>3, MapZone
<1>5. IsMem(m2) /\ m.used \subseteq m2.used /\ (Fits(m2) /\ IsSpace(m, d) => Mapped(m, m2, d, v, v, f))
  BY <1>3, <1>4
<1>6. ASSUME Mapped(m, m2, d, v, v, f), NEW w \in UserPages
      PROVE  Walk(m2, d, w) = IF w = v THEN UserEntry(f) ELSE Walk(m, d, w)
  <2>1. w \in Nat /\ (v <= w /\ w <= v <=> w = v) /\ f + (v - v) = f
    BY <1>1, PageIndex
  <2>2. Walk(m2, d, w) = IF v <= w /\ w <= v THEN UserEntry(f + (w - v)) ELSE Walk(m, d, w)
    BY <1>6 DEF Mapped
  <2>3. QED
    BY <2>1, <2>2
<1>7. Mapped(m, m2, d, v, v, f) =>
        /\ IsSpace(m2, d) /\ TablesIn(m2, d) = TablesIn(m, d) \cup (m2.used \ m.used)
        /\ \A g \in m.used : g # d /\ g \notin TablesIn(m, d) => m2.content[g] = m.content[g]
  BY DEF Mapped
<1>8. QED
  BY <1>5, <1>6, <1>7 DEF MappedOne

LEMMA UnmapShared ==
    ASSUME NEW m, IsMem(m), Fits(m), NEW d, IsSpace(m, d), NEW v \in UserPages, NEW m2,
           m2 = UnmapAt(m, d, v)
    PROVE  Unmapped(m, m2, d, v)
<1>1. v \in Nat
  BY PageIndex
<1>2. PICK vs \in Nat, ve \in Nat :
        /\ vs = v * PAGE_SIZE /\ ve = v * PAGE_SIZE + PAGE_SIZE - 1
        /\ v = vs \div PAGE_SIZE /\ v = ve \div PAGE_SIZE
  BY <1>1, PageStart
<1>3. m2 = unmap_zone(m, d, vs, ve)
  BY <1>2 DEF UnmapAt
<1>4. \A z : z = unmap_zone(m, d, vs, ve) => Unmapped(m, z, d, v)
  BY <1>2, UnmapOne
<1>5. QED
  BY <1>3, <1>4

\* Unmapping a page, and giving back its frame if `last'.
\* Page v is unmapped, and the frames gone are given back.
UnmappedFreed(m, m2, d, v, gone) ==
    /\ IsMem(m2) /\ m2.used = m.used \ gone /\ Fits(m2)
    /\ IsSpace(m2, d) /\ TablesIn(m2, d) = TablesIn(m, d)
    /\ \A g \in m.used : g \notin TablesIn(m, d) /\ g \notin gone => m2.content[g] = m.content[g]
    /\ \A w \in UserPages : Walk(m2, d, w) = IF w = v THEN Absent ELSE Walk(m, d, w)

LEMMA UnmapFree ==
    ASSUME NEW m, IsMem(m), Fits(m), NEW d, IsSpace(m, d), NEW v \in UserPages, NEW f \in Nat,
           f # d, f \notin TablesIn(m, d), NEW last \in BOOLEAN, NEW m1, m1 = UnmapAt(m, d, v),
           NEW m2, m2 = IF last THEN free_physical_page(m1, <<f, 1>>) ELSE m1
    PROVE  UnmappedFreed(m, m2, d, v, IF last THEN {f} ELSE {})
<1>1. PICK gone : gone = IF last THEN {f} ELSE {}
  OBVIOUS
<1>2. /\ IsMem(m1) /\ m1.used = m.used /\ IsSpace(m1, d)
      /\ TablesIn(m1, d) = TablesIn(m, d)
      /\ \A g \in m.used : g \notin TablesIn(m, d) => m1.content[g] = m.content[g]
      /\ \A w \in UserPages : Walk(m1, d, w) = IF w = v THEN Absent ELSE Walk(m, d, w)
  <2>1. Unmapped(m, m1, d, v)
    BY UnmapShared
  <2>2. QED
    BY <2>1 DEF Unmapped
<1>3. CASE ~last
  BY <1>1, <1>2, <1>3 DEF Fits, UnmappedFreed
<1>4. CASE last
  <2>1. m2 = free_frames(m1, {f})
    BY <1>4, OneFrame DEF free_physical_page
  <2>2. /\ IsMem(m2) /\ m2.used = m1.used \ {f}
        /\ \A g \in Managed : g \notin {f} => m2.content[g] = m1.content[g]
    BY <2>1, <1>2, FreeFrames
  <2>3. d \in Managed /\ d \in m.used /\ TablesIn(m, d) \subseteq m.used /\ m.used \subseteq Managed
    BY DEF IsSpace, Fits, TablesIn, UserTables
  <2>4. /\ Fits(m1) /\ Fits(m2) /\ d \in m2.used /\ TablesIn(m1, d) \subseteq m2.used
        /\ m2.content[d] = m1.content[d]
        /\ \A g \in TablesIn(m1, d) : m2.content[g] = m1.content[g]
    BY <2>2, <2>3, <1>2 DEF Fits
  <2>5. /\ IsSpace(m2, d) /\ TablesIn(m2, d) = TablesIn(m1, d)
        /\ \A w \in UserPages : Walk(m2, d, w) = Walk(m1, d, w)
    BY <2>2, <2>4, <1>2, SpaceKept
  <2>6. \A g \in m.used : g \notin TablesIn(m, d) /\ g \notin gone => m2.content[g] = m.content[g]
    BY <2>2, <2>3, <1>1, <1>2, <1>4
  <2>7. QED
    BY <2>2, <2>4, <2>5, <2>6, <1>1, <1>2, <1>4 DEF UnmappedFreed
<1>5. QED
  BY <1>3, <1>4

LEMMA FirstIndex ==
    ASSUME FreeIndex # {}
    PROVE  allocate_memory \in FreeIndex
<1>1. FreeIndex \subseteq Nat
  BY DEF FreeIndex
<1>2. \E i \in FreeIndex : \A j \in FreeIndex : i <= j
  BY <1>1, LeastNat
<1>3. QED
  BY <1>2 DEF allocate_memory

\* From the end of the stack on, a process owns at most the page above its stack.
LEMMA OwnAbove ==
    ASSUME StacksEndInPage, NEW c, NEW s, NEW v \in Nat, v >= USER_STACK_END, NEW f, Own(c, s, v, f)
    PROVE  f = s[1] + s[2]
  BY Layout DEF Own

LEMMA SharedPageIndex ==
    \A i, j \in 0..(PAGE_MAX - 1) : SharedPage(i) = SharedPage(j) => i = j
  BY Layout DEF SharedPage

-----------------------------------------------------------------------------
(* The inductive invariant *)

Shp == [frame : Managed, index : 0..(PAGE_MAX - 1), refcount : Nat \ {0}]

MemTypes ==
    /\ DOMAIN content = Managed /\ used \subseteq Managed
    /\ state \in [Proc -> {"none", "live", "zombie"}] /\ current \in Allocated
    /\ cr3 \in [Proc -> Nat] /\ arg \in [Proc -> Int]
    /\ code \in [Proc -> Nat \X Nat] /\ stack \in [Proc -> Nat \X Nat]
    /\ shp_table \in [Key -> Shp \cup {None}]
    /\ virtual_map \in [0..(PAGE_MAX - 1) -> BOOLEAN]
    /\ held \in [Proc \X Key -> Nat] /\ misused \in BOOLEAN

\* A process has a directory with its tables, code and a stack, in frames of their own.
SpaceOf(p) ==
    /\ IsSpace(Mem, cr3[p]) /\ FramesOf(p) \subseteq used
    /\ ({cr3[p]} \cup Tables(p)) \cap (Block(code[p]) \cup Block(stack[p])) = {}
    /\ Block(code[p]) \cap Block(stack[p]) = {}

Spaces == \A p \in Allocated : SpaceOf(p)

\* Processes and keys share no frame and no virtual page.
Apart ==
    /\ \A p, q \in Allocated : p # q => FramesOf(p) \cap FramesOf(q) = {}
    /\ \A k \in Registered :
          /\ shp_table[k].frame \in used
          /\ \A p \in Allocated : shp_table[k].frame \notin FramesOf(p)
          /\ \A l \in Registered \ {k} : /\ shp_table[k].frame # shp_table[l].frame
                                         /\ shp_table[k].index # shp_table[l].index
          /\ virtual_map[shp_table[k].index]
    /\ \A i \in 0..(PAGE_MAX - 1) : virtual_map[i] => \E k \in Registered : shp_table[k].index = i

\* What page v of process p may be mapped to: also to a shared page it holds.
OwnPage(p, v, f) ==
    \/ Own(code[p], stack[p], v, f)
    \/ \E k \in Registered : /\ SharedPage(shp_table[k].index) = v
                             /\ shp_table[k].frame = f
                             /\ held[<<p, k>>] > 0

Translations(p) ==
    \A v \in UserPages : LET e == Walk(Mem, cr3[p], v) IN
        e = Absent \/ \E f \in Nat : e = UserEntry(f) /\ (misused \/ OwnPage(p, v, f))

\* Every reference somebody holds is one of those that refcount counts: the i-th of
\* them can be attributed to owner[i].
Attributed(h, k, n) ==
    \E owner \in [1..n -> Proc] :
        \A p \in Proc : h[<<p, k>>] <= Cardinality({i \in 1..n : owner[i] = p})

Counted ==
    ~ misused => \A k \in Key :
        IF shp_table[k] = None THEN \A p \in Proc : held[<<p, k>>] = 0
                               ELSE Attributed(held, k, shp_table[k].refcount)

\* The processor has cached translations of shared pages only.
Cached ==
    \A t \in tlb : /\ \E i \in 0..(PAGE_MAX - 1) : t[1] = SharedPage(i)
                   /\ t[2] # Absent
                   /\ \/ misused
                      \/ t[2] = Walk(Mem, cr3[current], t[1])
                      \/ t[2].frame = PastStack(current)

ArgumentOf(p) ==
    /\ USER_STACK_END - 1 \in UserPages
    /\ Walk(Mem, cr3[p], USER_STACK_END - 1).frame * PAGE_SIZE + PAGE_SIZE - 4 = arg[p]

MemInv ==
    /\ MemTypes /\ Spaces /\ Apart /\ Counted
    /\ \A p \in Allocated : Translations(p)
    /\ StacksEndInPage => Cached /\ \A p \in Allocated : ArgumentOf(p)

-----------------------------------------------------------------------------
(* What a step leaves alone *)

LEMMA MemIs ==
    ASSUME MemTypes
    PROVE  /\ IsMem(Mem) /\ Fits(Mem) /\ Mem.content = content /\ Mem.used = used
           /\ \A p \in Allocated : Tables(p) = TablesIn(Mem, cr3[p])
  BY DEF MemTypes, IsMem, Fits, Mem, Tables, TablesIn

\* Process q has what it had.
SameProcess(q) ==
    /\ cr3'[q] = cr3[q] /\ code'[q] = code[q] /\ stack'[q] = stack[q] /\ arg'[q] = arg[q]
    /\ FramesOf(q) \subseteq used'
    /\ \A g \in FramesOf(q) : content'[g] = content[g]

LEMMA SpaceStays ==
    ASSUME MemTypes, MemTypes', NEW q \in Allocated, q \in Allocated', SpaceOf(q), SameProcess(q)
    PROVE  /\ SpaceOf(q)' /\ FramesOf(q)' = FramesOf(q) /\ PastStack(q)' = PastStack(q)
           /\ Tables(q)' = Tables(q)
           /\ \A v \in UserPages : Walk(Mem', cr3'[q], v) = Walk(Mem, cr3[q], v)
<1>1. /\ IsMem(Mem) /\ Fits(Mem) /\ Mem.content = content /\ Mem.used = used
      /\ Tables(q) = TablesIn(Mem, cr3[q])
  BY MemIs
<1>2. /\ IsMem(Mem') /\ Fits(Mem') /\ (Mem').content = content' /\ (Mem').used = used'
      /\ Tables(q)' = TablesIn(Mem', cr3'[q])
  BY DEF MemTypes, IsMem, Fits, Mem, Tables, TablesIn
<1>3. PICK m, m2, d : m = Mem /\ m2 = Mem' /\ d = cr3[q]
  OBVIOUS
<1>4. d \in FramesOf(q) /\ TablesIn(m, d) \subseteq FramesOf(q)
  BY <1>1, <1>3 DEF FramesOf
<1>5. /\ IsMem(m) /\ Fits(m) /\ IsMem(m2) /\ Fits(m2) /\ IsSpace(m, d)
      /\ d \in m2.used /\ TablesIn(m, d) \subseteq m2.used /\ m2.content[d] = m.content[d]
      /\ \A g \in TablesIn(m, d) : m2.content[g] = m.content[g]
  BY <1>1, <1>2, <1>3, <1>4 DEF SpaceOf, SameProcess
<1>6. /\ IsSpace(m2, d) /\ TablesIn(m2, d) = TablesIn(m, d)
      /\ \A v \in UserPages : Walk(m2, d, v) = Walk(m, d, v)
  BY <1>5, SpaceKept
<1>7. cr3'[q] = d /\ code'[q] = code[q] /\ stack'[q] = stack[q] /\ cr3[q] = d
  BY <1>3 DEF SameProcess
<1>8. Tables(q)' = Tables(q)
  BY <1>1, <1>2, <1>3, <1>6, <1>7
<1>9. FramesOf(q)' = FramesOf(q)
  BY <1>7, <1>8 DEF FramesOf
<1>10. PastStack(q)' = PastStack(q)
  BY <1>7 DEF PastStack
<1>11. SpaceOf(q)'
  BY <1>3, <1>6, <1>7, <1>8, <1>9 DEF SpaceOf, SameProcess
<1>12. QED
  BY <1>3, <1>6, <1>7, <1>8, <1>9, <1>10, <1>11

\* The shared pages that q holds stay as they are.
SameReferences(q) ==
    /\ misused => misused'
    /\ ~misused' => \A k \in Registered : held[<<q, k>>] > 0 =>
          /\ k \in Registered' /\ held'[<<q, k>>] > 0
          /\ shp_table'[k].frame = shp_table[k].frame
          /\ shp_table'[k].index = shp_table[k].index

LEMMA OwnPageStays ==
    ASSUME NEW q, NEW v, NEW f, OwnPage(q, v, f), ~misused', SameReferences(q),
           code'[q] = code[q], stack'[q] = stack[q]
    PROVE  OwnPage(q, v, f)'
<1>1. CASE Own(code[q], stack[q], v, f)
  BY <1>1 DEF OwnPage
<1>2. CASE \E k \in Registered : /\ SharedPage(shp_table[k].index) = v
                                 /\ shp_table[k].frame = f
                                 /\ held[<<q, k>>] > 0
  <2>1. PICK k \in Registered : /\ SharedPage(shp_table[k].index) = v
                                /\ shp_table[k].frame = f
                                /\ held[<<q, k>>] > 0
    BY <1>2
  <2>2. /\ k \in Registered' /\ held'[<<q, k>>] > 0
        /\ shp_table'[k].frame = f /\ SharedPage(shp_table'[k].index) = v
    BY <2>1 DEF SameReferences
  <2>3. QED
    BY <2>2 DEF OwnPage
<1>3. QED
  BY <1>1, <1>2 DEF OwnPage

LEMMA TranslationsStay ==
    ASSUME NEW q, Translations(q), SameReferences(q), SameProcess(q),
           \A v \in UserPages : Walk(Mem', cr3'[q], v) = Walk(Mem, cr3[q], v)
    PROVE  Translations(q)'
<1> SUFFICES ASSUME NEW v \in UserPages, Walk(Mem', cr3'[q], v) # Absent
             PROVE  \E f \in Nat : Walk(Mem', cr3'[q], v) = UserEntry(f) /\ (misused' \/ OwnPage(q, v, f)')
  BY DEF Translations
<1>1. PICK f \in Nat : Walk(Mem, cr3[q], v) = UserEntry(f) /\ (misused \/ OwnPage(q, v, f))
  BY DEF Translations
<1>2. misused' \/ OwnPage(q, v, f)'
  BY <1>1, OwnPageStays DEF SameProcess, SameReferences
<1>3. QED
  BY <1>1, <1>2

LEMMA ArgumentStays ==
    ASSUME NEW q, ArgumentOf(q), arg'[q] = arg[q],
           Walk(Mem', cr3'[q], USER_STACK_END - 1) = Walk(Mem, cr3[q], USER_STACK_END - 1)
    PROVE  ArgumentOf(q)'
  BY DEF ArgumentOf

LEMMA CachedStays ==
    ASSUME Cached, current \in Allocated, current' = current, tlb' = tlb, misused' = misused,
           PastStack(current)' = PastStack(current),
           \A v \in UserPages : Walk(Mem', cr3'[current], v) = Walk(Mem, cr3[current], v)
    PROVE  Cached'
<1> SUFFICES ASSUME NEW t \in tlb
             PROVE  /\ \E i \in 0..(PAGE_MAX - 1) : t[1] = SharedPage(i)
                    /\ t[2] # Absent
                    /\ \/ misused'
                       \/ t[2] = Walk(Mem', cr3'[current'], t[1])
                       \/ t[2].frame = PastStack(current)'
  BY DEF Cached
<1>1. /\ \E i \in 0..(PAGE_MAX - 1) : t[1] = SharedPage(i)
      /\ t[2] # Absent
      /\ \/ misused
         \/ t[2] = Walk(Mem, cr3[current], t[1])
         \/ t[2].frame = PastStack(current)
  BY DEF Cached
<1>2. t[1] \in UserPages
  BY <1>1, SharedUser
<1>3. QED
  BY <1>1, <1>2

-----------------------------------------------------------------------------
(* Steps that move no frame *)

LEMMA OwnedIs ==
    \A f : f \in Owned <=> \/ \E q \in Allocated : f \in FramesOf(q)
                           \/ \E k \in Registered : f = shp_table[k].frame
<1>1. \A f : f \in UNION {FramesOf(q) : q \in Allocated} <=> \E q \in Allocated : f \in FramesOf(q)
  BY Zenon
<1>2. \A f : f \in {shp_table[k].frame : k \in Registered} <=> \E k \in Registered : f = shp_table[k].frame
  OBVIOUS
<1>3. QED
  BY <1>1, <1>2 DEF Owned

LEMMA OwnedNext ==
    \A f : f \in Owned' <=> \/ \E q \in Allocated' : f \in FramesOf(q)'
                            \/ \E k \in Registered' : f = shp_table'[k].frame
<1>1. \A f : f \in UNION {FramesOf(q)' : q \in Allocated'} <=> \E q \in Allocated' : f \in FramesOf(q)'
  BY Zenon
<1>2. \A f : f \in {shp_table'[k].frame : k \in Registered'} <=> \E k \in Registered' : f = shp_table'[k].frame
  OBVIOUS
<1>3. QED
  BY <1>1, <1>2 DEF Owned

\* No frame is lost in the step.
NoLeak == (used \ Owned)' = used \ Owned

\* The frames that are in use may become more, but nobody gets them.
LEMMA QuietStep ==
    ASSUME MemInv, UNCHANGED <<content, cr3, code, stack, arg, shmVars>>,
           used \subseteq used', used' \subseteq Managed,
           state' \in [Proc -> {"none", "live", "zombie"}], Allocated' = Allocated,
           current' \in Allocated, StacksEndInPage /\ Cached => Cached'
    PROVE  MemInv' /\ Owned' = Owned
<1>1. /\ content' = content /\ cr3' = cr3 /\ code' = code /\ stack' = stack
      /\ arg' = arg /\ shp_table' = shp_table /\ virtual_map' = virtual_map /\ held' = held
      /\ misused' = misused
  BY DEF shmVars
<1>2. Registered' = Registered
  BY <1>1 DEF Registered
<1>3. MemTypes /\ MemTypes'
  BY <1>1 DEF MemInv, MemTypes
<1>4. ASSUME NEW p \in Allocated
      PROVE  /\ FramesOf(p)' = FramesOf(p) /\ SpaceOf(p)'
             /\ Translations(p)' /\ (StacksEndInPage => ArgumentOf(p)')
  <2>1. SpaceOf(p) /\ Translations(p) /\ (StacksEndInPage => ArgumentOf(p))
    BY DEF MemInv, Spaces
  <2>2. SameProcess(p)
    BY <1>1, <2>1 DEF SameProcess, SpaceOf
  <2>3. /\ SpaceOf(p)' /\ FramesOf(p)' = FramesOf(p)
        /\ \A v \in UserPages : Walk(Mem', cr3'[p], v) = Walk(Mem, cr3[p], v)
    BY <1>3, <2>1, <2>2, SpaceStays
  <2>4. SameReferences(p)
    BY <1>1, <1>2 DEF SameReferences
  <2>5. Translations(p)'
    BY <2>1, <2>2, <2>3, <2>4, TranslationsStay
  <2>6. StacksEndInPage => ArgumentOf(p)'
    BY <2>1, <2>2, <2>3, ArgumentStays DEF ArgumentOf, SameProcess
  <2>7. QED
    BY <2>3, <2>5, <2>6
<1>5. Spaces' /\ \A p \in Allocated' : Translations(p)'
  BY <1>4 DEF Spaces
<1>6. Apart'
  BY <1>1, <1>2, <1>4 DEF MemInv, Apart
<1>7. Counted'
  BY <1>1 DEF MemInv, Counted
<1>8. StacksEndInPage => Cached' /\ \A p \in Allocated' : ArgumentOf(p)'
  BY <1>4 DEF MemInv
<1>9. MemInv'
  BY <1>3, <1>5, <1>6, <1>7, <1>8 DEF MemInv
<1>10. Owned' = Owned
  <2>1. \A f : f \in Owned' <=> \/ \E q \in Allocated' : f \in FramesOf(q)'
                                \/ \E k \in Registered' : f = shp_table'[k].frame
    BY OwnedNext
  <2>2. \A f : f \in Owned <=> \/ \E q \in Allocated : f \in FramesOf(q)
                               \/ \E k \in Registered : f = shp_table[k].frame
    BY OwnedIs
  <2>3. \A f : f \in Owned' <=> f \in Owned
    BY <2>1, <2>2, <1>1, <1>2, <1>4
  <2>4. QED
    BY <2>3
<1>11. QED
  BY <1>9, <1>10

LEMMA DieStep ==
    ASSUME MemInv, NEW p \in Proc, state[p] = "live",
           state' = [state EXCEPT ![p] = "zombie"],
           UNCHANGED <<content, used, cr3, code, stack, arg, current, tlb, shmVars>>
    PROVE  MemInv' /\ NoLeak
<1>1. /\ state \in [Proc -> {"none", "live", "zombie"}] /\ current \in Allocated
  BY DEF MemInv, MemTypes
<1>2. state' \in [Proc -> {"none", "live", "zombie"}] /\ Allocated' = Allocated
  <2>1. state' \in [Proc -> {"none", "live", "zombie"}]
    BY <1>1
  <2>2. \A q \in Proc : state'[q] # "none" <=> state[q] # "none"
    BY <1>1
  <2>3. QED
    BY <2>1, <2>2 DEF Allocated
<1>3. Mem' = Mem
  BY DEF Mem
<1>4. Cached => Cached'
  BY <1>3 DEF Cached, PastStack, shmVars
<1>5. used \subseteq used' /\ used' \subseteq Managed
  BY DEF MemInv, MemTypes
<1>6. QED
  BY <1>1, <1>2, <1>4, <1>5, QuietStep DEF NoLeak

LEMMA ExitStep ==
    ASSUME MemInv, Exit
    PROVE  MemInv' /\ NoLeak
<1>1. PICK p : p = current
  OBVIOUS
<1>2. p \in Proc
  BY <1>1 DEF MemInv, MemTypes, Allocated
<1>3. QED
  BY <1>1, <1>2, DieStep DEF Exit

LEMMA KillStep ==
    ASSUME MemInv, NEW p \in Proc, Kill(p)
    PROVE  MemInv' /\ NoLeak
  BY DieStep DEF Kill

LEMMA SwitchStep ==
    ASSUME MemInv, NEW p \in Proc, Switch(p)
    PROVE  MemInv' /\ NoLeak
<1>1. p \in Allocated /\ current' = p /\ tlb' = {} /\ state' = state
      /\ UNCHANGED <<content, used, cr3, code, stack, arg, shmVars>>
  BY DEF Switch, Allocated
<1>2. Allocated' = Allocated /\ state' \in [Proc -> {"none", "live", "zombie"}]
  BY <1>1 DEF MemInv, MemTypes, Allocated
<1>3. Cached'
  BY <1>1 DEF Cached
<1>4. used \subseteq used' /\ used' \subseteq Managed
  BY <1>1 DEF MemInv, MemTypes
<1>5. QED
  BY <1>1, <1>2, <1>3, <1>4, QuietStep DEF NoLeak

LEMMA AccessStep ==
    ASSUME MemInv, NEW i \in 0..(PAGE_MAX - 1), Access(SharedPage(i))
    PROVE  MemInv' /\ NoLeak
<1>1. PICK v, e : v = SharedPage(i) /\ e = Walk(Mem, cr3[current], v)
  OBVIOUS
<1>2. /\ e # Absent /\ tlb' = tlb \cup {<<v, e>>}
      /\ UNCHANGED <<content, used, procVars, shmVars>>
  BY <1>1 DEF Access
<1>3. /\ Allocated' = Allocated /\ current' = current /\ cr3' = cr3 /\ stack' = stack
      /\ UNCHANGED <<content, used, cr3, code, stack, arg, shmVars>> /\ Mem' = Mem
      /\ state' = state /\ misused' = misused
  BY <1>2 DEF procVars, shmVars, Allocated, Mem
<1>4. Cached => Cached'
  <2> SUFFICES ASSUME Cached, NEW t \in tlb'
               PROVE  /\ \E j \in 0..(PAGE_MAX - 1) : t[1] = SharedPage(j)
                      /\ t[2] # Absent
                      /\ \/ misused'
                         \/ t[2] = Walk(Mem', cr3'[current'], t[1])
                         \/ t[2].frame = PastStack(current)'
    BY DEF Cached
  <2>1. PastStack(current)' = PastStack(current)
    BY <1>3 DEF PastStack
  <2>2. CASE t \in tlb
    BY <2>1, <2>2, <1>3 DEF Cached
  <2>3. CASE t = <<v, e>>
    BY <2>3, <1>1, <1>2, <1>3
  <2>4. QED
    BY <2>2, <2>3, <1>2
<1>5. state' \in [Proc -> {"none", "live", "zombie"}] /\ current' \in Allocated
  BY <1>3 DEF MemInv, MemTypes
<1>6. used \subseteq used' /\ used' \subseteq Managed
  BY <1>3 DEF MemInv, MemTypes
<1>7. QED
  BY <1>3, <1>4, <1>5, <1>6, QuietStep DEF NoLeak

-----------------------------------------------------------------------------
(* A process starts *)

LEMMA InitStep ==
    ASSUME Init
    PROVE  MemInv
<1>0. PICK m : m = [content |-> [f \in Managed |-> Other], used |-> {}]
  OBVIOUS
<1>a. PICK size \in CodeSize, ssize \in StackSize :
        LET new == NewSpace([content |-> [f \in Managed |-> Other], used |-> {}], Idle, size, ssize) IN
        /\ Fits(new.mem)
        /\ content = new.mem.content /\ used = new.mem.used
        /\ state = [p \in Proc |-> IF p = Idle THEN "live" ELSE "none"]
        /\ cr3 = [p \in Proc |-> IF p = Idle THEN new.dir ELSE 0]
        /\ code = [p \in Proc |-> IF p = Idle THEN new.code ELSE <<0, 0>>]
        /\ stack = [p \in Proc |-> IF p = Idle THEN new.stack ELSE <<0, 0>>]
        /\ arg = [p \in Proc |-> IF p = Idle THEN new.arg ELSE 0]
        /\ current = Idle /\ tlb = {}
        /\ shp_table = [k \in Key |-> None]
        /\ virtual_map = [i \in 0..(PAGE_MAX - 1) |-> FALSE]
        /\ held = [k \in Proc \X Key |-> 0] /\ misused = FALSE
  BY DEF Init
<1>1. PICK new :
        /\ new = NewSpace(m, Idle, size, ssize) /\ Fits(new.mem)
        /\ content = new.mem.content /\ used = new.mem.used
        /\ state = [p \in Proc |-> IF p = Idle THEN "live" ELSE "none"]
        /\ cr3 = [p \in Proc |-> IF p = Idle THEN new.dir ELSE 0]
        /\ code = [p \in Proc |-> IF p = Idle THEN new.code ELSE <<0, 0>>]
        /\ stack = [p \in Proc |-> IF p = Idle THEN new.stack ELSE <<0, 0>>]
        /\ arg = [p \in Proc |-> IF p = Idle THEN new.arg ELSE 0]
        /\ current = Idle /\ tlb = {}
        /\ shp_table = [k \in Key |-> None]
        /\ virtual_map = [i \in 0..(PAGE_MAX - 1) |-> FALSE]
        /\ held = [k \in Proc \X Key |-> 0] /\ misused = FALSE
  <2>1. PICK new : new = NewSpace(m, Idle, size, ssize)
    OBVIOUS
  <2>2. new = NewSpace([content |-> [f \in Managed |-> Other], used |-> {}], Idle, size, ssize)
    BY <1>0, <2>1
  <2>3. QED
    BY <1>a, <2>1, <2>2
<1>2. IsMem(m) /\ Idle \in Proc /\ Idle \in Parts
  BY <1>0, MemoryLayout, PartsType DEF IsMem
<1>3. /\ new.mem.used = m.used \cup NewFrames(new)
      /\ NewFrames(new) \cap m.used = {}
      /\ \A g \in m.used : new.mem.content[g] = m.content[g]
      /\ IsSpace(new.mem, new.dir)
      /\ ({new.dir} \cup TablesIn(new.mem, new.dir)) \cap (Block(new.code) \cup Block(new.stack)) = {}
      /\ Block(new.code) \cap Block(new.stack) = {}
  <2>1. new = NewSpace(m, Idle, size, ssize) /\ Fits(new.mem) /\ IsMem(m) /\ Idle \in Parts
    BY <1>1, <1>2
  <2>2. QED
    BY <2>1, NewSpaceCorrect, SMTT(40)
<1>4. /\ new.mem = [content |-> new.mem.content, used |-> new.mem.used]
      /\ DOMAIN new.mem.content = Managed
      /\ new.dir \in Nat /\ new.code \in Nat \X Nat /\ new.stack \in Nat \X Nat /\ new.arg \in Int
      /\ \A v \in UserPages : Walk(new.mem, new.dir, v) # Absent =>
            \E f \in Nat : Walk(new.mem, new.dir, v) = UserEntry(f)
                           /\ Own(new.code, new.stack, v, f)
      /\ StacksEndInPage =>
            /\ USER_STACK_END - 1 \in UserPages
            /\ Walk(new.mem, new.dir, USER_STACK_END - 1).frame * PAGE_SIZE + PAGE_SIZE - 4 = new.arg
  BY <1>1, <1>2, NewProcess
<1>5. /\ Mem = new.mem /\ Allocated = {Idle} /\ Registered = {}
      /\ cr3[Idle] = new.dir /\ code[Idle] = new.code /\ stack[Idle] = new.stack /\ arg[Idle] = new.arg
  BY <1>1, <1>2, <1>4 DEF Mem, Allocated, Registered
<1>6. MemTypes
  <2>1. /\ state \in [Proc -> {"none", "live", "zombie"}] /\ current \in Allocated
        /\ cr3 \in [Proc -> Nat] /\ arg \in [Proc -> Int]
        /\ code \in [Proc -> Nat \X Nat] /\ stack \in [Proc -> Nat \X Nat]
    <3>1. <<0, 0>> \in Nat \X Nat
      OBVIOUS
    <3>2. \A p \in Proc : code[p] \in Nat \X Nat /\ stack[p] \in Nat \X Nat
      BY <3>1, <1>1, <1>4
    <3>3. code \in [Proc -> Nat \X Nat] /\ stack \in [Proc -> Nat \X Nat]
      BY <3>2, <1>1
    <3>4. state \in [Proc -> {"none", "live", "zombie"}] /\ current \in Allocated
      BY <1>1, <1>5
    <3>5. cr3 \in [Proc -> Nat] /\ arg \in [Proc -> Int]
      BY <1>1, <1>4
    <3>6. QED
      BY <3>3, <3>4, <3>5
  <2>2. /\ shp_table \in [Key -> Shp \cup {None}]
        /\ virtual_map \in [0..(PAGE_MAX - 1) -> BOOLEAN]
        /\ held \in [Proc \X Key -> Nat] /\ misused \in BOOLEAN
    BY <1>1
  <2>3. DOMAIN content = Managed /\ used \subseteq Managed
    BY <1>1, <1>4 DEF Fits
  <2>4. QED
    BY <2>1, <2>2, <2>3 DEF MemTypes
<1>7. Tables(Idle) = TablesIn(new.mem, new.dir) /\ FramesOf(Idle) = NewFrames(new)
  <2>1. Tables(Idle) = TablesIn(new.mem, new.dir)
    BY <1>5, <1>6, MemIs
  <2>2. QED
    BY <2>1, <1>5 DEF FramesOf, NewFrames
<1>8. SpaceOf(Idle)
  BY <1>0, <1>1, <1>3, <1>5, <1>7 DEF SpaceOf
<1>9. Translations(Idle)
  BY <1>4, <1>5 DEF Translations, OwnPage
<1>10. StacksEndInPage => ArgumentOf(Idle)
  BY <1>4, <1>5 DEF ArgumentOf
<1>11. Apart
  BY <1>1, <1>5 DEF Apart
<1>12. Counted /\ Cached
  BY <1>1 DEF Counted, Cached
<1>13. QED
  BY <1>5, <1>6, <1>8, <1>9, <1>10, <1>11, <1>12 DEF MemInv, Spaces

LEMMA StartStep ==
    ASSUME MemInv, NEW p \in Proc, NEW size \in CodeSize, NEW ssize \in StackSize, Start(p, size, ssize)
    PROVE  MemInv' /\ NoLeak
<1>1. PICK m, new :
        /\ m = Mem /\ new = NewSpace(m, p, size, ssize) /\ Fits(new.mem)
        /\ state[current] = "live" /\ state[p] = "none"
        /\ state' = [state EXCEPT ![p] = "live"]
        /\ cr3' = [cr3 EXCEPT ![p] = new.dir]
        /\ code' = [code EXCEPT ![p] = new.code]
        /\ stack' = [stack EXCEPT ![p] = new.stack]
        /\ arg' = [arg EXCEPT ![p] = new.arg]
        /\ content' = new.mem.content /\ used' = new.mem.used
        /\ current' = current /\ tlb' = tlb /\ shp_table' = shp_table
        /\ virtual_map' = virtual_map /\ held' = held /\ misused' = misused
  BY DEF Start, shmVars
<1>2. IsMem(m) /\ Fits(m) /\ m.content = content /\ m.used = used /\ p \in Parts /\ MemTypes
  BY <1>1, MemIs, PartsType DEF MemInv
<1>3. /\ new.mem.used = m.used \cup NewFrames(new)
      /\ NewFrames(new) \cap m.used = {}
      /\ \A g \in m.used : new.mem.content[g] = m.content[g]
      /\ IsSpace(new.mem, new.dir)
      /\ ({new.dir} \cup TablesIn(new.mem, new.dir)) \cap (Block(new.code) \cup Block(new.stack)) = {}
      /\ Block(new.code) \cap Block(new.stack) = {}
  <2>1. new = NewSpace(m, p, size, ssize) /\ Fits(new.mem)
    BY <1>1
  <2>2. QED
    BY <2>1, <1>2, NewSpaceCorrect, SMTT(40)
<1>4. /\ new.mem = [content |-> new.mem.content, used |-> new.mem.used]
      /\ DOMAIN new.mem.content = Managed
      /\ new.dir \in Nat /\ new.code \in Nat \X Nat /\ new.stack \in Nat \X Nat /\ new.arg \in Int
      /\ \A v \in UserPages : Walk(new.mem, new.dir, v) # Absent =>
            \E f \in Nat : Walk(new.mem, new.dir, v) = UserEntry(f)
                           /\ Own(new.code, new.stack, v, f)
      /\ StacksEndInPage =>
            /\ USER_STACK_END - 1 \in UserPages
            /\ Walk(new.mem, new.dir, USER_STACK_END - 1).frame * PAGE_SIZE + PAGE_SIZE - 4 = new.arg
  BY <1>1, <1>2, NewProcess
<1>5. /\ Mem' = new.mem /\ Registered' = Registered
      /\ Allocated' = Allocated \cup {p} /\ p \notin Allocated /\ current \in Allocated
      /\ cr3'[p] = new.dir /\ code'[p] = new.code /\ stack'[p] = new.stack /\ arg'[p] = new.arg
  <2>1. Mem' = new.mem /\ Registered' = Registered
    BY <1>1, <1>4 DEF Mem, Registered
  <2>2. Allocated' = Allocated \cup {p} /\ p \notin Allocated
    BY <1>1, <1>2 DEF Allocated, MemTypes
  <2>3. QED
    BY <2>1, <2>2, <1>1, <1>2 DEF MemTypes
<1>6. MemTypes'
  <2>1. /\ state' \in [Proc -> {"none", "live", "zombie"}] /\ current' \in Allocated'
        /\ cr3' \in [Proc -> Nat] /\ arg' \in [Proc -> Int]
        /\ code' \in [Proc -> Nat \X Nat] /\ stack' \in [Proc -> Nat \X Nat]
    BY <1>1, <1>2, <1>4, <1>5 DEF MemTypes
  <2>2. /\ shp_table' \in [Key -> Shp \cup {None}]
        /\ virtual_map' \in [0..(PAGE_MAX - 1) -> BOOLEAN]
        /\ held' \in [Proc \X Key -> Nat] /\ misused' \in BOOLEAN
    BY <1>1, <1>2 DEF MemTypes
  <2>3. DOMAIN content' = Managed /\ used' \subseteq Managed
    BY <1>1, <1>4 DEF Fits
  <2>4. QED
    BY <2>1, <2>2, <2>3 DEF MemTypes
<1>7. Tables(p)' = TablesIn(new.mem, new.dir) /\ FramesOf(p)' = NewFrames(new)
  <2>1. Tables(p)' = TablesIn(new.mem, new.dir)
    BY <1>1, <1>5 DEF Tables, TablesIn
  <2>2. QED
    BY <2>1, <1>5 DEF FramesOf, NewFrames
<1>8. SpaceOf(p)'
  BY <1>1, <1>3, <1>5, <1>7 DEF SpaceOf
<1>9. Translations(p)'
  BY <1>4, <1>5 DEF Translations, OwnPage
<1>10. StacksEndInPage => ArgumentOf(p)'
  BY <1>4, <1>5 DEF ArgumentOf
<1>11. ASSUME NEW q \in Allocated
       PROVE  /\ SpaceOf(q)' /\ FramesOf(q)' = FramesOf(q) /\ FramesOf(q) \subseteq used
              /\ PastStack(q)' = PastStack(q)
              /\ Translations(q)' /\ (StacksEndInPage => ArgumentOf(q)')
              /\ \A v \in UserPages : Walk(Mem', cr3'[q], v) = Walk(Mem, cr3[q], v)
  <2>1. q # p /\ q \in Proc /\ SpaceOf(q) /\ FramesOf(q) \subseteq used
        /\ Translations(q) /\ (StacksEndInPage => ArgumentOf(q))
    BY <1>5 DEF MemInv, Spaces, SpaceOf, Allocated
  <2>2. cr3'[q] = cr3[q] /\ code'[q] = code[q] /\ stack'[q] = stack[q] /\ arg'[q] = arg[q]
    BY <2>1, <1>1, <1>2 DEF MemTypes
  <2>3. SameProcess(q)
    BY <2>1, <2>2, <1>1, <1>2, <1>3 DEF SameProcess
  <2>4. /\ SpaceOf(q)' /\ FramesOf(q)' = FramesOf(q) /\ PastStack(q)' = PastStack(q)
        /\ \A v \in UserPages : Walk(Mem', cr3'[q], v) = Walk(Mem, cr3[q], v)
    BY <2>1, <2>3, <1>2, <1>5, <1>6, SpaceStays
  <2>5. SameReferences(q)
    BY <1>1, <1>5 DEF SameReferences
  <2>6. Translations(q)'
    BY <2>1, <2>3, <2>4, <2>5, TranslationsStay
  <2>7. StacksEndInPage => ArgumentOf(q)'
    BY <2>1, <2>3, <2>4, ArgumentStays DEF ArgumentOf, SameProcess
  <2>8. QED
    BY <2>1, <2>4, <2>6, <2>7
<1>12. Spaces' /\ \A q \in Allocated' : Translations(q)'
  BY <1>5, <1>8, <1>9, <1>11 DEF Spaces
<1>13. Apart'
  <2>1. \A q \in Allocated : FramesOf(p)' \cap FramesOf(q)' = {}
    BY <1>2, <1>3, <1>7, <1>11
  <2>2. \A k \in Registered : shp_table[k].frame \in used
    BY DEF MemInv, Apart
  <2>3. \A k \in Registered : shp_table[k].frame \notin FramesOf(p)'
    BY <2>2, <1>2, <1>3, <1>7
  <2>4. \A q, r \in Allocated' : q # r => FramesOf(q)' \cap FramesOf(r)' = {}
    BY <2>1, <1>5, <1>11 DEF MemInv, Apart
  <2>5. \A k \in Registered : shp_table[k].frame \in used' /\
                \A q \in Allocated' : shp_table[k].frame \notin FramesOf(q)'
    BY <2>2, <2>3, <1>1, <1>2, <1>3, <1>5, <1>11 DEF MemInv, Apart
  <2>6. QED
    BY <2>4, <2>5, <1>1, <1>5 DEF MemInv, Apart
<1>14. Counted'
  BY <1>1 DEF MemInv, Counted
<1>15. StacksEndInPage => Cached'
  BY <1>1, <1>5, <1>11, CachedStays DEF MemInv
<1>16. StacksEndInPage => \A q \in Allocated' : ArgumentOf(q)'
  BY <1>5, <1>10, <1>11
<1>17. MemInv'
  BY <1>6, <1>12, <1>13, <1>14, <1>15, <1>16 DEF MemInv
<1>18. NoLeak
  <2>1. \A f : f \in Owned' <=> \/ \E q \in Allocated' : f \in FramesOf(q)'
                                \/ \E k \in Registered' : f = shp_table'[k].frame
    BY OwnedNext
  <2>0. \A f : f \in Owned <=> \/ \E q \in Allocated : f \in FramesOf(q)
                               \/ \E k \in Registered : f = shp_table[k].frame
    BY OwnedIs
  <2>2. Owned' = Owned \cup NewFrames(new)
    BY <2>0, <2>1, <1>1, <1>5, <1>7, <1>11
  <2>3. QED
    BY <2>2, <1>1, <1>2, <1>3 DEF NoLeak
<1>19. QED
  BY <1>17, <1>18

-----------------------------------------------------------------------------
(* A process is freed *)

\* The references that are attributed to p.
Of(owner, n, p) == {i \in 1..n : owner[i] = p}

LEMMA OfFinite ==
    ASSUME NEW n \in Nat, NEW owner, NEW p
    PROVE  IsFiniteSet(Of(owner, n, p)) /\ Cardinality(Of(owner, n, p)) \in 0..n
<1>1. IsFiniteSet(1..n) /\ Cardinality(1..n) = n
  BY FS_Interval
<1>2. Of(owner, n, p) \subseteq 1..n
  BY DEF Of
<1>3. IsFiniteSet(Of(owner, n, p)) /\ Cardinality(Of(owner, n, p)) <= n
  BY <1>1, <1>2, FS_Subset
<1>4. QED
  BY <1>3, FS_CardinalityType

LEMMA FewerReferences ==
    ASSUME NEW h \in [Proc \X Key -> Nat], NEW h2 \in [Proc \X Key -> Nat], NEW k \in Key,
           NEW n \in Nat, Attributed(h, k, n), \A p \in Proc : h2[<<p, k>>] <= h[<<p, k>>]
    PROVE  Attributed(h2, k, n)
<1>1. PICK owner \in [1..n -> Proc] :
        \A p \in Proc : h[<<p, k>>] <= Cardinality({i \in 1..n : owner[i] = p})
  BY DEF Attributed
<1>2. ASSUME NEW p \in Proc PROVE h2[<<p, k>>] <= Cardinality({i \in 1..n : owner[i] = p})
  <2>1. Cardinality({i \in 1..n : owner[i] = p}) \in Nat
    <3>1. Cardinality(Of(owner, n, p)) \in Nat
      BY OfFinite
    <3>2. QED
      BY <3>1 DEF Of
  <2>2. /\ h2[<<p, k>>] \in Nat /\ h[<<p, k>>] \in Nat /\ h2[<<p, k>>] <= h[<<p, k>>]
        /\ h[<<p, k>>] <= Cardinality({i \in 1..n : owner[i] = p})
    BY <1>1
  <2>3. QED
    BY <2>1, <2>2
<1>3. QED
  BY <1>2 DEF Attributed

LEMMA FreeTaskStep ==
    ASSUME MemInv, NEW p \in Proc, FreeTask(p)
    PROVE  MemInv' /\ NoLeak
<1>1. PICK m, m2 :
        /\ m = Mem
        /\ m2 = free_physical_page(free_physical_page(page_directory_destroy(m, cr3[p]), stack[p]), code[p])
        /\ state[p] = "zombie" /\ p # current
        /\ used' = m2.used /\ content' = m2.content
        /\ state' = [state EXCEPT ![p] = "none"]
        /\ cr3' = [cr3 EXCEPT ![p] = 0] /\ arg' = [arg EXCEPT ![p] = 0]
        /\ code' = [code EXCEPT ![p] = <<0, 0>>] /\ stack' = [stack EXCEPT ![p] = <<0, 0>>]
        /\ held' = [k \in DOMAIN held |-> IF k[1] = p THEN 0 ELSE held[k]]
        /\ current' = current /\ tlb' = tlb /\ shp_table' = shp_table
        /\ virtual_map' = virtual_map /\ misused' = misused
  BY DEF FreeTask
<1>2. IsMem(m) /\ Fits(m) /\ m.content = content /\ m.used = used /\ MemTypes
      /\ p \in Allocated /\ Tables(p) = TablesIn(m, cr3[p]) /\ SpaceOf(p)
  BY <1>1, MemIs DEF MemInv, Spaces, Allocated
<1>3. /\ IsMem(m2) /\ m2.used = m.used \ FramesOf(p)
      /\ \A g \in Managed : g \notin FramesOf(p) => m2.content[g] = m.content[g]
  BY <1>1, <1>2, FreeSpace DEF FramesOf
<1>4. /\ Registered' = Registered /\ Allocated' = Allocated \ {p} /\ current \in Allocated \ {p}
  BY <1>1, <1>2 DEF Registered, Allocated, MemTypes
<1>5. held' \in [Proc \X Key -> Nat] /\ \A q \in Proc, k \in Key : held'[<<q, k>>] = IF q = p THEN 0 ELSE held[<<q, k>>]
  <2>1. held \in [Proc \X Key -> Nat]
    BY <1>2 DEF MemTypes
  <2>2. QED
    BY <1>1, <2>1
<1>6. MemTypes'
  <2>1. state' \in [Proc -> {"none", "live", "zombie"}] /\ current' \in Allocated'
    BY <1>1, <1>2, <1>4 DEF MemTypes
  <2>2. cr3' \in [Proc -> Nat] /\ arg' \in [Proc -> Int]
    BY <1>1, <1>2 DEF MemTypes
  <2>3. code' \in [Proc -> Nat \X Nat] /\ stack' \in [Proc -> Nat \X Nat]
    BY <1>1, <1>2 DEF MemTypes
  <2>4. /\ shp_table' \in [Key -> Shp \cup {None}]
        /\ virtual_map' \in [0..(PAGE_MAX - 1) -> BOOLEAN] /\ misused' \in BOOLEAN
    BY <1>1, <1>2 DEF MemTypes
  <2>5. DOMAIN content' = Managed /\ used' \subseteq Managed
    BY <1>1, <1>2, <1>3 DEF IsMem, Fits
  <2>6. QED
    BY <1>5, <2>1, <2>2, <2>3, <2>4, <2>5 DEF MemTypes
<1>7. ASSUME NEW q \in Allocated, q # p
      PROVE  /\ SpaceOf(q)' /\ FramesOf(q)' = FramesOf(q) /\ PastStack(q)' = PastStack(q)
             /\ Translations(q)' /\ (StacksEndInPage => ArgumentOf(q)')
             /\ \A v \in UserPages : Walk(Mem', cr3'[q], v) = Walk(Mem, cr3[q], v)
  <2>1. q \in Proc /\ SpaceOf(q) /\ FramesOf(q) \subseteq used
        /\ Translations(q) /\ (StacksEndInPage => ArgumentOf(q))
    BY DEF MemInv, Spaces, SpaceOf, Allocated
  <2>2. cr3'[q] = cr3[q] /\ code'[q] = code[q] /\ stack'[q] = stack[q] /\ arg'[q] = arg[q]
    BY <1>7, <2>1, <1>1, <1>2 DEF MemTypes
  <2>3. FramesOf(q) \cap FramesOf(p) = {}
    BY <1>2, <1>7 DEF MemInv, Apart
  <2>4. FramesOf(q) \subseteq used' /\ \A g \in FramesOf(q) : content'[g] = content[g]
    BY <2>1, <2>3, <1>1, <1>2, <1>3 DEF MemTypes
  <2>5. SameProcess(q)
    BY <2>2, <2>4 DEF SameProcess
  <2>6. /\ SpaceOf(q)' /\ FramesOf(q)' = FramesOf(q) /\ PastStack(q)' = PastStack(q)
        /\ \A v \in UserPages : Walk(Mem', cr3'[q], v) = Walk(Mem, cr3[q], v)
    BY <1>7, <2>1, <2>5, <1>2, <1>4, <1>6, SpaceStays
  <2>7. SameReferences(q)
    BY <1>1, <1>4, <1>5, <1>7, <2>1 DEF SameReferences, Registered
  <2>8. Translations(q)'
    BY <2>1, <2>5, <2>6, <2>7, TranslationsStay
  <2>9. StacksEndInPage => ArgumentOf(q)'
    BY <2>1, <2>5, <2>6, ArgumentStays DEF ArgumentOf, SameProcess
  <2>10. QED
    BY <2>6, <2>8, <2>9
<1>8. Spaces' /\ \A q \in Allocated' : Translations(q)'
  BY <1>4, <1>7 DEF Spaces
<1>9. Apart'
  <2>1. \A q, r \in Allocated' : q # r => FramesOf(q)' \cap FramesOf(r)' = {}
    BY <1>4, <1>7 DEF MemInv, Apart
  <2>2. \A k \in Registered : shp_table[k].frame \in used' /\
                \A q \in Allocated' : shp_table[k].frame \notin FramesOf(q)'
    BY <1>1, <1>2, <1>3, <1>4, <1>7 DEF MemInv, Apart
  <2>3. QED
    BY <2>1, <2>2, <1>1, <1>4 DEF MemInv, Apart
<1>10. Counted'
  <2> SUFFICES ASSUME ~misused', NEW k \in Key
               PROVE  IF shp_table'[k] = None THEN \A q \in Proc : held'[<<q, k>>] = 0
                                              ELSE Attributed(held', k, shp_table'[k].refcount)
    BY DEF Counted
  <2>1. IF shp_table[k] = None THEN \A q \in Proc : held[<<q, k>>] = 0
                               ELSE Attributed(held, k, shp_table[k].refcount)
    BY <1>1 DEF MemInv, Counted
  <2>2. CASE shp_table[k] = None
    BY <2>1, <2>2, <1>1, <1>5
  <2>3. CASE shp_table[k] # None
    <3>1. PICK n \in Nat : n = shp_table[k].refcount
      BY <2>3, <1>2 DEF MemTypes, Shp
    <3>2. Attributed(held, k, n) /\ held \in [Proc \X Key -> Nat]
      BY <2>1, <2>3, <3>1, <1>2 DEF MemTypes
    <3>3. \A q \in Proc : held'[<<q, k>>] <= held[<<q, k>>]
      BY <3>2, <1>5
    <3>4. PICK h, h2 : h = held /\ h2 = held'
      OBVIOUS
    <3>5. Attributed(h2, k, n)
      BY <3>2, <3>3, <3>4, <1>5, FewerReferences
    <3>6. QED
      BY <2>3, <3>1, <3>4, <3>5, <1>1
  <2>4. QED
    BY <2>2, <2>3
<1>11. StacksEndInPage => Cached'
  BY <1>4, <1>7, CachedStays, <1>1 DEF MemInv
<1>12. StacksEndInPage => \A q \in Allocated' : ArgumentOf(q)'
  BY <1>4, <1>7
<1>13. MemInv'
  BY <1>6, <1>8, <1>9, <1>10, <1>11, <1>12 DEF MemInv
<1>14. NoLeak
  <2>1. \A f : f \in Owned' <=> \/ \E q \in Allocated' : f \in FramesOf(q)'
                                \/ \E k \in Registered' : f = shp_table'[k].frame
    BY OwnedNext
  <2>2. \A f : f \in Owned <=> \/ \E q \in Allocated : f \in FramesOf(q)
                               \/ \E k \in Registered : f = shp_table[k].frame
    BY OwnedIs
  <2>3. \A q \in Allocated \ {p} : FramesOf(q) \cap FramesOf(p) = {}
    BY <1>2 DEF MemInv, Apart
  <2>4. \A k \in Registered : shp_table[k].frame \notin FramesOf(p)
    BY <1>2 DEF MemInv, Apart
  <2>5. Owned' = Owned \ FramesOf(p) /\ FramesOf(p) \subseteq Owned
    BY <2>1, <2>2, <2>3, <2>4, <1>1, <1>2, <1>4, <1>7
  <2>6. QED
    BY <2>5, <1>1, <1>2, <1>3 DEF NoLeak
<1>15. QED
  BY <1>13, <1>14

-----------------------------------------------------------------------------
(* The current process maps or unmaps a shared page *)

\* The directory of the current process gets the tables `new'; nobody else's frames change.
Remapped(new) ==
    /\ UNCHANGED procVars
    /\ new \cap used = {} /\ new \subseteq used'
    /\ \A q \in Allocated : FramesOf(q) \subseteq used'
    /\ \A q \in Allocated \ {current} : \A g \in FramesOf(q) : content'[g] = content[g]
    /\ IsSpace(Mem', cr3[current]) /\ Tables(current)' = Tables(current) \cup new

LEMMA RemapStep ==
    ASSUME MemInv, MemTypes', NEW new, Remapped(new)
    PROVE  /\ Allocated' = Allocated /\ Spaces'
           /\ FramesOf(current)' = FramesOf(current) \cup new
           /\ \A q \in Allocated \ {current} :
                 /\ FramesOf(q)' = FramesOf(q)
                 /\ SameReferences(q) => Translations(q)'
                 /\ StacksEndInPage => ArgumentOf(q)'
           /\ \A q, r \in Allocated : q # r => FramesOf(q)' \cap FramesOf(r)' = {}
           /\ \A f \in used : f \notin FramesOf(current) => f \notin FramesOf(current)'
<1>1. /\ state' = state /\ cr3' = cr3 /\ code' = code /\ stack' = stack /\ arg' = arg
      /\ current' = current /\ Allocated' = Allocated /\ current \in Allocated
      /\ MemTypes /\ new \cap used = {}
  BY DEF Remapped, procVars, Allocated, MemInv, MemTypes
<1>2. FramesOf(current)' = FramesOf(current) \cup new
  BY <1>1 DEF FramesOf, Remapped
<1>3. SpaceOf(current)'
  <2>1. SpaceOf(current)
    BY <1>1 DEF MemInv, Spaces
  <2>2. (Block(code[current]) \cup Block(stack[current])) \subseteq used
    BY <2>1 DEF SpaceOf, FramesOf
  <2>3. ({cr3[current]} \cup Tables(current)') \cap (Block(code[current]) \cup Block(stack[current])) = {}
    BY <2>1, <2>2, <1>1 DEF SpaceOf, Remapped
  <2>4. FramesOf(current)' \subseteq used'
    BY <1>1, <1>2 DEF Remapped
  <2>5. QED
    BY <2>1, <2>3, <2>4, <1>1 DEF SpaceOf, Remapped
<1>4. ASSUME NEW q \in Allocated \ {current}
      PROVE  /\ SpaceOf(q)' /\ FramesOf(q)' = FramesOf(q)
             /\ SameReferences(q) => Translations(q)'
             /\ StacksEndInPage => ArgumentOf(q)'
  <2>1. SpaceOf(q) /\ Translations(q) /\ (StacksEndInPage => ArgumentOf(q))
    BY DEF MemInv, Spaces
  <2>2. SameProcess(q)
    BY <1>1 DEF SameProcess, Remapped
  <2>3. /\ SpaceOf(q)' /\ FramesOf(q)' = FramesOf(q)
        /\ \A v \in UserPages : Walk(Mem', cr3'[q], v) = Walk(Mem, cr3[q], v)
    BY <2>1, <2>2, <1>1, SpaceStays
  <2>4. SameReferences(q) => Translations(q)'
    BY <2>1, <2>2, <2>3, TranslationsStay
  <2>5. StacksEndInPage => ArgumentOf(q)'
    BY <2>1, <2>2, <2>3, ArgumentStays DEF ArgumentOf, SameProcess
  <2>6. QED
    BY <2>3, <2>4, <2>5
<1>5. Spaces'
  BY <1>1, <1>3, <1>4 DEF Spaces
<1>6. \A q \in Allocated : FramesOf(q) \subseteq used
  BY DEF MemInv, Spaces, SpaceOf
<1>7. \A q, r \in Allocated : q # r => FramesOf(q) \cap FramesOf(r) = {}
  BY DEF MemInv, Apart
<1>8. ASSUME NEW q \in Allocated, NEW r \in Allocated, q # r
      PROVE  FramesOf(q)' \cap FramesOf(r)' = {}
  <2>1. FramesOf(q) \cap FramesOf(r) = {} /\ FramesOf(q) \cap new = {} /\ FramesOf(r) \cap new = {}
    BY <1>1, <1>6, <1>7, <1>8
  <2>2. CASE q = current
    <3>1. FramesOf(q)' = FramesOf(q) \cup new
      BY <1>1, <1>2, <2>2 DEF FramesOf, Tables
    <3>2. FramesOf(r)' = FramesOf(r)
      BY <2>2, <1>4, <1>8
    <3>3. QED
      BY <2>1, <3>1, <3>2
  <2>3. CASE r = current
    <3>1. FramesOf(r)' = FramesOf(r) \cup new
      BY <1>1, <1>2, <2>3 DEF FramesOf, Tables
    <3>2. FramesOf(q)' = FramesOf(q)
      BY <2>3, <1>4, <1>8
    <3>3. QED
      BY <2>1, <3>1, <3>2
  <2>4. CASE q # current /\ r # current
    BY <2>1, <2>4, <1>4
  <2>5. QED
    BY <2>2, <2>3, <2>4
<1>9. \A f \in used : f \notin FramesOf(current) => f \notin FramesOf(current)'
  BY <1>1, <1>2
<1>10. QED
  BY <1>1, <1>2, <1>4, <1>5, <1>8, <1>9

-----------------------------------------------------------------------------
(* References to shared pages *)

LEMMA NoReferences ==
    ASSUME NEW h \in [Proc \X Key -> Nat], NEW k \in Key
    PROVE  Attributed(h, k, 0) <=> \A p \in Proc : h[<<p, k>>] = 0
<1>1. \A owner, p : {i \in 1..0 : owner[i] = p} = {}
  OBVIOUS
<1>2. Cardinality({}) = 0
  BY FS_EmptySet
<1>3. [i \in 1..0 |-> Idle] \in [1..0 -> Proc]
  OBVIOUS
<1>4. \A p \in Proc : h[<<p, k>>] \in Nat
  OBVIOUS
<1>5. ASSUME \A p \in Proc : h[<<p, k>>] = 0 PROVE Attributed(h, k, 0)
  <2>1. PICK owner \in [1..0 -> Proc] : TRUE
    BY <1>3
  <2>2. \A p \in Proc : h[<<p, k>>] <= Cardinality({i \in 1..0 : owner[i] = p})
    BY <1>1, <1>2, <1>5
  <2>3. QED
    BY <2>2 DEF Attributed
<1>6. ASSUME Attributed(h, k, 0), NEW p \in Proc PROVE h[<<p, k>>] = 0
  <2>1. PICK owner \in [1..0 -> Proc] :
          \A q \in Proc : h[<<q, k>>] <= Cardinality({i \in 1..0 : owner[i] = q})
    BY <1>6 DEF Attributed
  <2>2. h[<<p, k>>] <= 0
    BY <2>1, <1>1, <1>2
  <2>3. QED
    BY <2>2, <1>4
<1>7. QED
  BY <1>5, <1>6

LEMMA AtMostCounted ==
    ASSUME NEW h \in [Proc \X Key -> Nat], NEW k \in Key, NEW n \in Nat, Attributed(h, k, n),
           NEW p \in Proc
    PROVE  h[<<p, k>>] <= n
<1>1. PICK owner \in [1..n -> Proc] :
        \A q \in Proc : h[<<q, k>>] <= Cardinality({i \in 1..n : owner[i] = q})
  BY DEF Attributed
<1>2. Cardinality(Of(owner, n, p)) \in 0..n
  BY OfFinite
<1>3. h[<<p, k>>] <= Cardinality(Of(owner, n, p)) /\ h[<<p, k>>] \in Nat
  BY <1>1 DEF Of
<1>4. QED
  BY <1>2, <1>3

\* One reference more: it is attributed to c.
LEMMA MoreReferences ==
    ASSUME NEW h \in [Proc \X Key -> Nat], NEW k \in Key, NEW n \in Nat, Attributed(h, k, n),
           NEW c \in Proc, NEW h2, h2 = [h EXCEPT ![<<c, k>>] = @ + 1]
    PROVE  Attributed(h2, k, n + 1)
<1>1. PICK owner \in [1..n -> Proc] :
        \A q \in Proc : h[<<q, k>>] <= Cardinality({i \in 1..n : owner[i] = q})
  BY DEF Attributed
<1> DEFINE owner2 == [i \in 1..(n + 1) |-> IF i = n + 1 THEN c ELSE owner[i]]
<1>2. owner2 \in [1..(n + 1) -> Proc]
  OBVIOUS
<1>3. ASSUME NEW q \in Proc
      PROVE  h2[<<q, k>>] <= Cardinality({i \in 1..(n + 1) : owner2[i] = q})
  <2>1. PICK S, S2 : S = Of(owner, n, q) /\ S2 = {i \in 1..(n + 1) : owner2[i] = q}
    OBVIOUS
  <2>2. IsFiniteSet(S) /\ Cardinality(S) \in Nat /\ n + 1 \notin S
    <3>1. IsFiniteSet(S) /\ Cardinality(S) \in Nat
      BY <2>1, OfFinite
    <3>2. n + 1 \notin S
      BY <2>1 DEF Of
    <3>3. QED
      BY <3>1, <3>2
  <2>3. h[<<q, k>>] \in Nat /\ h[<<q, k>>] <= Cardinality(S)
    BY <1>1, <2>1 DEF Of
  <2>4. CASE q = c
    <3>1. S2 = S \cup {n + 1}
      BY <2>1, <2>4 DEF Of
    <3>2. Cardinality(S2) = Cardinality(S) + 1
      BY <3>1, <2>2, FS_AddElement
    <3>3. h2[<<q, k>>] = h[<<q, k>>] + 1
      BY <2>4
    <3>4. h2[<<q, k>>] <= Cardinality(S2)
      BY <3>2, <3>3, <2>2, <2>3
    <3>5. QED
      BY <3>4, <2>1
  <2>5. CASE q # c
    <3>1. S2 = S
      BY <2>1, <2>5 DEF Of
    <3>2. h2[<<q, k>>] = h[<<q, k>>]
      BY <2>5
    <3>3. QED
      BY <3>1, <3>2, <2>1, <2>3
  <2>6. QED
    BY <2>4, <2>5
<1>4. QED
  BY <1>2, <1>3 DEF Attributed

\* One reference less: c gives up one that is attributed to him, and the last one
\* takes its place.
LEMMA LessReferences ==
    ASSUME NEW h \in [Proc \X Key -> Nat], NEW k \in Key, NEW n \in Nat, Attributed(h, k, n + 1),
           NEW c \in Proc, h[<<c, k>>] > 0, NEW h2, h2 = [h EXCEPT ![<<c, k>>] = @ - 1]
    PROVE  Attributed(h2, k, n)
<1>1. PICK owner \in [1..(n + 1) -> Proc] :
        \A q \in Proc : h[<<q, k>>] <= Cardinality({i \in 1..(n + 1) : owner[i] = q})
  BY DEF Attributed
<1>2. PICK t \in Of(owner, n + 1, c) : TRUE
  <2>1. Cardinality(Of(owner, n + 1, c)) \in 0..(n + 1)
    BY OfFinite
  <2>2. h[<<c, k>>] \in Nat /\ h[<<c, k>>] <= Cardinality(Of(owner, n + 1, c))
    BY <1>1 DEF Of
  <2>3. Cardinality(Of(owner, n + 1, c)) # 0
    BY <2>1, <2>2
  <2>4. Of(owner, n + 1, c) # {}
    BY <2>3, FS_EmptySet
  <2>5. QED
    BY <2>4
<1>3. t \in 1..(n + 1) /\ owner[t] = c
  BY <1>2 DEF Of
<1>0. n + 1 \in 1..(n + 1) /\ \A i : i \in 1..(n + 1) <=> i \in 1..n \/ i = n + 1
  OBVIOUS
<1> DEFINE owner2 == [i \in 1..n |-> IF i = t THEN owner[n + 1] ELSE owner[i]]
<1>4. owner2 \in [1..n -> Proc]
  OBVIOUS
<1>5. ASSUME NEW q \in Proc
      PROVE  h2[<<q, k>>] <= Cardinality({i \in 1..n : owner2[i] = q})
  <2>1. PICK S, S2 : S = Of(owner, n + 1, q) /\ S2 = {i \in 1..n : owner2[i] = q}
    OBVIOUS
  <2>2. IsFiniteSet(S) /\ Cardinality(S) \in Nat
    BY <2>1, OfFinite
  <2>3. h[<<q, k>>] \in Nat /\ h[<<q, k>>] <= Cardinality(S)
    BY <1>1, <2>1 DEF Of
  <2>4. \A i : i \in S <=> i \in 1..(n + 1) /\ owner[i] = q
    BY <2>1 DEF Of
  <2>5. \A i : i \in S2 <=> i \in 1..n /\ (IF i = t THEN owner[n + 1] = q ELSE owner[i] = q)
    BY <2>1
  <2>6. CASE q = c
    <3>1. t \in S
      BY <1>3, <2>4, <2>6
    <3>2. S2 = S \ {n + 1} \/ S2 = S \ {t}
      <4>1. CASE owner[n + 1] = c
        <5>1. S2 = S \ {n + 1}
          BY <4>1, <1>3, <2>4, <2>5, <2>6
        <5>2. QED
          BY <5>1
      <4>2. CASE owner[n + 1] # c
        <5>1. S2 = S \ {t}
          BY <4>2, <1>3, <2>4, <2>5, <2>6
        <5>2. QED
          BY <5>1
      <4>3. QED
        BY <4>1, <4>2
    <3>3. PICK x : S2 = S \ {x}
      BY <3>2
    <3>4. Cardinality(S2) \in Nat /\ Cardinality(S2) >= Cardinality(S) - 1
      <4>1. CASE x \in S
        <5>1. IsFiniteSet(S2) /\ Cardinality(S2) = Cardinality(S) - 1
          BY <4>1, <3>3, <2>2, FS_RemoveElement
        <5>2. Cardinality(S2) \in Nat
          BY <5>1, FS_CardinalityType
        <5>3. QED
          BY <5>1, <5>2, <2>2
      <4>2. CASE x \notin S
        <5>1. S2 = S
          BY <4>2, <3>3
        <5>2. QED
          BY <5>1, <2>2
      <4>3. QED
        BY <4>1, <4>2
    <3>5. h2[<<q, k>>] = h[<<q, k>>] - 1
      BY <2>6
    <3>6. h2[<<q, k>>] <= Cardinality(S2)
      BY <3>4, <3>5, <2>2, <2>3
    <3>7. QED
      BY <3>6, <2>1
  <2>7. CASE q # c
    <3>1. h2[<<q, k>>] = h[<<q, k>>] /\ t \notin S
      BY <2>7, <1>3, <2>4
    <3>2. Cardinality(S2) = Cardinality(S)
      <4>1. CASE owner[n + 1] = q
        <5>1. t # n + 1 /\ t \in 1..n /\ n + 1 \in S /\ n + 1 \in 1..(n + 1)
          BY <4>1, <1>0, <1>3, <2>4, <2>7
        <5>2. S2 = (S \ {n + 1}) \cup {t}
          BY <5>1, <4>1, <2>4, <2>5
        <5>3. IsFiniteSet(S \ {n + 1}) /\ Cardinality(S \ {n + 1}) = Cardinality(S) - 1
          BY <5>1, <2>2, FS_RemoveElement
        <5>4. t \notin S \ {n + 1}
          BY <3>1
        <5>5. Cardinality(S2) = Cardinality(S \ {n + 1}) + 1
          BY <5>2, <5>3, <5>4, FS_AddElement
        <5>6. QED
          BY <5>3, <5>5, <2>2
      <4>2. CASE owner[n + 1] # q
        <5>1. S2 = S
          BY <4>2, <3>1, <1>0, <2>4, <2>5
        <5>2. QED
          BY <5>1
      <4>3. QED
        BY <4>1, <4>2
    <3>3. QED
      BY <3>1, <3>2, <2>1, <2>3
  <2>8. QED
    BY <2>6, <2>7
<1>6. QED
  BY <1>4, <1>5 DEF Attributed

-----------------------------------------------------------------------------
(* What the current process sees afterwards *)

\* Page v of the current process is mapped to e now.
NowMapped(v, e) ==
    \A w \in UserPages :
        Walk(Mem', cr3'[current], w) = IF w = v THEN e ELSE Walk(Mem, cr3[current], w)

LEMMA TranslationsRemapped ==
    ASSUME MemInv, UNCHANGED procVars, NEW v \in UserPages, NEW e, NowMapped(v, e),
           misused => misused',
           e = Absent \/ \E f \in Nat : e = UserEntry(f) /\ (misused' \/ OwnPage(current, v, f)'),
           \A w \in UserPages \ {v}, f \in Nat :
              ~misused' /\ OwnPage(current, w, f) => OwnPage(current, w, f)'
    PROVE  Translations(current)'
<1>1. current' = current /\ current \in Allocated
  BY DEF procVars, MemInv, MemTypes
<1> SUFFICES ASSUME NEW w \in UserPages, Walk(Mem', cr3'[current], w) # Absent
             PROVE  \E f \in Nat : Walk(Mem', cr3'[current], w) = UserEntry(f)
                                   /\ (misused' \/ OwnPage(current, w, f)')
  BY <1>1 DEF Translations, OwnPage
<1>2. CASE w = v
  BY <1>2 DEF NowMapped
<1>3. CASE w # v
  <2>1. Walk(Mem', cr3'[current], w) = Walk(Mem, cr3[current], w)
    BY <1>3 DEF NowMapped
  <2>2. PICK f \in Nat : Walk(Mem, cr3[current], w) = UserEntry(f) /\ (misused \/ OwnPage(current, w, f))
    BY <2>1, <1>1 DEF MemInv, Translations
  <2>3. QED
    BY <1>3, <2>1, <2>2
<1>4. QED
  BY <1>2, <1>3

LEMMA ArgumentRemapped ==
    ASSUME MemInv, StacksEndInPage, UNCHANGED procVars, NEW v \in Nat, v >= USER_STACK_END,
           NEW e, NowMapped(v, e)
    PROVE  ArgumentOf(current)'
<1>1. /\ current' = current /\ cr3' = cr3 /\ arg' = arg /\ ArgumentOf(current)
  BY DEF procVars, MemInv, MemTypes
<1>2. USER_STACK_END - 1 \in UserPages /\ USER_STACK_END - 1 # v
  BY <1>1, Layout DEF ArgumentOf
<1>3. Walk(Mem', cr3'[current], USER_STACK_END - 1) = Walk(Mem, cr3[current], USER_STACK_END - 1)
  BY <1>2 DEF NowMapped
<1>4. QED
  BY <1>1, <1>2, <1>3 DEF ArgumentOf

LEMMA CachedRemapped ==
    ASSUME Cached, UNCHANGED procVars, tlb' = tlb, misused' = misused,
           NEW v, NEW e, NowMapped(v, e),
           ~misused /\ Walk(Mem, cr3[current], v) # Absent =>
              \/ Walk(Mem, cr3[current], v) = e
              \/ Walk(Mem, cr3[current], v).frame = PastStack(current)
    PROVE  Cached'
<1>1. current' = current /\ cr3' = cr3 /\ PastStack(current)' = PastStack(current)
  BY DEF procVars, PastStack
<1> SUFFICES ASSUME NEW t \in tlb
             PROVE  /\ \E i \in 0..(PAGE_MAX - 1) : t[1] = SharedPage(i)
                    /\ t[2] # Absent
                    /\ \/ misused'
                       \/ t[2] = Walk(Mem', cr3'[current'], t[1])
                       \/ t[2].frame = PastStack(current)'
  BY DEF Cached
<1>2. /\ \E i \in 0..(PAGE_MAX - 1) : t[1] = SharedPage(i)
      /\ t[2] # Absent
      /\ \/ misused
         \/ t[2] = Walk(Mem, cr3[current], t[1])
         \/ t[2].frame = PastStack(current)
  BY DEF Cached
<1>3. t[1] \in UserPages
  BY <1>2, SharedUser
<1>4. CASE t[1] = v
  <2>1. Walk(Mem', cr3'[current], v) = e
    BY <1>3, <1>4 DEF NowMapped
  <2>2. QED
    BY <2>1, <1>1, <1>2, <1>4
<1>5. CASE t[1] # v
  <2>1. Walk(Mem', cr3'[current], t[1]) = Walk(Mem, cr3[current], t[1])
    BY <1>3, <1>5 DEF NowMapped
  <2>2. QED
    BY <2>1, <1>1, <1>2
<1>6. QED
  BY <1>4, <1>5

\* What a page from the end of the stack on can be mapped to so far.
LEMMA MappedAbove ==
    ASSUME MemInv, StacksEndInPage, ~misused, NEW v \in UserPages, v >= USER_STACK_END,
           NEW e, e = Walk(Mem, cr3[current], v), e # Absent, e.frame # PastStack(current)
    PROVE  \E k \in Registered : SharedPage(shp_table[k].index) = v /\ e = UserEntry(shp_table[k].frame)
<1>1. PICK f \in Nat : e = UserEntry(f) /\ OwnPage(current, v, f)
  BY DEF MemInv, MemTypes, Translations
<1>2. e.frame = f /\ v \in Nat
  BY <1>1, Entries, PageIndex
<1>3. ~Own(code[current], stack[current], v, f)
  BY <1>2, OwnAbove DEF PastStack
<1>4. QED
  BY <1>1, <1>3 DEF OwnPage

-----------------------------------------------------------------------------
(* shm_create *)

LEMMA ShmCreateStep ==
    ASSUME MemInv, NEW k \in Key, ShmCreate(k)
    PROVE  MemInv' /\ NoLeak
<1>1. PICK c, d, m, f, i, v, s, m1, m2 :
        /\ c = current /\ d = cr3[c] /\ m = Mem /\ f = FirstFree(m, 1, Shared) /\ i = allocate_memory
        /\ v = SharedPage(i) /\ s = [frame |-> f, index |-> i, refcount |-> 1]
        /\ m1 = alloc_physical_page(m, 1, Shared) /\ m2 = MapShared(m1, s)
  OBVIOUS
<1>2. /\ shp_table[k] = None /\ FreeIndex # {} /\ Fits(m2)
      /\ virtual_map' = [virtual_map EXCEPT ![i] = TRUE]
      /\ content' = m2.content /\ used' = m2.used
      /\ shp_table' = [shp_table EXCEPT ![k] = s]
      /\ held' = IF misused THEN held ELSE [held EXCEPT ![<<c, k>>] = @ + 1]
      /\ UNCHANGED procVars /\ tlb' = tlb /\ misused' = misused
  BY <1>1 DEF ShmCreate, Reference
<1>3. /\ IsMem(m) /\ Fits(m) /\ m.content = content /\ m.used = used /\ MemTypes
      /\ c \in Allocated /\ c \in Proc /\ c \in Parts /\ Shared \in Parts
      /\ IsSpace(m, d) /\ Tables(c) = TablesIn(m, d) /\ SpaceOf(c)
  BY <1>1, MemIs, PartsType DEF MemInv, MemTypes, Spaces, SpaceOf, Allocated
<1>4. /\ i \in 0..(PAGE_MAX - 1) /\ virtual_map[i] = FALSE /\ v \in UserPages
      /\ v \in Nat /\ v >= USER_STACK_END
  <2>1. i \in FreeIndex
    BY <1>1, <1>2, FirstIndex
  <2>2. i \in 0..(PAGE_MAX - 1) /\ virtual_map[i] = FALSE
    BY <2>1, <1>3 DEF FreeIndex, MemTypes
  <2>3. QED
    BY <2>2, <1>1, SharedUser, PageIndex
<1>5. /\ IsMem(m1) /\ m1.content = m.content /\ f \in Nat /\ m1.used = m.used \cup {f}
      /\ Fits(m1) => f \in Managed /\ f \notin m.used
  <2>1. 1 \in Nat \ {0}
    OBVIOUS
  <2>2. /\ IsMem(m1) /\ m1.content = m.content /\ f \in Nat
        /\ m1.used = m.used \cup Block(<<f, 1>>)
        /\ Fits(m1) => /\ Fits(m) /\ Block(<<f, 1>>) \subseteq Managed
                       /\ Block(<<f, 1>>) \cap m.used = {} /\ f \in Block(<<f, 1>>)
    BY <2>1, <1>1, <1>3, AllocFrames
  <2>3. QED
    BY <2>2, OneFrame
<1>6. m2 = MapAt(m1, c, d, v, f)
  <2>1. s.index = i /\ s.frame = f
    BY <1>1
  <2>2. QED
    BY <2>1, <1>1 DEF MapShared, MapAt
<1>7. /\ IsMem(m2) /\ m1.used \subseteq m2.used
      /\ Fits(m2) /\ IsSpace(m1, d) => MappedOne(m1, m2, d, v, f)
  <2>1. IsMem(m1) /\ c \in Parts /\ v \in UserPages /\ f \in Nat
    BY <1>3, <1>4, <1>5
  <2>2. \A z : z = MapAt(m1, c, d, v, f) =>
           /\ IsMem(z) /\ m1.used \subseteq z.used
           /\ Fits(z) /\ IsSpace(m1, d) => MappedOne(m1, z, d, v, f)
    BY <2>1, MapOne
  <2>3. QED
    BY <2>2, <1>6
<1>8. Fits(m1) /\ f \in Managed /\ f \notin used
  <2>1. Fits(m1)
    BY <1>2, <1>7 DEF Fits
  <2>2. QED
    BY <2>1, <1>3, <1>5
<1>9. /\ IsSpace(m1, d) /\ TablesIn(m1, d) = TablesIn(m, d)
      /\ \A w \in UserPages : Walk(m1, d, w) = Walk(m, d, w)
  <2>1. d \in m1.used /\ TablesIn(m, d) \subseteq m1.used
    BY <1>1, <1>3, <1>5 DEF SpaceOf, FramesOf
  <2>2. QED
    BY <2>1, <1>3, <1>5, <1>8, SpaceKept
<1>10. PICK new : new = m2.used \ m1.used
  OBVIOUS
<1>11. /\ used' = used \cup {f} \cup new /\ new \cap used = {} /\ f \notin new
       /\ IsSpace(m2, d) /\ TablesIn(m2, d) = TablesIn(m, d) \cup new
       /\ \A g \in used : g # d /\ g \notin TablesIn(m, d) => content'[g] = content[g]
       /\ \A w \in UserPages : Walk(m2, d, w) = IF w = v THEN UserEntry(f) ELSE Walk(m, d, w)
  BY <1>2, <1>3, <1>5, <1>7, <1>8, <1>9, <1>10 DEF MappedOne
<1>12. Mem' = m2 /\ current' = c /\ cr3' = cr3
  BY <1>1, <1>2, <1>7 DEF IsMem, Mem, procVars
<1>13. s \in Shp /\ s # None /\ s.frame = f /\ s.index = i /\ s.refcount = 1
  <2>1. s \in Shp
    BY <1>1, <1>4, <1>8 DEF Shp
  <2>2. s \in [frame : Nat, index : Nat, refcount : Nat]
    BY <1>1, <1>4, <1>5
  <2>3. QED
    BY <2>1, <2>2, <1>1, MemoryLayout
<1>14. /\ held' \in [Proc \X Key -> Nat]
       /\ \A q \in Proc, l \in Key : (q # c \/ l # k) => held'[<<q, l>>] = held[<<q, l>>]
       /\ ~misused => held'[<<c, k>>] > 0
  <2>1. held \in [Proc \X Key -> Nat] /\ <<c, k>> \in Proc \X Key
    BY <1>3 DEF MemTypes
  <2>2. QED
    BY <2>1, <1>2
<1>15. MemTypes'
  <2>1. /\ state' \in [Proc -> {"none", "live", "zombie"}] /\ current' \in Allocated'
        /\ cr3' \in [Proc -> Nat] /\ arg' \in [Proc -> Int]
        /\ code' \in [Proc -> Nat \X Nat] /\ stack' \in [Proc -> Nat \X Nat]
    BY <1>2, <1>3 DEF MemTypes, procVars, Allocated
  <2>2. shp_table' \in [Key -> Shp \cup {None}]
    BY <1>2, <1>3, <1>13 DEF MemTypes
  <2>3. virtual_map' \in [0..(PAGE_MAX - 1) -> BOOLEAN] /\ misused' \in BOOLEAN
    BY <1>2, <1>3 DEF MemTypes
  <2>4. DOMAIN content' = Managed /\ used' \subseteq Managed
    BY <1>2, <1>7 DEF IsMem, Fits
  <2>5. QED
    BY <1>14, <2>1, <2>2, <2>3, <2>4 DEF MemTypes
<1>16. Remapped(new)
  <2>1. \A q \in Allocated : FramesOf(q) \subseteq used
    BY DEF MemInv, Spaces, SpaceOf
  <2>2. \A q \in Allocated \ {current} : FramesOf(q) \cap FramesOf(c) = {}
    BY <1>1, <1>3 DEF MemInv, Apart
  <2>3. d \in FramesOf(c) /\ TablesIn(m, d) \subseteq FramesOf(c)
    BY <1>1, <1>3 DEF FramesOf
  <2>4. \A q \in Allocated \ {current} : \A g \in FramesOf(q) : content'[g] = content[g]
    BY <2>1, <2>2, <2>3, <1>11
  <2>5. IsSpace(Mem', cr3[current]) /\ Tables(current)' = TablesIn(m2, d)
    BY <1>1, <1>2, <1>11, <1>12 DEF Tables, TablesIn
  <2>6. QED
    BY <2>1, <2>4, <2>5, <1>1, <1>2, <1>3, <1>11 DEF Remapped
<1>17. /\ Allocated' = Allocated /\ Spaces'
       /\ FramesOf(c)' = FramesOf(c) \cup new
       /\ \A q \in Allocated \ {c} :
             /\ FramesOf(q)' = FramesOf(q)
             /\ SameReferences(q) => Translations(q)'
             /\ StacksEndInPage => ArgumentOf(q)'
       /\ \A q, r \in Allocated : q # r => FramesOf(q)' \cap FramesOf(r)' = {}
       /\ \A g \in used : g \notin FramesOf(c) => g \notin FramesOf(c)'
  <2>1. FramesOf(current)' = FramesOf(c)'
    BY <1>1, <1>12 DEF FramesOf, Tables
  <2>2. QED
    BY <2>1, <1>1, <1>15, <1>16, RemapStep
<1>18. /\ Registered' = Registered \cup {k} /\ k \notin Registered /\ shp_table'[k] = s
       /\ \A l \in Registered : shp_table'[l] = shp_table[l]
  BY <1>2, <1>3, <1>13 DEF Registered, MemTypes
<1>19. ASSUME NEW q \in Allocated PROVE SameReferences(q)
  BY <1>2, <1>14, <1>18 DEF SameReferences, Registered, Allocated
<1>20. NowMapped(v, UserEntry(f))
  BY <1>1, <1>11, <1>12 DEF NowMapped
<1>21. \A p \in Allocated' : Translations(p)'
  <2>1. OwnPage(c, v, f)' \/ misused'
    BY <1>1, <1>2, <1>13, <1>14, <1>18 DEF OwnPage
  <2>2. ASSUME NEW w, NEW g, ~misused', OwnPage(c, w, g) PROVE OwnPage(c, w, g)'
    BY <2>2, <1>2, <1>3, <1>19, OwnPageStays DEF procVars
  <2>3. OwnPage(current, v, f)' \/ misused'
    BY <2>1, <1>1, <1>12 DEF OwnPage
  <2>4. ASSUME NEW w, NEW g, ~misused', OwnPage(current, w, g) PROVE OwnPage(current, w, g)'
    <3>1. OwnPage(c, w, g)'
      BY <2>2, <2>4, <1>1
    <3>2. QED
      BY <3>1, <1>1, <1>12 DEF OwnPage
  <2>5. PICK e : e = UserEntry(f)
    OBVIOUS
  <2>6. \E g \in Nat : e = UserEntry(g) /\ (misused' \/ OwnPage(current, v, g)')
    BY <2>3, <2>5, <1>5
  <2>7. Translations(current)'
    BY <2>4, <2>5, <2>6, <1>2, <1>4, <1>20, TranslationsRemapped
  <2>8. Translations(c)'
    BY <2>7, <1>1, <1>12 DEF Translations, OwnPage
  <2>9. QED
    BY <2>8, <1>17, <1>19
<1>22. Apart'
  <2>1. \A q, r \in Allocated' : q # r => FramesOf(q)' \cap FramesOf(r)' = {}
    BY <1>17
  <2>2. \A q \in Allocated : FramesOf(q) \subseteq used
    BY DEF MemInv, Spaces, SpaceOf
  <2>3. \A q \in Allocated : f \notin FramesOf(q)'
    BY <2>2, <1>8, <1>11, <1>17
  <2>4. \A l \in Registered : /\ shp_table[l].frame \in used /\ shp_table[l].frame # f
                              /\ \A q \in Allocated : shp_table[l].frame \notin FramesOf(q)'
    BY <1>3, <1>8, <1>17 DEF MemInv, Apart
  <2>5. \A l \in Registered : /\ virtual_map[shp_table[l].index] /\ shp_table[l].index # i
                              /\ shp_table[l].index \in 0..(PAGE_MAX - 1)
    BY <1>3, <1>4 DEF MemInv, Apart, Registered, MemTypes, Shp
  <2>6. /\ virtual_map' [i] = TRUE
        /\ \A j \in 0..(PAGE_MAX - 1) : j # i => virtual_map'[j] = virtual_map[j]
    BY <1>2, <1>3, <1>4 DEF MemTypes
  <2>7. ASSUME NEW l \in Registered'
        PROVE  /\ shp_table'[l].frame \in used'
               /\ \A p \in Allocated' : shp_table'[l].frame \notin FramesOf(p)'
               /\ \A n \in Registered' \ {l} : /\ shp_table'[l].frame # shp_table'[n].frame
                                               /\ shp_table'[l].index # shp_table'[n].index
               /\ virtual_map'[shp_table'[l].index]
    <3>1. CASE l = k
      BY <3>1, <2>3, <2>4, <2>5, <2>6, <1>11, <1>13, <1>17, <1>18
    <3>2. CASE l # k
      BY <3>2, <2>4, <2>5, <2>6, <1>11, <1>13, <1>17, <1>18 DEF MemInv, Apart
    <3>3. QED
      BY <3>1, <3>2
  <2>8. ASSUME NEW j \in 0..(PAGE_MAX - 1), virtual_map'[j]
        PROVE  \E l \in Registered' : shp_table'[l].index = j
    BY <2>6, <2>8, <1>13, <1>18 DEF MemInv, Apart
  <2>9. QED
    BY <2>1, <2>7, <2>8 DEF Apart
<1>23. Counted'
  <2> SUFFICES ASSUME ~misused, NEW l \in Key
               PROVE  IF shp_table'[l] = None THEN \A q \in Proc : held'[<<q, l>>] = 0
                                              ELSE Attributed(held', l, shp_table'[l].refcount)
    BY <1>2 DEF Counted
  <2>1. IF shp_table[l] = None THEN \A q \in Proc : held[<<q, l>>] = 0
                               ELSE Attributed(held, l, shp_table[l].refcount)
    BY DEF MemInv, Counted
  <2>2. PICK h, h2 : h = held /\ h2 = held'
    OBVIOUS
  <2>3. h \in [Proc \X Key -> Nat] /\ h2 = [h EXCEPT ![<<c, k>>] = @ + 1]
    BY <2>2, <1>2, <1>3 DEF MemTypes
  <2>4. CASE l = k
    <3>1. Attributed(h, k, 0)
      BY <2>1, <2>2, <2>3, <2>4, <1>2, NoReferences
    <3>2. Attributed(h2, k, 0 + 1)
      BY <3>1, <2>3, <1>3, MoreReferences
    <3>3. QED
      BY <3>2, <2>2, <2>4, <1>13, <1>18
  <2>5. CASE l # k
    <3>1. shp_table'[l] = shp_table[l] /\ \A q \in Proc : held'[<<q, l>>] = held[<<q, l>>]
      BY <2>5, <1>2, <1>3, <1>14 DEF MemTypes
    <3>2. QED
      BY <3>1, <2>1 DEF Attributed
  <2>6. QED
    BY <2>4, <2>5
<1>24. ASSUME StacksEndInPage PROVE Cached'
  <2>1. PICK e : e = Walk(Mem, cr3[current], v)
    OBVIOUS
  <2>2. ASSUME ~misused, e # Absent PROVE e.frame = PastStack(current)
    <3>1. SUFFICES ASSUME e.frame # PastStack(current) PROVE FALSE
      OBVIOUS
    <3>2. PICK l \in Registered : SharedPage(shp_table[l].index) = v
      BY <2>1, <2>2, <3>1, <1>4, <1>24, MappedAbove
    <3>3. shp_table[l].index \in 0..(PAGE_MAX - 1) /\ virtual_map[shp_table[l].index]
      BY <1>3 DEF MemInv, Apart, Registered, MemTypes, Shp
    <3>4. shp_table[l].index = i
      BY <3>2, <3>3, <1>1, <1>4, SharedPageIndex
    <3>5. QED
      BY <3>3, <3>4, <1>4
  <2>3. Cached
    BY <1>24 DEF MemInv
  <2>4. QED
    BY <2>1, <2>2, <2>3, <1>2, <1>20, CachedRemapped
<1>25. ASSUME StacksEndInPage PROVE \A q \in Allocated' : ArgumentOf(q)'
  <2>1. ArgumentOf(current)'
    BY <1>2, <1>4, <1>20, <1>25, ArgumentRemapped
  <2>2. ArgumentOf(c)'
    BY <2>1, <1>1, <1>12 DEF ArgumentOf
  <2>3. QED
    BY <2>2, <1>17, <1>25
<1>26. MemInv'
  BY <1>15, <1>17, <1>21, <1>22, <1>23, <1>24, <1>25 DEF MemInv
<1>27. NoLeak
  <2>1. \A g : g \in Owned' <=> \/ \E q \in Allocated' : g \in FramesOf(q)'
                                \/ \E l \in Registered' : g = shp_table'[l].frame
    BY OwnedNext
  <2>2. \A g : g \in Owned <=> \/ \E q \in Allocated : g \in FramesOf(q)
                               \/ \E l \in Registered : g = shp_table[l].frame
    BY OwnedIs
  <2>3. Owned' = Owned \cup {f} \cup new
    BY <2>1, <2>2, <1>3, <1>13, <1>17, <1>18
  <2>4. QED
    BY <2>3, <1>8, <1>11 DEF NoLeak
<1>28. QED
  BY <1>26, <1>27

\* The frame of a page that cannot be registered is lost.
LEMMA ShmCreateFailsStep ==
    ASSUME MemInv, NEW k \in Key, ShmCreateFails(k)
    PROVE  MemInv' /\ FreeIndex = {} /\ Cardinality(used') = Cardinality(used) + 1
<1>1. PICK m, f, m1 : m = Mem /\ f = FirstFree(m, 1, Shared) /\ m1 = alloc_physical_page(m, 1, Shared)
  OBVIOUS
<1>2. /\ FreeIndex = {} /\ Fits(m1) /\ used' = m1.used
      /\ UNCHANGED <<content, procVars, tlb, shmVars>>
  BY <1>1 DEF ShmCreateFails
<1>3. IsMem(m) /\ Fits(m) /\ m.used = used /\ MemTypes /\ Shared \in Parts
  BY <1>1, MemIs, PartsType DEF MemInv
<1>4. used' = used \cup {f} /\ f \notin used /\ used' \subseteq Managed
  <2>1. 1 \in Nat \ {0}
    OBVIOUS
  <2>2. /\ IsMem(m1) /\ m1.content = m.content /\ f \in Nat
        /\ m1.used = m.used \cup Block(<<f, 1>>)
        /\ Fits(m1) => /\ Fits(m) /\ Block(<<f, 1>>) \subseteq Managed
                       /\ Block(<<f, 1>>) \cap m.used = {} /\ f \in Block(<<f, 1>>)
    BY <2>1, <1>1, <1>3, AllocFrames
  <2>3. QED
    BY <2>2, <1>2, <1>3, OneFrame DEF Fits
<1>5. /\ state' = state /\ cr3' = cr3 /\ code' = code /\ stack' = stack /\ arg' = arg
      /\ current' = current /\ tlb' = tlb /\ misused' = misused /\ Allocated' = Allocated
  BY <1>2 DEF procVars, shmVars, Allocated
<1>6. Cached => Cached'
  <2>1. SpaceOf(current) /\ current \in Allocated
    BY <1>3 DEF MemInv, Spaces, MemTypes
  <2>2. SameProcess(current)
    BY <1>2, <1>4, <1>5, <2>1 DEF SameProcess, SpaceOf
  <2>3. MemTypes'
    BY <1>2, <1>3, <1>4, <1>5 DEF MemTypes, shmVars
  <2>4. /\ PastStack(current)' = PastStack(current)
        /\ \A v \in UserPages : Walk(Mem', cr3'[current], v) = Walk(Mem, cr3[current], v)
    <3>1. PICK q \in Allocated : q = current
      BY <2>1
    <3>2. /\ PastStack(q)' = PastStack(q)
          /\ \A v \in UserPages : Walk(Mem', cr3'[q], v) = Walk(Mem, cr3[q], v)
      BY <3>1, <2>1, <2>2, <2>3, <1>3, <1>5, SpaceStays DEF SameProcess, SpaceOf
    <3>3. QED
      BY <3>1, <3>2, <1>5 DEF PastStack
  <2>5. QED
    BY <2>1, <2>4, <1>5, CachedStays
<1>7. state' \in [Proc -> {"none", "live", "zombie"}] /\ current' \in Allocated
  BY <1>3, <1>5 DEF MemTypes
<1>8. MemInv'
  BY <1>2, <1>4, <1>5, <1>6, <1>7, QuietStep
<1>9. Cardinality(used') = Cardinality(used) + 1
  <2>1. IsFiniteSet(Managed)
    BY Layout, FS_Interval DEF Managed
  <2>2. IsFiniteSet(used)
    BY <2>1, <1>4, FS_Subset
  <2>3. QED
    BY <2>2, <1>4, FS_AddElement
<1>10. QED
  BY <1>2, <1>8, <1>9

-----------------------------------------------------------------------------
(* shm_acquire *)

LEMMA ShmAcquireStep ==
    ASSUME MemInv, NEW k \in Key, ShmAcquire(k)
    PROVE  MemInv' /\ NoLeak
<1>1. PICK c, d, m, s, f, i, n, v, m2 :
        /\ c = current /\ d = cr3[c] /\ m = Mem /\ s = shp_table[k]
        /\ f = s.frame /\ i = s.index /\ n = s.refcount
        /\ v = SharedPage(i) /\ m2 = MapShared(m, s)
  OBVIOUS
<1>2. /\ s # None /\ n < MaxRef /\ Fits(m2)
      /\ content' = m2.content /\ used' = m2.used
      /\ shp_table' = [shp_table EXCEPT ![k].refcount = @ + 1]
      /\ held' = IF misused THEN held ELSE [held EXCEPT ![<<c, k>>] = @ + 1]
      /\ UNCHANGED procVars /\ tlb' = tlb /\ virtual_map' = virtual_map /\ misused' = misused
  BY <1>1 DEF ShmAcquire, Reference
<1>3. /\ IsMem(m) /\ Fits(m) /\ m.content = content /\ m.used = used /\ MemTypes
      /\ c \in Allocated /\ c \in Proc /\ c \in Parts
      /\ IsSpace(m, d) /\ Tables(c) = TablesIn(m, d) /\ SpaceOf(c)
  BY <1>1, MemIs, PartsType DEF MemInv, MemTypes, Spaces, SpaceOf, Allocated
<1>4. /\ s \in Shp /\ f \in Managed /\ f \in Nat /\ i \in 0..(PAGE_MAX - 1) /\ n \in Nat \ {0}
      /\ k \in Registered /\ v \in UserPages /\ v \in Nat /\ v >= USER_STACK_END
  <2>1. s \in Shp /\ k \in Registered
    BY <1>1, <1>2, <1>3 DEF MemTypes, Registered
  <2>2. f \in Managed /\ i \in 0..(PAGE_MAX - 1) /\ n \in Nat \ {0}
    BY <2>1, <1>1 DEF Shp
  <2>3. QED
    BY <2>1, <2>2, <1>1, SharedUser, PageIndex, Layout
<1>5. m2 = MapAt(m, c, d, v, f)
  BY <1>1 DEF MapShared, MapAt
<1>6. /\ IsMem(m2) /\ m.used \subseteq m2.used
      /\ Fits(m2) /\ IsSpace(m, d) => MappedOne(m, m2, d, v, f)
  <2>1. \A z : z = MapAt(m, c, d, v, f) =>
           /\ IsMem(z) /\ m.used \subseteq z.used
           /\ Fits(z) /\ IsSpace(m, d) => MappedOne(m, z, d, v, f)
    BY <1>3, <1>4, MapOne
  <2>2. QED
    BY <2>1, <1>5
<1>7. PICK new : new = m2.used \ m.used
  OBVIOUS
<1>8. /\ used' = used \cup new /\ new \cap used = {}
      /\ IsSpace(m2, d) /\ TablesIn(m2, d) = TablesIn(m, d) \cup new
      /\ \A g \in used : g # d /\ g \notin TablesIn(m, d) => content'[g] = content[g]
      /\ \A w \in UserPages : Walk(m2, d, w) = IF w = v THEN UserEntry(f) ELSE Walk(m, d, w)
  BY <1>2, <1>3, <1>6, <1>7 DEF MappedOne
<1>9. Mem' = m2 /\ current' = c /\ cr3' = cr3
  BY <1>1, <1>2, <1>6 DEF IsMem, Mem, procVars
<1>10. PICK s2 : s2 = shp_table'[k]
  OBVIOUS
<1>11. /\ s2 \in Shp /\ s2 # None /\ s2.frame = f /\ s2.index = i /\ s2.refcount = n + 1
       /\ \A l \in Key \ {k} : shp_table'[l] = shp_table[l]
       /\ shp_table' \in [Key -> Shp \cup {None}]
  <2>1. s2 = [s EXCEPT !.refcount = @ + 1] /\ \A l \in Key \ {k} : shp_table'[l] = shp_table[l]
    BY <1>1, <1>2, <1>3, <1>10 DEF MemTypes
  <2>2. n + 1 \in Nat \ {0}
    BY <1>4
  <2>3. s2 \in Shp /\ s2.frame = f /\ s2.index = i /\ s2.refcount = n + 1
    BY <2>1, <2>2, <1>1, <1>4 DEF Shp
  <2>4. s2 \in [frame : Nat, index : Nat, refcount : Nat]
    <3>1. s2 = [frame |-> f, index |-> i, refcount |-> n + 1]
      BY <2>3 DEF Shp
    <3>2. QED
      BY <3>1, <1>4
  <2>5. s2 # None
    BY <2>4, MemoryLayout
  <2>6. shp_table' \in [Key -> Shp \cup {None}]
    BY <2>1, <2>3, <1>2, <1>3, <1>10 DEF MemTypes
  <2>7. QED
    BY <2>1, <2>3, <2>5, <2>6
<1>12. /\ held' \in [Proc \X Key -> Nat]
       /\ \A q \in Proc, l \in Key : (q # c \/ l # k) => held'[<<q, l>>] = held[<<q, l>>]
       /\ \A q \in Proc, l \in Key : held[<<q, l>>] > 0 => held'[<<q, l>>] > 0
       /\ ~misused => held'[<<c, k>>] > 0
  <2>1. held \in [Proc \X Key -> Nat] /\ <<c, k>> \in Proc \X Key
    BY <1>3 DEF MemTypes
  <2>2. QED
    BY <2>1, <1>2
<1>13. MemTypes'
  <2>1. /\ state' \in [Proc -> {"none", "live", "zombie"}] /\ current' \in Allocated'
        /\ cr3' \in [Proc -> Nat] /\ arg' \in [Proc -> Int]
        /\ code' \in [Proc -> Nat \X Nat] /\ stack' \in [Proc -> Nat \X Nat]
    BY <1>2, <1>3 DEF MemTypes, procVars, Allocated
  <2>2. virtual_map' \in [0..(PAGE_MAX - 1) -> BOOLEAN] /\ misused' \in BOOLEAN
    BY <1>2, <1>3 DEF MemTypes
  <2>3. DOMAIN content' = Managed /\ used' \subseteq Managed
    BY <1>2, <1>6 DEF IsMem, Fits
  <2>4. QED
    BY <1>11, <1>12, <2>1, <2>2, <2>3 DEF MemTypes
<1>14. Remapped(new)
  <2>1. \A q \in Allocated : FramesOf(q) \subseteq used
    BY DEF MemInv, Spaces, SpaceOf
  <2>2. \A q \in Allocated \ {current} : FramesOf(q) \cap FramesOf(c) = {}
    BY <1>1, <1>3 DEF MemInv, Apart
  <2>3. d \in FramesOf(c) /\ TablesIn(m, d) \subseteq FramesOf(c)
    BY <1>1, <1>3 DEF FramesOf
  <2>4. \A q \in Allocated \ {current} : \A g \in FramesOf(q) : content'[g] = content[g]
    BY <2>1, <2>2, <2>3, <1>8
  <2>5. IsSpace(Mem', cr3[current]) /\ Tables(current)' = TablesIn(m2, d)
    BY <1>1, <1>2, <1>8, <1>9 DEF Tables, TablesIn
  <2>6. QED
    BY <2>1, <2>4, <2>5, <1>1, <1>2, <1>3, <1>8 DEF Remapped
<1>15. /\ Allocated' = Allocated /\ Spaces'
       /\ FramesOf(c)' = FramesOf(c) \cup new
       /\ \A q \in Allocated \ {c} :
             /\ FramesOf(q)' = FramesOf(q)
             /\ SameReferences(q) => Translations(q)'
             /\ StacksEndInPage => ArgumentOf(q)'
       /\ \A q, r \in Allocated : q # r => FramesOf(q)' \cap FramesOf(r)' = {}
       /\ \A g \in used : g \notin FramesOf(c) => g \notin FramesOf(c)'
  <2>1. FramesOf(current)' = FramesOf(c)'
    BY <1>1, <1>9 DEF FramesOf, Tables
  <2>2. QED
    BY <2>1, <1>1, <1>13, <1>14, RemapStep
<1>16. /\ Registered' = Registered
       /\ \A l \in Registered : /\ shp_table'[l].frame = shp_table[l].frame
                                /\ shp_table'[l].index = shp_table[l].index
  <2>1. Registered' = Registered
    BY <1>4, <1>10, <1>11 DEF Registered
  <2>2. QED
    BY <2>1, <1>1, <1>10, <1>11 DEF Registered
<1>17. ASSUME NEW q \in Allocated PROVE SameReferences(q)
  BY <1>2, <1>12, <1>16 DEF SameReferences, Registered, Allocated
<1>18. NowMapped(v, UserEntry(f))
  BY <1>1, <1>8, <1>9 DEF NowMapped
<1>19. \A p \in Allocated' : Translations(p)'
  <2>1. OwnPage(c, v, f)' \/ misused'
    BY <1>1, <1>2, <1>4, <1>12, <1>16 DEF OwnPage
  <2>2. ASSUME NEW w, NEW g, ~misused', OwnPage(c, w, g) PROVE OwnPage(c, w, g)'
    BY <2>2, <1>2, <1>3, <1>17, OwnPageStays DEF procVars
  <2>3. OwnPage(current, v, f)' \/ misused'
    BY <2>1, <1>1, <1>9 DEF OwnPage
  <2>4. ASSUME NEW w, NEW g, ~misused', OwnPage(current, w, g) PROVE OwnPage(current, w, g)'
    <3>1. OwnPage(c, w, g)'
      BY <2>2, <2>4, <1>1
    <3>2. QED
      BY <3>1, <1>1, <1>9 DEF OwnPage
  <2>5. PICK e : e = UserEntry(f)
    OBVIOUS
  <2>6. \E g \in Nat : e = UserEntry(g) /\ (misused' \/ OwnPage(current, v, g)')
    BY <2>3, <2>5, <1>4
  <2>7. Translations(current)'
    BY <2>4, <2>5, <2>6, <1>2, <1>4, <1>18, TranslationsRemapped
  <2>8. Translations(c)'
    BY <2>7, <1>1, <1>9 DEF Translations, OwnPage
  <2>9. QED
    BY <2>8, <1>15, <1>17
<1>20. Apart'
  <2>1. \A q, r \in Allocated' : q # r => FramesOf(q)' \cap FramesOf(r)' = {}
    BY <1>15
  <2>2. \A l \in Registered : /\ shp_table[l].frame \in used'
                              /\ \A q \in Allocated : shp_table[l].frame \notin FramesOf(q)'
    BY <1>3, <1>8, <1>15 DEF MemInv, Apart
  <2>3. QED
    BY <2>1, <2>2, <1>2, <1>15, <1>16 DEF MemInv, Apart
<1>21. Counted'
  <2> SUFFICES ASSUME ~misused, NEW l \in Key
               PROVE  IF shp_table'[l] = None THEN \A q \in Proc : held'[<<q, l>>] = 0
                                              ELSE Attributed(held', l, shp_table'[l].refcount)
    BY <1>2 DEF Counted
  <2>1. IF shp_table[l] = None THEN \A q \in Proc : held[<<q, l>>] = 0
                               ELSE Attributed(held, l, shp_table[l].refcount)
    BY DEF MemInv, Counted
  <2>2. PICK h, h2 : h = held /\ h2 = held'
    OBVIOUS
  <2>3. h \in [Proc \X Key -> Nat] /\ h2 = [h EXCEPT ![<<c, k>>] = @ + 1]
    BY <2>2, <1>2, <1>3 DEF MemTypes
  <2>4. CASE l = k
    <3>1. Attributed(h, k, n) /\ n \in Nat
      BY <2>1, <2>2, <2>4, <1>1, <1>2, <1>4
    <3>2. Attributed(h2, k, n + 1)
      BY <3>1, <2>3, <1>3, MoreReferences
    <3>3. QED
      BY <3>2, <2>2, <2>4, <1>10, <1>11
  <2>5. CASE l # k
    <3>1. shp_table'[l] = shp_table[l] /\ \A q \in Proc : held'[<<q, l>>] = held[<<q, l>>]
      BY <2>5, <1>11, <1>12
    <3>2. QED
      BY <3>1, <2>1 DEF Attributed
  <2>6. QED
    BY <2>4, <2>5
<1>22. ASSUME StacksEndInPage PROVE Cached'
  <2>1. PICK e : e = Walk(Mem, cr3[current], v)
    OBVIOUS
  <2>2. ASSUME ~misused, e # Absent PROVE e = UserEntry(f) \/ e.frame = PastStack(current)
    <3>1. SUFFICES ASSUME e.frame # PastStack(current) PROVE e = UserEntry(f)
      OBVIOUS
    <3>2. PICK l \in Registered : SharedPage(shp_table[l].index) = v /\ e = UserEntry(shp_table[l].frame)
      BY <2>1, <2>2, <3>1, <1>4, <1>22, MappedAbove
    <3>3. shp_table[l].index \in 0..(PAGE_MAX - 1)
      BY <1>3 DEF Registered, MemTypes, Shp
    <3>4. shp_table[l].index = i
      BY <3>2, <3>3, <1>1, <1>4, SharedPageIndex
    <3>5. l = k
      BY <3>4, <1>1, <1>4 DEF MemInv, Apart
    <3>6. QED
      BY <3>2, <3>5, <1>1
  <2>3. Cached
    BY <1>22 DEF MemInv
  <2>4. QED
    BY <2>1, <2>2, <2>3, <1>2, <1>18, CachedRemapped
<1>23. ASSUME StacksEndInPage PROVE \A q \in Allocated' : ArgumentOf(q)'
  <2>1. ArgumentOf(current)'
    BY <1>2, <1>4, <1>18, <1>23, ArgumentRemapped
  <2>2. ArgumentOf(c)'
    BY <2>1, <1>1, <1>9 DEF ArgumentOf
  <2>3. QED
    BY <2>2, <1>15, <1>23
<1>24. MemInv'
  BY <1>13, <1>15, <1>19, <1>20, <1>21, <1>22, <1>23 DEF MemInv
<1>25. NoLeak
  <2>1. \A g : g \in Owned' <=> \/ \E q \in Allocated' : g \in FramesOf(q)'
                                \/ \E l \in Registered' : g = shp_table'[l].frame
    BY OwnedNext
  <2>2. \A g : g \in Owned <=> \/ \E q \in Allocated : g \in FramesOf(q)
                               \/ \E l \in Registered : g = shp_table[l].frame
    BY OwnedIs
  <2>3. Owned' = Owned \cup new
    BY <2>1, <2>2, <1>3, <1>15, <1>16
  <2>4. QED
    BY <2>3, <1>8 DEF NoLeak
<1>26. QED
  BY <1>24, <1>25

-----------------------------------------------------------------------------
(* shm_release *)

LEMMA ShmReleaseStep ==
    ASSUME MemInv, NEW k \in Key, ShmRelease(k)
    PROVE  MemInv' /\ NoLeak
<1>1. PICK c, d, m, s, f, i, n, v, m1, m2 :
        /\ c = current /\ d = cr3[c] /\ m = Mem /\ s = shp_table[k]
        /\ f = s.frame /\ i = s.index /\ n = s.refcount
        /\ v = SharedPage(i) /\ m1 = UnmapAt(m, d, v)
        /\ m2 = IF n = 1 THEN free_physical_page(m1, <<f, 1>>) ELSE m1
  OBVIOUS
<1>2. /\ s # None
      /\ content' = m2.content /\ used' = m2.used /\ tlb' = {}
      /\ shp_table' = [shp_table EXCEPT ![k] = IF n = 1 THEN None ELSE [s EXCEPT !.refcount = @ - 1]]
      /\ virtual_map' = IF n = 1 THEN [virtual_map EXCEPT ![i] = FALSE] ELSE virtual_map
      /\ misused' = (misused \/ held[<<c, k>>] = 0)
      /\ held' = IF misused' THEN [h \in DOMAIN held |-> 0] ELSE [held EXCEPT ![<<c, k>>] = @ - 1]
      /\ UNCHANGED procVars
  BY <1>1 DEF ShmRelease, Release, UnmapAt
<1>3. /\ IsMem(m) /\ Fits(m) /\ m.content = content /\ m.used = used /\ MemTypes
      /\ c \in Allocated /\ c \in Proc
      /\ IsSpace(m, d) /\ Tables(c) = TablesIn(m, d) /\ SpaceOf(c)
  BY <1>1, MemIs DEF MemInv, MemTypes, Spaces, SpaceOf, Allocated
<1>4. /\ s \in Shp /\ f \in Managed /\ f \in Nat /\ i \in 0..(PAGE_MAX - 1) /\ n \in Nat \ {0}
      /\ n \in Nat /\ n - 1 \in Nat
      /\ k \in Registered /\ v \in UserPages /\ v \in Nat /\ v >= USER_STACK_END
  <2>1. s \in Shp /\ k \in Registered
    BY <1>1, <1>2, <1>3 DEF MemTypes, Registered
  <2>2. f \in Managed /\ i \in 0..(PAGE_MAX - 1) /\ n \in Nat \ {0}
    BY <2>1, <1>1 DEF Shp
  <2>3. n \in Nat /\ n - 1 \in Nat
    BY <2>2
  <2>4. QED
    BY <2>1, <2>2, <2>3, <1>1, SharedUser, PageIndex, Layout
<1>5. \A q \in Allocated : f \notin FramesOf(q)
  BY <1>1, <1>4 DEF MemInv, Apart
<1>6. d \in FramesOf(c) /\ TablesIn(m, d) \subseteq FramesOf(c) /\ f # d /\ f \notin TablesIn(m, d)
  BY <1>1, <1>3, <1>5 DEF FramesOf
<1>7. PICK last \in BOOLEAN, gone \in SUBSET {f} : last = (n = 1) /\ gone = IF last THEN {f} ELSE {}
  OBVIOUS
<1>8. /\ IsMem(m2) /\ used' = used \ gone /\ Fits(m2)
      /\ IsSpace(m2, d) /\ TablesIn(m2, d) = TablesIn(m, d)
      /\ \A g \in used : g \notin TablesIn(m, d) /\ g \notin gone => content'[g] = content[g]
      /\ \A w \in UserPages : Walk(m2, d, w) = IF w = v THEN Absent ELSE Walk(m, d, w)
  <2>1. m2 = IF last THEN free_physical_page(m1, <<f, 1>>) ELSE m1
    BY <1>1, <1>7
  <2>2. \A z : z = (IF last THEN free_physical_page(m1, <<f, 1>>) ELSE m1)
                 => UnmappedFreed(m, z, d, v, IF last THEN {f} ELSE {})
    BY <1>1, <1>3, <1>4, <1>6, UnmapFree
  <2>3. UnmappedFreed(m, m2, d, v, gone)
    BY <2>1, <2>2, <1>7
  <2>4. QED
    BY <2>3, <1>1, <1>2, <1>3 DEF UnmappedFreed
<1>9. Mem' = m2 /\ current' = c /\ cr3' = cr3
  BY <1>1, <1>2, <1>8 DEF IsMem, Mem, procVars
<1>10. PICK s2 : s2 = shp_table'[k]
  OBVIOUS
<1>11. /\ IF n = 1 THEN s2 = None
                   ELSE s2 \in Shp /\ s2 # None /\ s2.frame = f /\ s2.index = i /\ s2.refcount = n - 1
       /\ \A l \in Key \ {k} : shp_table'[l] = shp_table[l]
       /\ shp_table' \in [Key -> Shp \cup {None}]
  <2>1. s2 = (IF n = 1 THEN None ELSE [s EXCEPT !.refcount = @ - 1])
        /\ \A l \in Key \ {k} : shp_table'[l] = shp_table[l]
    BY <1>1, <1>2, <1>3, <1>10 DEF MemTypes
  <2>2. ASSUME n # 1
        PROVE  s2 \in Shp /\ s2 # None /\ s2.frame = f /\ s2.index = i /\ s2.refcount = n - 1
    <3>1. n - 1 \in Nat \ {0}
      BY <2>2, <1>4
    <3>2. s2 = [s EXCEPT !.refcount = @ - 1]
      BY <2>1, <2>2
    <3>3. s2 \in Shp /\ s2.frame = f /\ s2.index = i /\ s2.refcount = n - 1
      BY <3>1, <3>2, <1>1, <1>4 DEF Shp
    <3>4. s2 \in [frame : Nat, index : Nat, refcount : Nat]
      <4>1. s2 = [frame |-> f, index |-> i, refcount |-> n - 1]
        BY <3>3 DEF Shp
      <4>2. QED
        BY <4>1, <1>4
    <3>5. QED
      BY <3>3, <3>4, MemoryLayout
  <2>3. shp_table' \in [Key -> Shp \cup {None}]
    BY <2>1, <2>2, <1>2, <1>3, <1>10 DEF MemTypes
  <2>4. QED
    BY <2>1, <2>2, <2>3
<1>12. /\ held' \in [Proc \X Key -> Nat] /\ misused' \in BOOLEAN
       /\ ~misused' =>
            /\ ~misused /\ held[<<c, k>>] > 0 /\ held' = [held EXCEPT ![<<c, k>>] = @ - 1]
            /\ \A q \in Proc, l \in Key : (q # c \/ l # k) => held'[<<q, l>>] = held[<<q, l>>]
  <2>1. held \in [Proc \X Key -> Nat] /\ <<c, k>> \in Proc \X Key /\ misused \in BOOLEAN
    BY <1>3 DEF MemTypes
  <2>2. misused' \in BOOLEAN
    BY <1>2
  <2>3. CASE misused'
    BY <2>1, <2>2, <2>3, <1>2
  <2>4. CASE ~misused'
    <3>1. ~misused /\ held[<<c, k>>] # 0 /\ held' = [held EXCEPT ![<<c, k>>] = @ - 1]
      BY <2>4, <1>2
    <3>2. held[<<c, k>>] \in Nat /\ held[<<c, k>>] - 1 \in Nat
      BY <2>1, <3>1
    <3>3. QED
      BY <2>1, <2>2, <3>1, <3>2
  <2>5. QED
    BY <2>3, <2>4
<1>13. MemTypes'
  <2>1. /\ state' \in [Proc -> {"none", "live", "zombie"}] /\ current' \in Allocated'
        /\ cr3' \in [Proc -> Nat] /\ arg' \in [Proc -> Int]
        /\ code' \in [Proc -> Nat \X Nat] /\ stack' \in [Proc -> Nat \X Nat]
    BY <1>2, <1>3 DEF MemTypes, procVars, Allocated
  <2>2. virtual_map' \in [0..(PAGE_MAX - 1) -> BOOLEAN]
    BY <1>2, <1>3 DEF MemTypes
  <2>3. DOMAIN content' = Managed /\ used' \subseteq Managed
    BY <1>2, <1>8 DEF IsMem, Fits
  <2>4. QED
    BY <1>11, <1>12, <2>1, <2>2, <2>3 DEF MemTypes
<1>14. Remapped({})
  <2>1. \A q \in Allocated : FramesOf(q) \subseteq used
    BY DEF MemInv, Spaces, SpaceOf
  <2>2. \A q \in Allocated \ {current} : FramesOf(q) \cap FramesOf(c) = {}
    BY <1>1, <1>3 DEF MemInv, Apart
  <2>3. \A q \in Allocated : FramesOf(q) \cap gone = {}
    BY <1>5, <1>7
  <2>4. \A q \in Allocated \ {current} : \A g \in FramesOf(q) : content'[g] = content[g]
    BY <2>1, <2>2, <2>3, <1>6, <1>8
  <2>5. IsSpace(Mem', cr3[current])
    BY <1>1, <1>8, <1>9
  <2>6. Tables(current)' = TablesIn(m2, d)
    <3>1. current' = c /\ cr3' = cr3 /\ content' = m2.content /\ cr3[c] = d
      BY <1>1, <1>2, <1>9
    <3>2. cr3'[current'] = d
      BY <3>1
    <3>3. QED
      BY <3>1, <3>2 DEF Tables, TablesIn
  <2>7. QED
    BY <2>1, <2>3, <2>4, <2>5, <2>6, <1>1, <1>2, <1>3, <1>8 DEF Remapped
<1>15. /\ Allocated' = Allocated /\ Spaces'
       /\ \A q \in Allocated : FramesOf(q)' = FramesOf(q)
       /\ \A q \in Allocated \ {c} :
             /\ SameReferences(q) => Translations(q)'
             /\ StacksEndInPage => ArgumentOf(q)'
  <2>1. FramesOf(current)' = FramesOf(c)'
    BY <1>1, <1>9 DEF FramesOf, Tables
  <2>2. QED
    BY <2>1, <1>1, <1>13, <1>14, RemapStep
<1>16. /\ Registered' = IF n = 1 THEN Registered \ {k} ELSE Registered
       /\ \A l \in Registered' : /\ l \in Registered
                                 /\ shp_table'[l].frame = shp_table[l].frame
                                 /\ shp_table'[l].index = shp_table[l].index
  <2>1. Registered' = IF n = 1 THEN Registered \ {k} ELSE Registered
    BY <1>4, <1>10, <1>11 DEF Registered
  <2>2. QED
    BY <2>1, <1>1, <1>10, <1>11 DEF Registered
<1>17. ASSUME ~misused' PROVE Attributed(held', k, n - 1)
  <2>1. PICK h, h2 : h = held /\ h2 = held'
    OBVIOUS
  <2>2. /\ h \in [Proc \X Key -> Nat] /\ h[<<c, k>>] > 0 /\ h2 = [h EXCEPT ![<<c, k>>] = @ - 1]
    BY <2>1, <1>3, <1>12, <1>17 DEF MemTypes
  <2>3. PICK j \in Nat : j + 1 = n
    BY <1>4
  <2>4. Attributed(h, k, j + 1)
    BY <2>1, <2>3, <1>1, <1>2, <1>12, <1>17 DEF MemInv, Counted
  <2>5. Attributed(h2, k, j)
    BY <2>2, <2>4, <1>3, LessReferences
  <2>6. QED
    BY <2>1, <2>3, <2>5
<1>18. ASSUME ~misused', n = 1, NEW q \in Proc PROVE held'[<<q, k>>] = 0
  <2>1. PICK h2 : h2 = held'
    OBVIOUS
  <2>2. n - 1 = 0
    BY <1>18
  <2>3. Attributed(h2, k, 0)
    BY <2>1, <2>2, <1>17, <1>18
  <2>4. QED
    BY <2>1, <2>3, <1>12, NoReferences
<1>19. ASSUME NEW q \in Allocated, q # c PROVE SameReferences(q)
  <2>1. misused => misused'
    BY <1>2
  <2>2. ASSUME ~misused', NEW l \in Registered, held[<<q, l>>] > 0
        PROVE  l \in Registered' /\ held'[<<q, l>>] > 0
    <3>1. held'[<<q, l>>] = held[<<q, l>>] /\ q \in Proc
      BY <2>2, <1>12, <1>19 DEF Registered, Allocated
    <3>2. ~(n = 1 /\ l = k)
      BY <2>2, <3>1, <1>18
    <3>3. QED
      BY <2>2, <3>1, <3>2, <1>16
  <2>3. QED
    BY <2>1, <2>2, <1>16 DEF SameReferences
<1>20. NowMapped(v, Absent)
  BY <1>1, <1>8, <1>9 DEF NowMapped
<1>21. \A p \in Allocated' : Translations(p)'
  <2>1. ASSUME NEW w \in UserPages \ {v}, NEW g, ~misused', OwnPage(current, w, g)
        PROVE  OwnPage(current, w, g)'
    <3>1. current' = current /\ code' = code /\ stack' = stack
      BY <1>2 DEF procVars
    <3>2. CASE Own(code[current], stack[current], w, g)
      BY <3>1, <3>2 DEF OwnPage
    <3>3. CASE \E l \in Registered : /\ SharedPage(shp_table[l].index) = w
                                     /\ shp_table[l].frame = g
                                     /\ held[<<current, l>>] > 0
      <4>1. PICK l \in Registered : /\ SharedPage(shp_table[l].index) = w
                                    /\ shp_table[l].frame = g
                                    /\ held[<<current, l>>] > 0
        BY <3>3
      <4>2. l # k
        BY <4>1, <1>1
      <4>3. held'[<<current, l>>] = held[<<current, l>>]
        BY <2>1, <4>2, <1>1, <1>3, <1>12 DEF Registered
      <4>4. l \in Registered'
        BY <4>1, <4>2, <1>16
      <4>5. QED
        BY <3>1, <4>1, <4>3, <4>4, <1>16 DEF OwnPage
    <3>4. QED
      BY <2>1, <3>2, <3>3 DEF OwnPage
  <2>2. misused => misused'
    BY <1>2
  <2>3. PICK e : e = Absent
    OBVIOUS
  <2>4. Translations(current)'
    BY <2>1, <2>2, <2>3, <1>2, <1>4, <1>20, TranslationsRemapped
  <2>5. Translations(c)'
    BY <2>4, <1>1, <1>9 DEF Translations, OwnPage
  <2>6. QED
    BY <2>5, <1>15, <1>19
<1>22. Apart'
  <2>1. \A q, r \in Allocated' : q # r => FramesOf(q)' \cap FramesOf(r)' = {}
    BY <1>15 DEF MemInv, Apart
  <2>2. \A l \in Registered \ {k} : shp_table[l].frame # f /\ shp_table[l].index # i
    BY <1>1, <1>4 DEF MemInv, Apart
  <2>3. \A l \in Registered' : /\ shp_table'[l].frame \in used'
                               /\ \A q \in Allocated : shp_table'[l].frame \notin FramesOf(q)'
    <3> SUFFICES ASSUME NEW l \in Registered'
                 PROVE  /\ shp_table'[l].frame \in used'
                        /\ \A q \in Allocated : shp_table'[l].frame \notin FramesOf(q)'
      OBVIOUS
    <3>1. l \in Registered /\ shp_table'[l].frame = shp_table[l].frame /\ (n = 1 => l # k)
      BY <1>16
    <3>2. shp_table[l].frame \in used /\ \A q \in Allocated : shp_table[l].frame \notin FramesOf(q)
      BY <3>1 DEF MemInv, Apart
    <3>3. shp_table[l].frame \notin gone
      BY <3>1, <2>2, <1>7
    <3>4. QED
      BY <3>1, <3>2, <3>3, <1>8, <1>15
  <2>4. \A l, o \in Registered' : l # o => /\ shp_table'[l].frame # shp_table'[o].frame
                                           /\ shp_table'[l].index # shp_table'[o].index
    BY <1>16 DEF MemInv, Apart
  <2>5. \A j \in 0..(PAGE_MAX - 1) : virtual_map'[j] = (virtual_map[j] /\ ~(n = 1 /\ j = i))
    BY <1>2, <1>3 DEF MemTypes
  <2>6. \A l \in Registered : shp_table[l].index \in 0..(PAGE_MAX - 1) /\ virtual_map[shp_table[l].index]
    BY <1>3 DEF MemInv, Apart, Registered, MemTypes, Shp
  <2>7. \A l \in Registered' : virtual_map'[shp_table'[l].index]
    BY <2>2, <2>5, <2>6, <1>16
  <2>8. ASSUME NEW j \in 0..(PAGE_MAX - 1), virtual_map'[j]
        PROVE  \E l \in Registered' : shp_table'[l].index = j
    <3>1. virtual_map[j] /\ ~(n = 1 /\ j = i)
      BY <2>5, <2>8
    <3>2. PICK l \in Registered : shp_table[l].index = j
      BY <3>1 DEF MemInv, Apart
    <3>3. l \in Registered'
      BY <3>1, <3>2, <1>1, <1>16
    <3>4. QED
      BY <3>2, <3>3, <1>16
  <2>9. QED
    BY <2>1, <2>3, <2>4, <2>7, <2>8, <1>15 DEF Apart
<1>23. Counted'
  <2> SUFFICES ASSUME ~misused', NEW l \in Key
               PROVE  IF shp_table'[l] = None THEN \A q \in Proc : held'[<<q, l>>] = 0
                                              ELSE Attributed(held', l, shp_table'[l].refcount)
    BY DEF Counted
  <2>1. IF shp_table[l] = None THEN \A q \in Proc : held[<<q, l>>] = 0
                               ELSE Attributed(held, l, shp_table[l].refcount)
    BY <1>12 DEF MemInv, Counted
  <2>2. CASE l = k
    <3>1. CASE n = 1
      BY <2>2, <3>1, <1>10, <1>11, <1>18
    <3>2. CASE n # 1
      BY <2>2, <3>2, <1>10, <1>11, <1>17
    <3>3. QED
      BY <3>1, <3>2
  <2>3. CASE l # k
    <3>1. shp_table'[l] = shp_table[l] /\ \A q \in Proc : held'[<<q, l>>] = held[<<q, l>>]
      BY <2>3, <1>11, <1>12
    <3>2. QED
      BY <3>1, <2>1 DEF Attributed
  <2>4. QED
    BY <2>2, <2>3
<1>24. Cached'
  BY <1>2 DEF Cached
<1>25. ASSUME StacksEndInPage PROVE \A q \in Allocated' : ArgumentOf(q)'
  <2>1. ArgumentOf(current)'
    BY <1>2, <1>4, <1>20, <1>25, ArgumentRemapped
  <2>2. ArgumentOf(c)'
    BY <2>1, <1>1, <1>9 DEF ArgumentOf
  <2>3. QED
    BY <2>2, <1>15, <1>25
<1>26. MemInv'
  BY <1>13, <1>15, <1>21, <1>22, <1>23, <1>24, <1>25 DEF MemInv
<1>27. NoLeak
  <2>1. \A g : g \in Owned' <=> \/ \E q \in Allocated' : g \in FramesOf(q)'
                                \/ \E l \in Registered' : g = shp_table'[l].frame
    BY OwnedNext
  <2>2. \A g : g \in Owned <=> \/ \E q \in Allocated : g \in FramesOf(q)
                               \/ \E l \in Registered : g = shp_table[l].frame
    BY OwnedIs
  <2>3. \A l \in Registered \ {k} : shp_table[l].frame # f
    BY <1>1, <1>4 DEF MemInv, Apart
  <2>4. shp_table[k].frame = f
    BY <1>1
  <2>5. Owned' = Owned \ gone /\ gone \subseteq Owned
    <3>1. CASE n = 1
      <4>1. gone = {f} /\ Registered' = Registered \ {k}
        BY <3>1, <1>7, <1>16
      <4>2. QED
        BY <4>1, <2>1, <2>2, <2>3, <2>4, <1>4, <1>5, <1>15, <1>16
    <3>2. CASE n # 1
      <4>1. gone = {} /\ Registered' = Registered
        BY <3>2, <1>7, <1>16
      <4>2. QED
        BY <4>1, <2>1, <2>2, <1>15, <1>16
    <3>3. QED
      BY <3>1, <3>2
  <2>6. QED
    BY <2>5, <1>8 DEF NoLeak
<1>28. QED
  BY <1>26, <1>27

-----------------------------------------------------------------------------
(* The invariant holds, and says what the runs check *)

LEMMA NextStep ==
    ASSUME MemInv, Next
    PROVE  /\ MemInv'
           /\ NoLeak \/ (FreeIndex = {} /\ Cardinality(used') = Cardinality(used) + 1)
<1>1. ASSUME NEW p \in Proc, NEW size \in CodeSize, NEW ssize \in StackSize, Start(p, size, ssize)
      PROVE  MemInv' /\ NoLeak
  BY <1>1, StartStep
<1>2. ASSUME Exit PROVE MemInv' /\ NoLeak
  BY <1>2, ExitStep
<1>3. ASSUME NEW p \in Proc, Kill(p) PROVE MemInv' /\ NoLeak
  BY <1>3, KillStep
<1>4. ASSUME NEW p \in Proc, Switch(p) PROVE MemInv' /\ NoLeak
  BY <1>4, SwitchStep
<1>5. ASSUME NEW p \in Proc, FreeTask(p) PROVE MemInv' /\ NoLeak
  BY <1>5, FreeTaskStep
<1>6. ASSUME NEW i \in 0..(PAGE_MAX - 1), Access(SharedPage(i)) PROVE MemInv' /\ NoLeak
  BY <1>6, AccessStep
<1>7. ASSUME NEW k \in Key, ShmCreate(k) PROVE MemInv' /\ NoLeak
  BY <1>7, ShmCreateStep
<1>8. ASSUME NEW k \in Key, ShmCreateFails(k)
      PROVE  MemInv' /\ FreeIndex = {} /\ Cardinality(used') = Cardinality(used) + 1
  BY <1>8, ShmCreateFailsStep
<1>9. ASSUME NEW k \in Key, ShmAcquire(k) PROVE MemInv' /\ NoLeak
  BY <1>9, ShmAcquireStep
<1>10. ASSUME NEW k \in Key, ShmRelease(k) PROVE MemInv' /\ NoLeak
  BY <1>10, ShmReleaseStep
<1>11. QED
  BY <1>1, <1>2, <1>3, <1>4, <1>5, <1>6, <1>7, <1>8, <1>9, <1>10 DEF Next

LEMMA StutterStep ==
    ASSUME MemInv, UNCHANGED vars
    PROVE  MemInv'
<1>1. /\ UNCHANGED <<content, cr3, code, stack, arg, shmVars>>
      /\ used' = used /\ state' = state /\ current' = current /\ tlb' = tlb
  BY DEF vars, procVars, shmVars
<1>2. Allocated' = Allocated /\ Mem' = Mem
  BY <1>1 DEF Allocated, Mem
<1>3. Cached => Cached'
  BY <1>1, <1>2 DEF Cached, PastStack, shmVars
<1>4. /\ used \subseteq used' /\ used' \subseteq Managed /\ current' \in Allocated
      /\ state' \in [Proc -> {"none", "live", "zombie"}]
  BY <1>1 DEF MemInv, MemTypes
<1>5. QED
  BY <1>1, <1>2, <1>3, <1>4, QuietStep

\* The inductive invariant holds in every reachable state: however processes start,
\* die and are freed, and whatever they share, each live or zombie process has an
\* address space of its own, made by start_task and changed by map_page and
\* unmap_page, and refcount counts every reference of shm_create and shm_acquire.
THEOREM Invariance == Spec => []MemInv
<1>1. Init => MemInv
  BY InitStep
<1>2. MemInv /\ [Next]_vars => MemInv'
  BY NextStep, StutterStep
<1>3. QED
  BY <1>1, <1>2, PTL DEF Spec

LEMMA TypesHold ==
    ASSUME MemInv
    PROVE  MemTypeOK
<1>1. ASSUME NEW p \in Allocated
      PROVE  cr3[p] \in Managed /\ Block(code[p]) \subseteq Managed /\ Block(stack[p]) \subseteq Managed
  BY DEF MemInv, MemTypes, Spaces, SpaceOf, FramesOf
<1>2. ASSUME NEW k \in Key, shp_table[k] # None PROVE shp_table[k].refcount \in Nat \ {0}
  BY <1>2 DEF MemInv, MemTypes, Shp
<1>3. QED
  BY <1>1, <1>2 DEF MemInv, MemTypes, MemTypeOK, Allocated

LEMMA BlockSize ==
    ASSUME NEW b \in Nat \X Nat
    PROVE  IsFiniteSet(Block(b)) /\ Cardinality(Block(b)) = b[2]
<1>1. PICK f \in Nat, n \in Nat : b[1] = f /\ b[2] = n
  OBVIOUS
<1>2. PICK a \in Int, l \in Int : a = f /\ l = (f + n) - 1
  OBVIOUS
<1>3. IsFiniteSet(a..l) /\ Cardinality(a..l) = IF a > l THEN 0 ELSE (l - a) + 1
  BY FS_Interval
<1>4. (IF a > l THEN 0 ELSE (l - a) + 1) = n
  BY <1>2
<1>5. Block(b) = a..l
  BY <1>1, <1>2 DEF Block
<1>6. QED
  BY <1>1, <1>3, <1>4, <1>5

\* The frames of a process are as many as its parts have together.
LEMMA SpaceSize ==
    ASSUME MemInv, NEW p \in Allocated
    PROVE  Cardinality(FramesOf(p)) = 1 + Cardinality(Tables(p)) + code[p][2] + stack[p][2]
<1>1. /\ MemTypes /\ p \in Proc /\ IsSpace(Mem, cr3[p]) /\ FramesOf(p) \subseteq Managed
      /\ ({cr3[p]} \cup Tables(p)) \cap (Block(code[p]) \cup Block(stack[p])) = {}
      /\ Block(code[p]) \cap Block(stack[p]) = {}
  BY DEF MemInv, MemTypes, Spaces, SpaceOf, Allocated
<1>2. PICK d, T, C, S, nc, ns :
        /\ d = cr3[p] /\ T = Tables(p) /\ C = Block(code[p]) /\ S = Block(stack[p])
        /\ nc = code[p][2] /\ ns = stack[p][2]
  OBVIOUS
<1>3. d \notin T
  BY <1>1, <1>2, MemIs DEF IsSpace, TablesIn, UserTables
<1>4. IsFiniteSet(T) /\ Cardinality(T) \in Nat
  <2>1. IsFiniteSet(Managed)
    BY Layout, FS_Interval DEF Managed
  <2>2. T \subseteq Managed
    BY <1>1, <1>2 DEF FramesOf
  <2>3. QED
    BY <2>1, <2>2, FS_Subset, FS_CardinalityType
<1>5. /\ IsFiniteSet(C) /\ Cardinality(C) = nc /\ nc \in Nat
      /\ IsFiniteSet(S) /\ Cardinality(S) = ns /\ ns \in Nat
  <2>1. code[p] \in Nat \X Nat /\ stack[p] \in Nat \X Nat
    BY <1>1 DEF MemTypes
  <2>2. QED
    BY <2>1, <1>2, BlockSize
<1>6. IsFiniteSet({d} \cup T) /\ Cardinality({d} \cup T) = 1 + Cardinality(T)
  <2>1. PICK U : U = T \cup {d}
    OBVIOUS
  <2>2. IsFiniteSet(U) /\ Cardinality(U) = Cardinality(T) + 1
    BY <2>1, <1>3, <1>4, FS_AddElement
  <2>3. Cardinality(U) = 1 + Cardinality(T)
    BY <2>2, <1>4
  <2>4. {d} \cup T = U
    BY <2>1
  <2>5. QED
    BY <2>2, <2>3, <2>4
<1>7. IsFiniteSet(C \cup S) /\ Cardinality(C \cup S) = nc + ns
  <2>1. C \cap S = {}
    BY <1>1, <1>2
  <2>2. Cardinality(C \cap S) = 0
    BY <2>1, FS_EmptySet
  <2>3. IsFiniteSet(C \cup S) /\ Cardinality(C \cup S) = Cardinality(C) + Cardinality(S) - Cardinality(C \cap S)
    BY <1>5, FS_Union
  <2>4. QED
    BY <2>2, <2>3, <1>5
<1>8. PICK A, B : A = {d} \cup T /\ B = C \cup S
  OBVIOUS
<1>9. Cardinality(A \cup B) = 1 + Cardinality(T) + nc + ns
  <2>1. A \cap B = {}
    BY <1>1, <1>2, <1>8
  <2>2. Cardinality(A \cap B) = 0
    BY <2>1, FS_EmptySet
  <2>3. Cardinality(A \cup B) = Cardinality(A) + Cardinality(B) - Cardinality(A \cap B)
    BY <1>6, <1>7, <1>8, FS_Union
  <2>4. Cardinality(A) = 1 + Cardinality(T) /\ Cardinality(B) = nc + ns
    BY <1>6, <1>7, <1>8
  <2>5. QED
    BY <2>2, <2>3, <2>4, <1>4, <1>5
<1>10. FramesOf(p) = A \cup B
  BY <1>2, <1>8 DEF FramesOf
<1>11. QED
  BY <1>2, <1>9, <1>10

LEMMA OwnedOnce ==
    ASSUME MemInv
    PROVE  FramesOwnedOnce
<1>1. Owned \subseteq used
  <2>1. \A q \in Allocated : FramesOf(q) \subseteq used
    BY DEF MemInv, Spaces, SpaceOf
  <2>2. \A k \in Registered : shp_table[k].frame \in used
    BY DEF MemInv, Apart
  <2>3. QED
    BY <2>1, <2>2, OwnedIs
<1>2. \A p \in Allocated :
        Cardinality(FramesOf(p)) = 1 + Cardinality(Tables(p)) + code[p][2] + stack[p][2]
  BY SpaceSize
<1>3. /\ \A p \in Allocated : /\ \A q \in Allocated \ {p} : FramesOf(p) \cap FramesOf(q) = {}
                              /\ \A k \in Registered : shp_table[k].frame \notin FramesOf(p)
      /\ \A k, l \in Registered : k # l => shp_table[k].frame # shp_table[l].frame
  BY DEF MemInv, Apart
<1>4. QED
  BY <1>1, <1>2, <1>3 DEF FramesOwnedOnce

LEMMA PagesDistinct ==
    ASSUME MemInv
    PROVE  SharedPagesDistinct
<1> SUFFICES ASSUME NEW i \in 0..(PAGE_MAX - 1)
             PROVE  Cardinality({k \in Registered : shp_table[k].index = i})
                      = IF virtual_map[i] THEN 1 ELSE 0
  BY DEF SharedPagesDistinct
<1>1. PICK K : K = {k \in Registered : shp_table[k].index = i}
  OBVIOUS
<1>2. CASE virtual_map[i]
  <2>1. PICK k \in Registered : shp_table[k].index = i
    BY <1>2 DEF MemInv, Apart
  <2>2. \A l \in Registered : l # k => shp_table[l].index # i
    BY <2>1 DEF MemInv, Apart
  <2>3. K = {k}
    BY <2>1, <2>2, <1>1
  <2>4. QED
    BY <2>3, <1>1, <1>2, FS_Singleton
<1>3. CASE ~virtual_map[i]
  <2>1. \A k \in Registered : shp_table[k].index # i
    BY <1>3 DEF MemInv, Apart
  <2>2. K = {}
    BY <2>1, <1>1
  <2>3. QED
    BY <2>2, <1>1, <1>3, FS_EmptySet
<1>4. QED
  BY <1>2, <1>3

\* The tables that all processes share map nothing for user mode.
LEMMA KernelPages ==
    ASSUME MemInv, NEW p \in Allocated, NEW v \in 0..((PD_ENTRIES * PT_ENTRIES) - 1), v \notin UserPages
    PROVE  ~is_user_addr(Mem, cr3[p], v)
<1>1. v \in Nat /\ v < KERNEL_ENTRIES * PT_ENTRIES
  BY Layout DEF UserPages
<1>2. PICK i, j : i = pd_index(v) /\ j = pt_index(v)
  OBVIOUS
<1>3. j \in 0..(PT_ENTRIES - 1) /\ i \in Nat
  BY <1>1, <1>2, Layout, DivMod DEF pd_index, pt_index
<1>4. i < KERNEL_ENTRIES
  <2>1. v < PT_ENTRIES * KERNEL_ENTRIES
    BY <1>1, Layout
  <2>2. QED
    BY <2>1, <1>1, <1>2, Layout, DivBound DEF pd_index
<1>5. i \in 0..(KERNEL_ENTRIES - 1) /\ i \in 0..(PD_ENTRIES - 1)
  BY <1>3, <1>4, KernelBelow, Layout
<1>6. content[cr3[p]][i] = Entry(i + 1, TRUE, FALSE)
  <2>1. content[cr3[p]][i] = pgdir[i]
    BY <1>5, MemIs DEF MemInv, Spaces, SpaceOf, IsSpace
  <2>2. QED
    BY <2>1, <1>4, <1>5 DEF pgdir
<1>7. i + 1 \notin Managed
  BY <1>3, <1>4, Layout DEF Managed
<1>8. PICK e : e = pgtab[i][j]
  OBVIOUS
<1>9. e = Absent \/ \E f, rw : e = Entry(f, rw, FALSE)
  BY <1>3, <1>5, <1>8 DEF pgtab
<1>10. e # Absent => ~e.us
  BY <1>9 DEF Entry
<1>11. Walk(Mem, cr3[p], v) = Absent \/ Walk(Mem, cr3[p], v) = e
  <2>1. Entry(i + 1, TRUE, FALSE).frame = i + 1 /\ (i + 1) - 1 = i
    BY <1>3 DEF Entry
  <2>2. Mem.content = content /\ DOMAIN content = Managed
    BY MemIs DEF MemInv, MemTypes
  <2>3. Table(Mem, i + 1) = pgtab[i]
    BY <2>1, <2>2, <1>7 DEF Table
  <2>4. QED
    BY <2>1, <2>2, <2>3, <1>2, <1>6, <1>8 DEF Walk
<1>12. QED
  BY <1>10, <1>11 DEF is_user_addr

LEMMA AddressesOwned ==
    ASSUME MemInv
    PROVE  UserAddressesOwned
<1> SUFFICES ASSUME NEW p \in Allocated, NEW v \in 0..((PD_ENTRIES * PT_ENTRIES) - 1),
                    is_user_addr(Mem, cr3[p], v), NEW e, e = Walk(Mem, cr3[p], v), ~misused
             PROVE  \/ e.frame \in Block(code[p]) /\ v >= USER_START
                    \/ e.frame \in Block(stack[p])
                    \/ v = USER_STACK_END /\ e.frame = PastStack(p)
                    \/ \E k \in Registered : /\ SharedPage(shp_table[k].index) = v
                                             /\ shp_table[k].frame = e.frame
                                             /\ held[<<p, k>>] > 0
  BY DEF UserAddressesOwned
<1>1. v \in UserPages
  BY KernelPages
<1>2. e # Absent
  BY DEF is_user_addr
<1>3. PICK f \in Nat : e = UserEntry(f) /\ OwnPage(p, v, f)
  BY <1>1, <1>2 DEF MemInv, Translations
<1>4. e.frame = f
  BY <1>3, Entries
<1>5. v \in Nat /\ USER_START \in Nat
  BY Layout
<1>6. CASE Own(code[p], stack[p], v, f)
  BY <1>4, <1>5, <1>6 DEF Own, PastStack
<1>7. QED
  BY <1>3, <1>4, <1>6 DEF OwnPage

LEMMA PagesStay ==
    ASSUME MemInv
    PROVE  HeldPagesStay
<1> SUFFICES ASSUME ~misused, NEW p \in Allocated, NEW k \in Key, held[<<p, k>>] > 0
             PROVE  k \in Registered /\ shp_table[k].refcount >= held[<<p, k>>]
  BY DEF HeldPagesStay
<1>1. PICK h : h = held
  OBVIOUS
<1>2. h \in [Proc \X Key -> Nat] /\ p \in Proc
  BY <1>1 DEF MemInv, MemTypes, Allocated
<1>3. h[<<p, k>>] \in Nat
  BY <1>2
<1>4. shp_table[k] # None
  BY <1>1, <1>2, <1>3 DEF MemInv, Counted
<1>5. Attributed(h, k, shp_table[k].refcount)
  BY <1>1, <1>4 DEF MemInv, Counted
<1>6. PICK n \in Nat : n = shp_table[k].refcount
  BY <1>4 DEF MemInv, MemTypes, Shp
<1>7. h[<<p, k>>] <= n
  BY <1>2, <1>5, <1>6, AtMostCounted
<1>8. QED
  BY <1>1, <1>3, <1>4, <1>6, <1>7 DEF Registered

\* Types, frames and shared pages: the frames that start_task, map_page and shm_create
\* took from alloc_physical_page have one owner each and are all in use until free_task
\* or the last shm_release gives them back, and virtual_map says exactly which shared
\* pages the registered keys have.
THEOREM Frames_Consistent == Spec => []FramesConsistent
<1>1. MemInv => FramesConsistent
  BY TypesHold, OwnedOnce, PagesDistinct DEF FramesConsistent
<1>2. QED
  BY <1>1, Invariance, PTL

\* Whatever is_user_addr accepts is memory of that process: the page tables that
\* map_zone, shm_create, shm_acquire and shm_release leave behind give user mode
\* no frame of another process, of the kernel or of a page already freed.  And a
\* page that is still held is not freed, whoever dies: refcount counts enough.
THEOREM OwnMemoryOnly == Spec => [](UserAddressesOwned /\ HeldPagesStay)
<1>1. MemInv => UserAddressesOwned /\ HeldPagesStay
  BY AddressesOwned, PagesStay
<1>2. QED
  BY <1>1, Invariance, PTL

\* The same, and main finds its argument where start_task wrote it, as long as no
\* program asks for a stack that fills its pages exactly.
THEOREM SpacesRight == StacksEndInPage => (Spec => []AddressSpaces)
<1> SUFFICES ASSUME StacksEndInPage PROVE Spec => []AddressSpaces
  OBVIOUS
<1>1. MemInv => ArgumentFound
  BY DEF MemInv, ArgumentFound, ArgumentOf
<1>2. MemInv => AddressSpaces
  BY <1>1, AddressesOwned, PagesStay DEF AddressSpaces
<1>3. QED
  BY <1>2, Invariance, PTL

\* The processor never uses a translation that the page tables have lost: shm_release
\* loads CR3 again after unmap_zone, and a page that shm_create or shm_acquire map was
\* not mapped before, or to the same frame.
THEOREM TlbNeverStale == StacksEndInPage => (Spec => []TlbCoherent)
<1> SUFFICES ASSUME StacksEndInPage PROVE Spec => []TlbCoherent
  OBVIOUS
<1>1. MemInv => TlbCoherent
  BY DEF MemInv, Cached, TlbCoherent
<1>2. QED
  BY <1>1, Invariance, PTL

\* A step that changes which of the frames in use belong to nobody is a failing
\* shm_create: the only one that forgets a frame.  In particular free_task and the
\* last shm_release give back all they should.
THEOREM OnlyFullLeaks == Spec => LeakOnlyWhenFull
<1>1. MemInv /\ [Next]_vars =>
        [(used \ Owned)' # used \ Owned => FreeIndex = {} /\ Cardinality(used') = Cardinality(used) + 1]_vars
  BY NextStep DEF NoLeak
<1>2. QED
  BY <1>1, Invariance, PTL DEF Spec, LeakOnlyWhenFull

=============================================================================
