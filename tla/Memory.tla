------------------------------- MODULE Memory -------------------------------
(***************************************************************************)
(* Address spaces: the two-level page tables of paging.c, what start_task  *)
(* and free_task do with them, the shared pages of shm.c, and the TLB.     *)
(* Physical memory is a sequence of frames; `content' is what the kernel   *)
(* wrote into the frames it uses as directories and tables.  Sizes are     *)
(* scaled: a page has PAGE_SIZE bytes, a table PT_ENTRIES entries.         *)
(*                                                                         *)
(* The heap (mem_alloc), the table of keys (KeyMap) and the page allocator *)
(* (PageFrames) are used through what they promise; no call in here calls  *)
(* schedule(), so each is one step.                                        *)
(***************************************************************************)
EXTENDS Integers, FiniteSets, FiniteSetsExt

CONSTANTS
    Proc, Idle,         \* task structs, and the one that never dies
    Key, None,          \* keys of shared pages; no value
    PAGE_SIZE,          \* bytes in a page
    PT_ENTRIES,         \* entries of a page table
    PD_ENTRIES,         \* entries of a page directory
    KERNEL_ENTRIES,     \* directory entries that all processes share
    Text,               \* frames of .text, .rodata and .multiboot
    KernelFrames,       \* number of frames below the managed ones
    Frames,             \* number of frames: those in between are managed
    USER_START,         \* page where a program starts
    USER_STACK_END,     \* page of the last byte of the stack, and SHARED_START
    PAGE_MAX,           \* number of shared pages
    MaxLeak,            \* bound: frames that are lost
    MaxRef,             \* bound: references to a shared page (refcount is a uint64_t)
    CodeSize, StackSize \* sizes of programs (bytes) and stacks (words)

ASSUME MemoryLayout ==
    /\ PAGE_SIZE \in Nat \ {0} /\ PAGE_SIZE % 4 = 0
    /\ PT_ENTRIES \in Nat \ {0} /\ PD_ENTRIES \in Nat
    /\ KERNEL_ENTRIES \in Nat /\ KernelFrames \in Nat /\ Frames \in Nat
    /\ KERNEL_ENTRIES < KernelFrames /\ KernelFrames <= Frames
    /\ KERNEL_ENTRIES * PT_ENTRIES >= Frames
    /\ USER_START \in Nat /\ USER_START >= KERNEL_ENTRIES * PT_ENTRIES
    /\ USER_STACK_END \in Nat /\ USER_STACK_END >= USER_START /\ PAGE_MAX \in Nat \ {0}
    /\ USER_STACK_END + PAGE_MAX <= PD_ENTRIES * PT_ENTRIES
    /\ IsFiniteSet(Proc) /\ Proc = 0..(Cardinality(Proc) - 1) /\ Idle \in Proc
    /\ CodeSize \subseteq Nat /\ StackSize \subseteq Nat
    /\ None \notin [frame : Nat, index : Nat, refcount : Nat]

ASSUME Bounds == MaxLeak \in Nat /\ MaxRef \in Nat

VARIABLES
    content,     \* frame -> entries, where the frame is a directory or a table
    used,        \* frames handed out by the page allocator
    state,       \* process -> "none", "live", "zombie"
    cr3,         \* process -> frame of its directory, regs[CR3]
    code, stack, \* process -> <<first frame, number of frames>>
    arg,         \* process -> physical address where start_task wrote the argument
    current,     \* the process whose directory is loaded
    tlb,         \* translations the processor has cached: <<page, entry>>
    shp_table,   \* key -> the struct shp, or None
    virtual_map, \* which shared virtual pages are taken
    held,        \* history: <<process, key>> -> creates and acquires minus releases
    misused      \* history: somebody released a key he did not hold

vars == <<content, used, state, cr3, code, stack, arg, current, tlb, shp_table,
          virtual_map, held, misused>>

procVars == <<state, cr3, code, stack, arg, current>>
shmVars  == <<shp_table, virtual_map, held, misused>>

----------------------------------------------------------------------------
\* Entries of directories and tables.  Every entry but 0 has the PRESENT bit.
Absent == <<>>

Entry(f, rw, us) == [frame |-> f, rw |-> rw, us |-> us]

pd_index(v) == v \div PT_ENTRIES
pt_index(v) == v % PT_ENTRIES

Blank(n) == [i \in 0..(n - 1) |-> Absent]

\* The contents of a frame that is neither a directory nor a table.
Other == <<>>

\* The early page directory: the first frame is not mapped, text is read-only,
\* everything else of the supported memory is mapped to itself, read/write,
\* for the kernel only.  pgtab[i] is in frame i + 1.
pgtab == [i \in 0..(KERNEL_ENTRIES - 1) |->
            [j \in 0..(PT_ENTRIES - 1) |->
                LET f == i * PT_ENTRIES + j IN
                IF f = 0 \/ f >= Frames THEN Absent ELSE Entry(f, f \notin Text, FALSE)]]

pgdir == [i \in 0..(PD_ENTRIES - 1) |->
            IF i < KERNEL_ENTRIES THEN Entry(i + 1, TRUE, FALSE) ELSE Absent]

\* A table of the process, or of the kernel.
Table(m, f) == IF f \in DOMAIN m.content THEN m.content[f] ELSE pgtab[f - 1]

----------------------------------------------------------------------------
\* Memory as the operators below pass it on: the contents and the frames in use.
Mem == [content |-> content, used |-> used]

Block(b) == b[1]..(b[1] + b[2] - 1)

Managed == KernelFrames..(Frames - 1)

\* PageFrames!Alloc promises some n frames that nobody has.  Which ones makes no
\* difference below: the properties fail when a frame is given back while it is in
\* use, not only when somebody else gets it.  To tell apart only what matters, the
\* lowest free ones are taken, in a part of memory for each process p and for the
\* shared pages (p = Shared).
Shared == Cardinality(Proc)

PartSize == (Frames - KernelFrames) \div (Cardinality(Proc) + 1)

Part(p) == Block(<<KernelFrames + p * PartSize, PartSize>>)

\* A request that cannot be met stops the machine (alloc_block panics), which is not
\* modelled: it yields frames past the end, and the call that made it is no step.
FirstFree(m, n, p) ==
    Min({f \in Part(p) : Block(<<f, n>>) \subseteq Part(p) \ m.used} \cup {Frames})

Fits(m) == m.used \subseteq Managed

alloc_physical_page(m, n, p) == [m EXCEPT !.used = @ \cup Block(<<FirstFree(m, n, p), n>>)]

\* What was in a free frame is lost: the page allocator links through it.
free_frames(m, fs) ==
    [content |-> [f \in DOMAIN m.content |-> IF f \in fs THEN Other ELSE m.content[f]],
     used    |-> m.used \ fs]

free_physical_page(m, b) == free_frames(m, Block(b))

\* A table is created, zeroed, when the directory has none for this page.
map_page(m, p, dir, v, f, flags) ==
    LET absent == m.content[dir][pd_index(v)] = Absent
        new    == FirstFree(m, 1, p)
        table  == IF absent THEN new ELSE m.content[dir][pd_index(v)].frame
        m1     == IF absent
                  THEN [alloc_physical_page(m, 1, p) EXCEPT
                          !.content[new] = Blank(PT_ENTRIES),
                          !.content[dir][pd_index(v)] = Entry(new, flags.rw, flags.us)]
                  ELSE m
    IN [m1 EXCEPT !.content[table][pt_index(v)] = Entry(f, flags.rw, flags.us)]

\* The addresses are in bytes.  ALIGN_UP does not round up: both ends are aligned
\* down, and the page of the last one is mapped too.
map_zone(m, p, dir, virt_start, virt_end, phy_start, flags) ==
    LET first == virt_start \div PAGE_SIZE
        last  == virt_end \div PAGE_SIZE
        mapped[v \in (first - 1)..last] ==
            IF v < first THEN m
            ELSE map_page(mapped[v - 1], p, dir, v, phy_start \div PAGE_SIZE + v - first, flags)
    IN mapped[last]

\* A page without a table is skipped.
unmap_page(m, dir, v) ==
    IF m.content[dir][pd_index(v)] = Absent THEN m
    ELSE [m EXCEPT !.content[m.content[dir][pd_index(v)].frame][pt_index(v)] = Absent]

unmap_zone(m, dir, virt_start, virt_end) ==
    LET first == virt_start \div PAGE_SIZE
        last  == virt_end \div PAGE_SIZE
        unmapped[v \in (first - 1)..last] ==
            IF v < first THEN m ELSE unmap_page(unmapped[v - 1], dir, v)
    IN unmapped[last]

\* The directory is the frame FirstFree(m, 1, p).
page_directory_create(m, p) ==
    [alloc_physical_page(m, 1, p) EXCEPT
        !.content[FirstFree(m, 1, p)] =
            [i \in 0..(PD_ENTRIES - 1) |-> IF i < KERNEL_ENTRIES THEN pgdir[i] ELSE Absent]]

\* Mutants: the tables are forgotten; what they map is given back with them.
DestroyDirectoryOnly(m, dir) == free_frames(m, {dir})

DestroyMapped(m, dir) ==
    LET tables == {m.content[dir][i].frame :
                      i \in {j \in KERNEL_ENTRIES..(PD_ENTRIES - 1) : m.content[dir][j] # Absent}}
        mapped == {m.content[t][i] : t \in tables, i \in 0..(PT_ENTRIES - 1)} \ {Absent}
    IN free_frames(m, {dir} \cup tables \cup {e.frame : e \in mapped})

\* The tables of the process and the directory; not the shared entries.
page_directory_destroy(m, dir) ==
    free_frames(m, {dir} \cup {m.content[dir][i].frame :
                i \in {j \in KERNEL_ENTRIES..(PD_ENTRIES - 1) : m.content[dir][j] # Absent}})

\* The entry the processor finds for a page.
Walk(m, dir, v) ==
    IF m.content[dir][pd_index(v)] = Absent
    THEN Absent
    ELSE Table(m, m.content[dir][pd_index(v)].frame)[pt_index(v)]

is_user_addr(m, dir, v) == LET e == Walk(m, dir, v) IN e # Absent /\ e.us

----------------------------------------------------------------------------
\* Who owns which frames.
Allocated == {p \in Proc : state[p] # "none"}

Registered == {k \in Key : shp_table[k] # None}

Tables(p) == {content[cr3[p]][i].frame :
                i \in {j \in KERNEL_ENTRIES..(PD_ENTRIES - 1) : content[cr3[p]][j] # Absent}}

FramesOf(p) == {cr3[p]} \cup Tables(p) \cup Block(code[p]) \cup Block(stack[p])

Owned == (UNION {FramesOf(p) : p \in Allocated}) \cup {shp_table[k].frame : k \in Registered}

----------------------------------------------------------------------------
UserFlags == [rw |-> TRUE, us |-> TRUE]

\* The memory of a new process: directory, code, stack.
nb_code_pages(size) == (size \div PAGE_SIZE) + 1

real_size(ssize) == ssize * 4 + 8

nb_stack_pages(ssize) == (real_size(ssize) \div PAGE_SIZE) + 1

\* Offset of the argument from the start of the stack's frames: the stack is moved
\* up so that it ends where the last frame ends.
ArgumentAt(ssize) == (PAGE_SIZE - (real_size(ssize) % PAGE_SIZE)) + real_size(ssize) - 4

\* The code of a program ends below its stack.  The page allocator asserts that a
\* request is for less than 64 MB (NB_PAGES_ALLOC), and there are almost 3 GB in
\* between.
ASSUME ProgramsFit ==
    \A size \in CodeSize, ssize \in StackSize :
        USER_START + nb_code_pages(size) + nb_stack_pages(ssize) <= USER_STACK_END

NewSpace(m, p, size, ssize) ==
    LET dir == FirstFree(m, 1, p)
        m1  == page_directory_create(m, p)
        c   == <<FirstFree(m1, nb_code_pages(size), p), nb_code_pages(size)>>
        m2  == map_zone(alloc_physical_page(m1, c[2], p), p, dir, USER_START * PAGE_SIZE,
                        USER_START * PAGE_SIZE + size, c[1] * PAGE_SIZE, UserFlags)
        s   == <<FirstFree(m2, nb_stack_pages(ssize), p), nb_stack_pages(ssize)>>
        m3  == map_zone(alloc_physical_page(m2, s[2], p), p, dir,
                        USER_STACK_END * PAGE_SIZE - real_size(ssize) + 1,
                        USER_STACK_END * PAGE_SIZE, s[1] * PAGE_SIZE, UserFlags)
    IN [mem |-> m3, dir |-> dir, code |-> c, stack |-> s,
        arg |-> s[1] * PAGE_SIZE + ArgumentAt(ssize)]

\* start() by current().
Start(p, size, ssize) ==
    LET new == NewSpace(Mem, p, size, ssize) IN
    /\ state[current] = "live" /\ state[p] = "none" /\ Fits(new.mem)
    /\ state' = [state EXCEPT ![p] = "live"]
    /\ cr3' = [cr3 EXCEPT ![p] = new.dir]
    /\ code' = [code EXCEPT ![p] = new.code]
    /\ stack' = [stack EXCEPT ![p] = new.stack]
    /\ arg' = [arg EXCEPT ![p] = new.arg]
    /\ content' = new.mem.content /\ used' = new.mem.used
    /\ UNCHANGED <<current, tlb, shmVars>>

\* exit() of the current process, or a page fault of it: its memory stays until
\* free_task, and its references to shared pages are not given up.
Exit ==
    /\ state[current] = "live" /\ current # Idle
    /\ state' = [state EXCEPT ![current] = "zombie"]
    /\ UNCHANGED <<content, used, cr3, code, stack, arg, current, tlb, shmVars>>

Kill(p) ==
    /\ state[current] = "live" /\ state[p] = "live" /\ p \notin {current, Idle}
    /\ state' = [state EXCEPT ![p] = "zombie"]
    /\ UNCHANGED <<content, used, cr3, code, stack, arg, current, tlb, shmVars>>

\* swtch and goto_user_mode load the new directory, which empties the TLB.
Switch(p) ==
    /\ state[p] = "live" /\ p # current
    /\ current' = p /\ tlb' = {}
    /\ UNCHANGED <<content, used, state, cr3, code, stack, arg, shmVars>>

\* The struct is zeroed.  waitpid frees a zombie child of current(), reap_zombies one that is not current().
FreeTask(p) ==
    LET m == free_physical_page(free_physical_page(
                page_directory_destroy(Mem, cr3[p]), stack[p]), code[p])
    IN /\ state[p] = "zombie" /\ p # current
       /\ used' = m.used /\ content' = m.content
       /\ state' = [state EXCEPT ![p] = "none"]
       /\ cr3' = [cr3 EXCEPT ![p] = 0] /\ arg' = [arg EXCEPT ![p] = 0]
       /\ code' = [code EXCEPT ![p] = <<0, 0>>] /\ stack' = [stack EXCEPT ![p] = <<0, 0>>]
       /\ held' = [k \in DOMAIN held |-> IF k[1] = p THEN 0 ELSE held[k]]
       /\ UNCHANGED <<current, tlb, shp_table, virtual_map, misused>>

\* Idle only starts processes.
MayShare == state[current] = "live" /\ current # Idle

\* The current process uses page v: the processor may keep the translation.  Without
\* one the page fault handler calls exit(0), see Exit.
Access(v) ==
    LET e == Walk(Mem, cr3[current], v) IN
    /\ MayShare
    /\ e # Absent /\ e.us
    /\ tlb' = tlb \cup {<<v, e>>}
    /\ UNCHANGED <<content, used, procVars, shmVars>>

----------------------------------------------------------------------------
SharedPage(i) == USER_STACK_END + i

\* allocate_memory: the first virtual page that is not taken.
FreeIndex == {i \in 0..(PAGE_MAX - 1) : ~ virtual_map[i]}

allocate_memory == CHOOSE i \in FreeIndex : \A j \in FreeIndex : i <= j

MapShared(m, s) ==
    map_zone(m, current, cr3[current], SharedPage(s.index) * PAGE_SIZE, SharedPage(s.index) * PAGE_SIZE + PAGE_SIZE - 1,
             s.frame * PAGE_SIZE, UserFlags)

\* The history is kept until somebody releases what he does not hold.
Reference(k) == held' = IF misused THEN held ELSE [held EXCEPT ![<<current, k>>] = @ + 1]

\* The key is new and there is a virtual page for it.
ShmCreate(k) ==
    LET s == [frame |-> FirstFree(Mem, 1, Shared), index |-> allocate_memory, refcount |-> 1]
        m == MapShared(alloc_physical_page(Mem, 1, Shared), s)
    IN /\ MayShare /\ shp_table[k] = None /\ FreeIndex # {} /\ Fits(m)
       /\ virtual_map' = [virtual_map EXCEPT ![s.index] = TRUE]
       /\ content' = m.content /\ used' = m.used
       /\ shp_table' = [shp_table EXCEPT ![k] = s]
       /\ Reference(k)
       /\ UNCHANGED <<procVars, tlb, misused>>

\* No virtual page is left: the frame, already allocated, is not given back.
ShmCreateFails(k) ==
    LET m == alloc_physical_page(Mem, 1, Shared) IN
    /\ MayShare /\ shp_table[k] = None /\ FreeIndex = {} /\ Fits(m)
    /\ Cardinality(used \ Owned) < MaxLeak
    /\ used' = m.used
    /\ UNCHANGED <<content, procVars, tlb, shmVars>>

\* Mutant: the page is mapped without a reference.
AcquireNoReference(k) ==
    LET m == MapShared(Mem, shp_table[k]) IN
    /\ MayShare /\ shp_table[k] # None /\ Fits(m)
    /\ content' = m.content /\ used' = m.used
    /\ Reference(k)
    /\ held[<<current, k>>] < MaxRef
    /\ UNCHANGED <<procVars, tlb, shp_table, virtual_map, misused>>

ShmAcquire(k) ==
    LET s == shp_table[k]
        m == MapShared(Mem, s)
    IN /\ MayShare /\ s # None /\ s.refcount < MaxRef /\ Fits(m)
       /\ shp_table' = [shp_table EXCEPT ![k].refcount = @ + 1]
       /\ content' = m.content /\ used' = m.used
       /\ Reference(k)
       /\ UNCHANGED <<procVars, tlb, virtual_map, misused>>

\* Whoever calls it: the page is unmapped in his directory, and the processor keeps
\* the translations `cached'.  The last reference frees everything.
Release(k, last, cached) ==
    LET s  == shp_table[k]
        va == SharedPage(s.index) * PAGE_SIZE
        m1 == unmap_zone(Mem, cr3[current], va, va + PAGE_SIZE - 1)
        m  == IF last THEN free_physical_page(m1, <<s.frame, 1>>) ELSE m1
    IN /\ content' = m.content /\ used' = m.used
       /\ tlb' = cached
       /\ shp_table' = [shp_table EXCEPT ![k] = IF last THEN None ELSE [s EXCEPT !.refcount = @ - 1]]
       /\ virtual_map' = IF last THEN [virtual_map EXCEPT ![s.index] = FALSE] ELSE virtual_map
       /\ misused' = (misused \/ held[<<current, k>>] = 0)
       /\ held' = IF misused' THEN [h \in DOMAIN held |-> 0]
                             ELSE [held EXCEPT ![<<current, k>>] = @ - 1]
       /\ UNCHANGED procVars

\* Mutant: CR3 is not loaded again.
ReleaseNoReload(k) ==
    MayShare /\ shp_table[k] # None /\ Release(k, shp_table[k].refcount = 1, tlb)

\* CR3 is loaded again, which empties the TLB.
ShmRelease(k) ==
    /\ MayShare /\ shp_table[k] # None
    /\ Release(k, shp_table[k].refcount = 1, {})

----------------------------------------------------------------------------
\* Idle has been started; nothing is shared.
Init ==
    \E size \in CodeSize, ssize \in StackSize :
        LET new == NewSpace([content |-> [f \in Managed |-> Other], used |-> {}], Idle, size, ssize) IN
        /\ Fits(new.mem)
        /\ content = new.mem.content /\ used = new.mem.used
        /\ state = [p \in Proc |-> IF p = Idle THEN "live" ELSE "none"]
        /\ cr3 = [p \in Proc |-> IF p = Idle THEN new.dir ELSE 0]
        /\ code = [p \in Proc |-> IF p = Idle THEN new.code ELSE <<0, 0>>]
        /\ stack = [p \in Proc |-> IF p = Idle THEN new.stack ELSE <<0, 0>>]
        /\ arg = [p \in Proc |-> IF p = Idle THEN new.arg ELSE 0]
        /\ current = Idle /\ tlb = {}
        /\ shp_table = [k \in Key |-> None]
        /\ virtual_map = [i \in 0..(PAGE_MAX - 1) |-> FALSE]
        /\ held = [k \in Proc \X Key |-> 0] /\ misused = FALSE

Next ==
    \/ \E p \in Proc, size \in CodeSize, ssize \in StackSize : Start(p, size, ssize)
    \/ Exit
    \/ \E p \in Proc : Kill(p) \/ Switch(p) \/ FreeTask(p)
    \/ \E i \in 0..(PAGE_MAX - 1) : Access(SharedPage(i))
    \/ \E k \in Key : ShmCreate(k) \/ ShmCreateFails(k) \/ ShmAcquire(k) \/ ShmRelease(k)

Spec == Init /\ [][Next]_vars

----------------------------------------------------------------------------
\* Types.
MemTypeOK ==
    /\ DOMAIN content = Managed
    /\ used \subseteq Managed
    /\ state \in [Proc -> {"none", "live", "zombie"}] /\ current \in Proc
    /\ \A p \in Allocated : cr3[p] \in Managed /\ Block(code[p]) \subseteq Managed /\ Block(stack[p]) \subseteq Managed
    /\ \A k \in Key : shp_table[k] # None => shp_table[k].refcount \in Nat \ {0}
    /\ virtual_map \in [0..(PAGE_MAX - 1) -> BOOLEAN]

\* The frames that start_task, map_page and shm_create took have one owner each: a
\* directory, a table, code, a stack or a shared page, of one process or key, and
\* none of them has been given back (no double use, no use after free).
FramesOwnedOnce ==
    /\ Owned \subseteq used
    /\ \A p \in Allocated :
        /\ Cardinality(FramesOf(p)) = 1 + Cardinality(Tables(p)) + code[p][2] + stack[p][2]
        /\ \A q \in Allocated \ {p} : FramesOf(p) \cap FramesOf(q) = {}
        /\ \A k \in Registered : shp_table[k].frame \notin FramesOf(p)
    /\ \A k, l \in Registered : k # l => shp_table[k].frame # shp_table[l].frame

\* Whatever order processes start, share and die in, every frame finds its way back:
\* the only thing that loses one is shm_create when no virtual page is left.
LeakOnlyWhenFull ==
    [][(used \ Owned)' # used \ Owned => FreeIndex = {} /\ Cardinality(used') = Cardinality(used) + 1]_vars

\* virtual_map says which virtual pages the registered keys have, one page each.
SharedPagesDistinct ==
    \A i \in 0..(PAGE_MAX - 1) :
        Cardinality({k \in Registered : shp_table[k].index = i}) = IF virtual_map[i] THEN 1 ELSE 0

\* Frames and virtual pages are shared out exactly between processes and keys.
FramesConsistent == MemTypeOK /\ FramesOwnedOnce /\ SharedPagesDistinct

\* The one page that map_zone maps past the frames of the stack, because it maps the
\* page of USER_STACK_END too.
PastStack(p) == stack[p][1] + stack[p][2]

\* What is_user_addr lets waitpid write to, and what a program can reach at all, is
\* memory of that process or a shared page it holds: as long as nobody released a
\* page he did not hold, and but for the page above the stack.
UserAddressesOwned ==
    \A p \in Allocated, v \in 0..(PD_ENTRIES * PT_ENTRIES - 1) :
        is_user_addr(Mem, cr3[p], v) =>
            LET f == Walk(Mem, cr3[p], v).frame IN
            \/ f \in Block(code[p]) /\ v >= USER_START
            \/ f \in Block(stack[p])
            \/ v = USER_STACK_END /\ f = PastStack(p)
            \/ misused
            \/ \E k \in Registered : /\ SharedPage(shp_table[k].index) = v
                                     /\ shp_table[k].frame = f
                                     /\ held[<<p, k>>] > 0

\* A shared page stays as long as a process that created or acquired it has not
\* released it, if nobody releases what he does not hold: the references of dead
\* processes keep a page, they never free one.
HeldPagesStay ==
    ~ misused => \A p \in Allocated, k \in Key :
        held[<<p, k>>] > 0 => k \in Registered /\ shp_table[k].refcount >= held[<<p, k>>]

\* The processor never uses a translation that the tables no longer hold: shm_release
\* reloads CR3 after it unmapped, and nothing else changes a page that is mapped, but
\* for the page above the stack (replaced by the first shared page).
TlbCoherent ==
    ~ misused => \A t \in tlb :
        t[2] = Walk(Mem, cr3[current], t[1]) \/ t[2].frame = PastStack(current)

\* start_task writes the argument of main where the program looks for it, in the last
\* word below USER_STACK_END: this does not hold for a stack that fills its pages.
ArgumentFound ==
    \A p \in Allocated :
        Walk(Mem, cr3[p], USER_STACK_END - 1).frame * PAGE_SIZE + PAGE_SIZE - 4 = arg[p]

\* A program finds what is its own and what it holds, as long as it lives, and nothing
\* that belongs to others.
AddressSpaces == UserAddressesOwned /\ HeldPagesStay /\ ArgumentFound

=============================================================================
