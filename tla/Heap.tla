-------------------------------- MODULE Heap --------------------------------
(***************************************************************************)
(* The heap of the kernel and of the programs (shared/malloc.c, Doug Lea's *)
(* malloc 2.7.2, with the wrappers mem_alloc and mem_free) over the sbrk   *)
(* of kernel/mem.c and user/lib/sbrk.c.  Sizes and addresses are bytes, as *)
(* in the code; HAVE_MMAP is 0, so no chunk is mapped, and sbrk never goes *)
(* back, so the space is always contiguous.  A chunk is named by its       *)
(* address.  A list of chunks is a sequence: its head is bin->fd (the last *)
(* one put in), its last element bin->bk.  Headers swallowed by a bigger   *)
(* chunk are dropped, so that a read of one is an error of the evaluation. *)
(***************************************************************************)
EXTENDS Integers, FiniteSets, SequencesExt

CONSTANTS HeapStart, HeapEnd,   \* the memory behind sbrk
          Word,                 \* 2^32, the range of size_t (smaller in a run)
          Requests,             \* what malloc and realloc are asked for
          Lengths,              \* what mem_alloc is asked for
          Arrays,               \* <<n, size>> that calloc is asked for
          Batches,              \* sizes that independent_comalloc is asked for at once
          Aligned,              \* <<alignment, bytes>> that memalign is asked for
          Foreign,              \* steps of sbrk that a program takes by itself
          FastSizes,            \* values given to mallopt(M_MXFAST)
          MaxBlocks,            \* blocks in use at once
          MaxCalls              \* calls in a behaviour

ASSUME HeapAssumption ==
    /\ HeapStart \in Nat \ {0} /\ HeapEnd \in Nat /\ HeapStart < HeapEnd
    /\ HeapEnd < Word /\ Word % 4096 = 0

VARIABLES av,       \* malloc_state, the chunk headers and the break
          blocks,   \* memory in the hands of callers: address -> [bytes, length]
          foreign,  \* history: bytes that programs took from sbrk themselves
          calls     \* how many calls were made (bounds the behaviours)

vars == <<av, blocks, foreign, calls>>

-----------------------------------------------------------------------------
(* Sizes and indices. *)

SIZE_SZ == 4
ALIGN == 8
MINSIZE == 16
PageSize == 4096
NBINS == 96
MIN_LARGE_SIZE == 256
UNSORTED == 1
CONSOLIDATION_THRESHOLD == 131072
TRIM_THRESHOLD == 262144

RoundUp(n, unit) == ((n + unit - 1) \div unit) * unit

REQUEST_OUT_OF_RANGE(req) == req >= Word - 2 * MINSIZE

request2size(req) == Max({MINSIZE, RoundUp(req + SIZE_SZ, ALIGN)})

chunk2mem(p) == p + 2 * SIZE_SZ
mem2chunk(mem) == mem - 2 * SIZE_SZ

in_smallbin_range(sz) == sz < MIN_LARGE_SIZE

largebin_index(sz) ==
    LET x == sz \div 256
        m == CHOOSE i \in 0 .. 15 : 2 ^ i <= x /\ x < 2 ^ (i + 1)
    IN  IF x >= 65536 THEN NBINS - 1
        ELSE 32 + 4 * m + ((sz \div (2 ^ (m + 6))) % 4)

bin_index(sz) == IF in_smallbin_range(sz) THEN sz \div 8 ELSE largebin_index(sz)

fastbin_index(sz) == sz \div 8 - 2

-----------------------------------------------------------------------------
(* Lists of chunks: a list that is empty is not in the domain. *)

List(f, i) == IF i \in DOMAIN f THEN f[i] ELSE << >>

SetList(f, i, s) == IF s = << >> THEN Restrict(f, DOMAIN f \ {i}) ELSE (i :> s) @@ f

Bin(m, i) == List(m.bins, i)
SetBin(m, i, s) == [m EXCEPT !.bins = SetList(@, i, s)]

unlink(m, p) ==
    LET i == CHOOSE j \in DOMAIN m.bins : p \in ToSet(m.bins[j])
    IN  SetBin(m, i, Remove(m.bins[i], p))

-----------------------------------------------------------------------------
(* Chunks: size and PREV_INUSE of the header, and the prev_size in front   *)
(* of it, which belongs to the chunk before while that one is in use.      *)

Nobody == 0                        \* prev_size that a caller may have written

chunksize(m, p) == IF p = 0 THEN 0 ELSE m.head[p].size   \* top is 0 before sbrk
prev_inuse(m, p) == m.head[p].pinuse
next_chunk(m, p) == p + m.head[p].size
inuse(m, p) == m.head[next_chunk(m, p)].pinuse
HeaderWord(m, p) == m.head[p].size + IF m.head[p].pinuse THEN 1 ELSE 0

set_head(m, p, size, pinuse) ==
    [m EXCEPT !.head =
        (p :> [size |-> size, pinuse |-> pinuse,
               prev |-> IF p \in DOMAIN @ THEN @[p].prev ELSE Nobody]) @@ @]

set_head_size(m, p, size) == set_head(m, p, size, prev_inuse(m, p))
set_inuse_bit(m, a) == [m EXCEPT !.head[a].pinuse = TRUE]
set_foot(m, p, size) == [m EXCEPT !.head[p + size].prev = size]
Forget(m, p) == [m EXCEPT !.head = Restrict(@, DOMAIN @ \ {p})]

(* A free chunk is handed out whole: its foot is its owner's now. *)
TakeWhole(m, p) ==
    [m EXCEPT !.head[next_chunk(m, p)] = [@ EXCEPT !.pinuse = TRUE, !.prev = Nobody]]

(* A free chunk is cut: the low part is handed out, the rest is the        *)
(* unsorted list.                                                          *)
Split(m, p, nb) ==
    LET rest == p + nb
        size == chunksize(m, p) - nb
        m1 == set_head(set_head(SetBin(m, UNSORTED, <<rest>>), p, nb, TRUE), rest, size, TRUE)
    IN  set_foot(m1, rest, size)

-----------------------------------------------------------------------------
(* The break (kernel/mem.c, user/lib/sbrk.c).                              *)

FAILURE == -1

sbrk(m, diff) ==
    IF diff < 0 \/ m.brk + diff > HeapEnd THEN [m |-> m, brk |-> FAILURE]
    ELSE [m |-> [m EXCEPT !.brk = @ + diff], brk |-> m.brk]

-----------------------------------------------------------------------------
(* malloc_state *)

malloc_state ==
    [max_fast |-> 0, fastchunks |-> FALSE, anychunks |-> FALSE,
     fast |-> << >>, bins |-> << >>, binmap |-> {}, top |-> 0,
     last_remainder |-> 0, sbrked_mem |-> 0, max_total_mem |-> 0,
     head |-> << >>, brk |-> HeapStart]

malloc_init_state(m) == [m EXCEPT !.max_fast = request2size(64)]

(* A chunk leaves its owner or its fast list and joins the free space      *)
(* around it: fREe and malloc_consolidate do this alike.  The size of the  *)
(* free chunk that results is what fREe compares with the threshold.       *)
Release(m, q) ==
    LET back == IF prev_inuse(m, q) THEN 0 ELSE m.head[q].prev
        p == q - back
        next == next_chunk(m, q)
        m1 == IF back = 0 THEN m ELSE Forget(unlink(m, p), q)
        size == back + chunksize(m, q)
        nextsize == chunksize(m, next)
    IN  IF next = m.top
        THEN [m |-> [set_head(Forget(m1, next), p, size + nextsize, TRUE) EXCEPT !.top = p],
              size |-> size + nextsize]
        ELSE LET nextinuse == inuse(m, next)
                 m2 == IF nextinuse THEN set_head(m1, next, nextsize, FALSE)
                       ELSE Forget(unlink(m1, next), next)
                 whole == size + IF nextinuse THEN 0 ELSE nextsize
                 m3 == SetBin(m2, UNSORTED, <<p>> \o Bin(m2, UNSORTED))
             IN  [m |-> set_foot(set_head(m3, p, whole, TRUE), p, whole), size |-> whole]

(* The fast lists up to that of max_fast, each from its head. *)
FastChunks(m) ==
    FlattenSeq([i \in 1 .. fastbin_index(m.max_fast) + 1 |-> List(m.fast, i - 1)])

malloc_consolidate(m) ==
    IF m.max_fast = 0 THEN malloc_init_state(m)
    ELSE FoldLeft(LAMBDA s, p : Release(s, p).m,
                  [m EXCEPT !.fastchunks = FALSE,
                            !.fast = Restrict(@, {i \in DOMAIN @ : i > fastbin_index(m.max_fast)})],
                  FastChunks(m))

sYSTRIm(m, pad) ==
    LET extra == ((chunksize(m, m.top) - pad - MINSIZE + PageSize - 1) \div PageSize - 1) * PageSize
        m1 == sbrk(m, -extra).m
        released == m.brk - m1.brk
    IN  IF extra > 0 /\ m.brk = m.top + chunksize(m, m.top) /\ released # 0
        THEN set_head([m1 EXCEPT !.sbrked_mem = @ - released],
                      m.top, chunksize(m, m.top) - released, TRUE)
        ELSE m

(* After a release that made a big free chunk, the fast lists are merged    *)
(* and a big top is trimmed.                                               *)
Merge(r) ==
    [r EXCEPT !.m = IF r.size >= CONSOLIDATION_THRESHOLD /\ r.m.fastchunks
                    THEN malloc_consolidate(r.m) ELSE r.m]
Trim(r) ==
    IF r.size >= CONSOLIDATION_THRESHOLD /\ chunksize(r.m, r.m.top) >= TRIM_THRESHOLD
    THEN sYSTRIm(r.m, 0) ELSE r.m

fREe(m, mem) ==
    LET p == mem2chunk(mem)
        i == fastbin_index(chunksize(m, p))
    IN  IF chunksize(m, p) <= m.max_fast
        THEN [m EXCEPT !.fastchunks = TRUE, !.anychunks = TRUE,
                       !.fast = SetList(@, i, <<p>> \o List(@, i))]
        ELSE Trim(Merge(Release([m EXCEPT !.anychunks = TRUE], p)))

-----------------------------------------------------------------------------
(* Getting a chunk.  Each way yields the new state and the address for the *)
(* caller, 0 when it has nothing to offer.                                 *)

Nothing(m) == [m |-> m, mem |-> 0]
Give(m, p) == [m |-> m, mem |-> chunk2mem(p)]

(* A chunk of the unsorted list goes to its bin: first in a small bin; in  *)
(* a large one in order of size, where the header word of the chunks that  *)
(* are there counts PREV_INUSE as one byte.                                *)
BinChunk(m, p) ==
    LET size == chunksize(m, p)
        i == bin_index(size)
        b == Bin(m, i)
        at == CASE in_smallbin_range(size) \/ b = << >> -> 1
                [] size < HeaderWord(m, Last(b)) -> Len(b) + 1
                [] OTHER -> Min({j \in DOMAIN b : size + 1 >= HeaderWord(m, b[j])})
    IN  [SetBin(m, i, InsertAt(b, at, p)) EXCEPT !.binmap = @ \cup {i}]

(* The unsorted list is gone through from its oldest chunk: it stops at an *)
(* exact fit, or at the last remainder when it is all there is.            *)
RECURSIVE SortUnsorted(_, _)
SortUnsorted(m, nb) ==
    LET u == Bin(m, UNSORTED)
        victim == Last(u)
        size == chunksize(m, victim)
        m1 == SetBin(m, UNSORTED, Front(u))
    IN  CASE u = << >> -> Nothing(m)
          [] u # << >> /\ in_smallbin_range(nb) /\ Len(u) = 1
                 /\ victim = m.last_remainder /\ size > nb + MINSIZE
             -> Give([Split(m, victim, nb) EXCEPT !.last_remainder = victim + nb], victim)
          [] u # << >> /\ size = nb -> Give(TakeWhole(m1, victim), victim)
          [] OTHER -> SortUnsorted(BinChunk(m1, victim), nb)

(* A chunk found in a bin is taken whole, or cut when enough would remain. *)
Carve(m, victim, nb, small) ==
    LET m1 == unlink(m, victim)
        m2 == Split(m1, victim, nb)
    IN  IF chunksize(m, victim) - nb < MINSIZE THEN Give(TakeWhole(m1, victim), victim)
        ELSE Give(IF small THEN [m2 EXCEPT !.last_remainder = victim + nb] ELSE m2, victim)

(* A large request looks in its own bin, from the smallest chunk. *)
(* The search begins at the big end of the bin. *)
OwnBinFirstFit(m, nb) ==
    LET b == Bin(m, bin_index(nb))
        fit == {j \in DOMAIN b : chunksize(m, b[j]) >= nb}
    IN  IF in_smallbin_range(nb) \/ fit = {} THEN Nothing(m) ELSE Carve(m, b[Min(fit)], nb, FALSE)

OwnBin(m, nb) ==
    LET b == Bin(m, bin_index(nb))
        fit == {j \in DOMAIN b : chunksize(m, b[j]) >= nb}
    IN  IF in_smallbin_range(nb) \/ fit = {} THEN Nothing(m) ELSE Carve(m, b[Max(fit)], nb, FALSE)

(* The bins of bigger chunks, through the bitmap: the bits of the empty    *)
(* bins met on the way are cleared.                                        *)
BiggerBin(m, nb) ==
    LET marked == {i \in m.binmap : i > bin_index(nb)}
        filled == {i \in marked : Bin(m, i) # << >>}
        i == Min(filled)
        m1 == [m EXCEPT !.binmap = @ \ {j \in marked : filled = {} \/ j < i}]
    IN  IF filled = {} THEN Nothing(m1)
        ELSE Carve(m1, Last(Bin(m, i)), nb, in_smallbin_range(nb))

TopServes(m, nb) == chunksize(m, m.top) >= nb + MINSIZE

UseTop(m, nb) ==
    LET size == chunksize(m, m.top)
        rest == m.top + nb
    IN  Give([set_head(set_head(m, m.top, nb, TRUE), rest, size - nb, TRUE) EXCEPT !.top = rest],
             m.top)

(* New space that does not continue the top, or the very first: it starts  *)
(* aligned, a second sbrk takes it to the end of a page, and the old top   *)
(* is closed by two fenceposts and freed.                                  *)
Fence(m, p, size) ==
    LET left == ((size - 3 * SIZE_SZ) \div ALIGN) * ALIGN
        m1 == set_head(m, p, left, TRUE)
        m2 == set_head(set_head(m1, p + left, SIZE_SZ, TRUE), p + left + SIZE_SZ, SIZE_SZ, TRUE)
    IN  IF left >= MINSIZE THEN fREe(m2, chunk2mem(p)) ELSE m2

(* The first chunk starts where sbrk says. *)
NewTopUnaligned(m, brk, size) ==
    LET old_size == chunksize(m, m.top)
        front == 0
        end == brk + size + front + old_size
        asked == front + old_size + RoundUp(end, PageSize) - end
        r == sbrk(m, asked)
        correction == IF r.brk = FAILURE THEN 0 ELSE asked
        snd_brk == IF r.brk = FAILURE THEN m.brk ELSE r.brk
        bytes == snd_brk - (brk + front) + correction
        gap == IF old_size = 0 THEN 0 ELSE brk - (m.top + old_size)
        m1 == set_head([r.m EXCEPT !.top = brk + front,
                                   !.sbrked_mem = @ + gap + correction],
                       brk + front, bytes - (bytes % 4), TRUE)
    IN  IF old_size = 0 THEN m1 ELSE Fence(m1, m.top, old_size)

NewTop(m, brk, size) ==
    LET old_size == chunksize(m, m.top)
        front == RoundUp(brk, ALIGN) - brk
        end == brk + size + front + old_size
        asked == front + old_size + RoundUp(end, PageSize) - end
        r == sbrk(m, asked)
        correction == IF r.brk = FAILURE THEN 0 ELSE asked
        snd_brk == IF r.brk = FAILURE THEN m.brk ELSE r.brk
        bytes == snd_brk - (brk + front) + correction
        gap == IF old_size = 0 THEN 0 ELSE brk - (m.top + old_size)
        m1 == set_head([r.m EXCEPT !.top = brk + front,
                                   !.sbrked_mem = @ + gap + correction],
                       brk + front, bytes - (bytes % 4), TRUE)
    IN  IF old_size = 0 THEN m1 ELSE Fence(m1, m.top, old_size)

Counted(m) == [m EXCEPT !.max_total_mem = Max({@, m.sbrked_mem})]
FromTop(m, nb) == IF TopServes(m, nb) THEN UseTop(m, nb) ELSE Nothing(m)

RECURSIVE mALLOc(_, _)

(* The fast lists are not tried again before the heap gives up. *)
sYSMALLOcNoRetry(m, nb) ==
    LET old_size == chunksize(m, m.top)
        size == RoundUp(nb + MINSIZE - old_size, PageSize)
        r == IF size < Word \div 2 THEN sbrk(m, size) ELSE [m |-> m, brk |-> FAILURE]
        m1 == [r.m EXCEPT !.sbrked_mem = @ + size]
        m2 == IF r.brk = m.top + old_size THEN set_head(m1, m.top, size + old_size, TRUE)
              ELSE NewTop(m1, r.brk, size)
    IN  IF r.brk = FAILURE THEN Nothing(m)
        ELSE FromTop(Counted(m2), nb)

sYSMALLOc(m, nb) ==
    LET old_size == chunksize(m, m.top)
        size == RoundUp(nb + MINSIZE - old_size, PageSize)
        r == IF size < Word \div 2 THEN sbrk(m, size) ELSE [m |-> m, brk |-> FAILURE]
        m1 == [r.m EXCEPT !.sbrked_mem = @ + size]
        m2 == IF r.brk = m.top + old_size THEN set_head(m1, m.top, size + old_size, TRUE)
              ELSE NewTop(m1, r.brk, size)
    IN  CASE m.fastchunks -> mALLOc(malloc_consolidate(m), nb - (ALIGN - 1))
          [] ~m.fastchunks /\ r.brk = FAILURE -> Nothing(m)
          [] OTHER -> FromTop(Counted(m2), nb)

Top(m, nb) == IF TopServes(m, nb) THEN UseTop(m, nb) ELSE sYSMALLOc(m, nb)

(* The ways in the order malloc tries them, each in the state in which the *)
(* one before has left the lists.                                          *)
Otherwise(r, way(_)) == IF r.mem # 0 THEN r ELSE way(r.m)

Search(m, nb) ==
    LET m1 == IF ~in_smallbin_range(nb) /\ m.fastchunks THEN malloc_consolidate(m) ELSE m
        own == Otherwise(SortUnsorted(m1, nb), LAMBDA s : OwnBin(s, nb))
        bigger == Otherwise(own, LAMBDA s : BiggerBin(s, nb))
    IN  Otherwise(bigger, LAMBDA s : Top(s, nb))

mALLOc(m, bytes) ==
    LET nb == request2size(bytes)
        m0 == IF m.max_fast = 0 THEN malloc_consolidate(m) ELSE m
        fast == List(m.fast, fastbin_index(nb))
        small == Bin(m, bin_index(nb))
    IN  CASE REQUEST_OUT_OF_RANGE(bytes) -> Nothing(m)
          [] ~REQUEST_OUT_OF_RANGE(bytes) /\ ~m.anychunks -> Top(m0, nb)
          [] m.anychunks /\ nb <= m.max_fast /\ fast # << >>
             -> Give([m EXCEPT !.fast = SetList(@, fastbin_index(nb), Tail(fast))], Head(fast))
          [] m.anychunks /\ in_smallbin_range(nb) /\ small # << >>
                 /\ ~(nb <= m.max_fast /\ fast # << >>)
             -> Give(TakeWhole(unlink(m, Last(small)), Last(small)), Last(small))
          [] OTHER -> Search(m, nb)

-----------------------------------------------------------------------------
(* Resizing and aligning. *)

(* The chunk p, now of newsize bytes, keeps nb of them. *)
Shrink(m, p, newsize, nb) ==
    LET rest == p + nb
        m1 == set_head(set_head_size(m, p, nb), rest, newsize - nb, TRUE)
    IN  IF newsize - nb < MINSIZE THEN TakeWhole(set_head_size(m, p, newsize), p)
        ELSE fREe(set_inuse_bit(m1, next_chunk(m1, rest)), chunk2mem(rest))

ExpandIntoTop(m, p, nb) ==
    LET newsize == chunksize(m, p) + chunksize(m, m.top)
        m1 == set_head_size(Forget(m, m.top), p, nb)
    IN  [set_head(m1, p + nb, newsize - nb, TRUE) EXCEPT !.top = p + nb]

(* A new chunk for the contents, or one right behind, which is joined on.  *)
MoveTo(new, m, p, nb) ==
    LET newp == mem2chunk(new.mem)
        joined == chunksize(new.m, newp) + chunksize(m, p)
    IN  CASE new.mem = 0 -> Nothing(new.m)
          [] new.mem # 0 /\ newp = next_chunk(m, p)
             -> Give(Shrink(Forget(new.m, newp), p, joined, nb), p)
          [] OTHER -> Give(fREe(new.m, chunk2mem(p)), newp)

Relocate(m, p, nb) == MoveTo(mALLOc(m, nb - (ALIGN - 1)), m, p, nb)

rEALLOc(m, oldmem, bytes) ==
    LET nb == request2size(bytes)
        p == mem2chunk(oldmem)
        oldsize == chunksize(m, p)
        next == next_chunk(m, p)
        newsize == oldsize + chunksize(m, next)
    IN  CASE REQUEST_OUT_OF_RANGE(bytes) -> Nothing(m)
          [] oldsize >= nb -> Give(Shrink(m, p, oldsize, nb), p)
          [] oldsize < nb /\ next = m.top /\ newsize >= nb + MINSIZE
             -> Give(ExpandIntoTop(m, p, nb), p)
          [] OTHER -> IF next # m.top /\ ~inuse(m, next) /\ newsize >= nb
                      THEN Give(Shrink(Forget(unlink(m, next), next), p, newsize, nb), p)
                      ELSE Relocate(m, p, nb)

PowerOfTwo(n) == 2 ^ Min({i \in 4 .. 20 : 2 ^ i >= n})

(* The chunk p gives back what lies before the aligned address newp.       *)
(* The leading space is forgotten. *)
AdvanceLeak(m, p, newp) ==
    LET newsize == chunksize(m, p) - (newp - p)
    IN  set_head_size(set_inuse_bit(set_head(m, newp, newsize, TRUE), newp + newsize), p, newp - p)

Advance(m, p, newp) ==
    LET newsize == chunksize(m, p) - (newp - p)
        m1 == set_inuse_bit(set_head(m, newp, newsize, TRUE), newp + newsize)
    IN  fREe(set_head_size(m1, p, newp - p), chunk2mem(p))

(* What lies behind the nb bytes at newp is given back too. *)
KeepOnly(m, newp, nb) ==
    LET rest == newp + nb
        m1 == set_head_size(set_head(m, rest, chunksize(m, newp) - nb, TRUE), newp, nb)
    IN  IF chunksize(m, newp) > nb + MINSIZE THEN Give(fREe(m1, chunk2mem(rest)), newp)
        ELSE Give(m, newp)

AlignIn(got, al, nb) ==
    LET p == mem2chunk(got.mem)
        spot == mem2chunk(RoundUp(got.mem, al))
        newp == IF spot = p \/ spot - p >= MINSIZE THEN spot ELSE spot + al
    IN  IF got.mem = 0 THEN got
        ELSE KeepOnly(IF newp = p THEN got.m ELSE Advance(got.m, p, newp), newp, nb)

mEMALIGn(m, alignment, bytes) ==
    LET al == PowerOfTwo(alignment)
        nb == request2size(bytes)
    IN  CASE alignment <= ALIGN -> mALLOc(m, bytes)
          [] alignment > ALIGN /\ REQUEST_OUT_OF_RANGE(bytes) -> Nothing(m)
          [] OTHER -> AlignIn(mALLOc(m, nb + al + MINSIZE), al, nb)

(* One chunk for several elements of the sizes asked for, cut into theirs: *)
(* the last one takes what is left.  iCALLOc and iCOMALLOc with an array   *)
(* of pointers from the caller.                                            *)
CutUp(got, sizes) ==
    LET p == mem2chunk(got.mem)
        cut(s, bytes) ==
            [m |-> set_head(s.m, s.p, request2size(bytes), TRUE),
             p |-> s.p + request2size(bytes), mems |-> Append(s.mems, chunk2mem(s.p))]
        front == FoldLeft(cut, [m |-> got.m, p |-> p, mems |-> << >>], Front(sizes))
        rest == p + chunksize(got.m, p) - front.p
    IN  IF got.mem = 0 THEN [m |-> got.m, mems |-> << >>]
        ELSE [m |-> set_head(front.m, front.p, rest, TRUE),
              mems |-> Append(front.mems, chunk2mem(front.p))]

iALLOc(m, sizes) ==
    LET contents == FoldLeft(LAMBDA n, bytes : n + request2size(bytes), 0, sizes)
    IN  CutUp(mALLOc(m, contents - (ALIGN - 1)), sizes)

mALLOPt(m, value) ==
    [malloc_consolidate(m) EXCEPT !.max_fast = IF value = 0 THEN 8 ELSE request2size(value)]

mTRIm(m) == sYSTRIm(malloc_consolidate(m), 0)

(* What the caller may use of a block. *)
mUSABLe(m, mem) == chunksize(m, mem2chunk(mem)) - SIZE_SZ

Links(f) == MapThenSumSet(LAMBDA i : Len(f[i]), DOMAIN f)
InLists(f) == UNION {ToSet(f[i]) : i \in DOMAIN f}
Total(m, chunks) == MapThenSumSet(LAMBDA p : chunksize(m, p), chunks)
FastListed(m) == InLists(m.fast)
Binned(m) == InLists(m.bins)

(* mallinfo: all that is free, and what is not. *)
mALLINFo(m) ==
    LET avail == chunksize(m, m.top) + Total(m, FastListed(m)) + Total(m, Binned(m))
    IN  [arena |-> m.sbrked_mem, fordblks |-> avail, uordblks |-> m.sbrked_mem - avail]

-----------------------------------------------------------------------------
(* The calls. *)

Call == calls < MaxCalls /\ calls' = calls + 1 /\ UNCHANGED foreign
Room == Cardinality(DOMAIN blocks) < MaxBlocks

(* The caller owns one block more, if there is one. *)
Hand(r, bytes, length) ==
    /\ av' = r.m
    /\ blocks' = IF r.mem = 0 THEN blocks
                 ELSE (r.mem :> [bytes |-> bytes, length |-> length]) @@ blocks

Malloc(bytes) == Call /\ Room /\ Hand(mALLOc(av, bytes), bytes, 0)

cALLOc(m, n, size) == mALLOc(m, (n * size) % Word)
Calloc(n, size) == Call /\ Room /\ Hand(cALLOc(av, n, size), (n * size) % Word, 0)

Memalign(alignment, bytes) == Call /\ Room /\ Hand(mEMALIGn(av, alignment, bytes), bytes, 0)

Without(mem) == Restrict(blocks, DOMAIN blocks \ {mem})

Free(mem) ==
    /\ Call /\ blocks[mem].length = 0
    /\ av' = fREe(av, mem)
    /\ blocks' = Without(mem)

Exchange(r, mem, bytes) ==
    /\ av' = r.m
    /\ blocks' = IF r.mem = 0 THEN blocks
                 ELSE (r.mem :> [bytes |-> bytes, length |-> 0]) @@ Without(mem)

Realloc(mem, bytes) ==
    Call /\ blocks[mem].length = 0 /\ Exchange(rEALLOc(av, mem, bytes), mem, bytes)

(* mem_alloc: two guard words before and after, the whole length rounded to *)
(* words; a length that wraps around is refused.                            *)
Guarded(length) == (((((length + SIZE_SZ - 1) % Word) \div SIZE_SZ) + 4) * SIZE_SZ) % Word

MemAlloc(length) ==
    /\ Call /\ Room
    /\ IF length = 0 \/ Guarded(length) <= length THEN UNCHANGED <<av, blocks>>
       ELSE Hand(mALLOc(av, Guarded(length)), Guarded(length), length)

MemFree(mem) ==
    /\ Call /\ blocks[mem].length # 0
    /\ av' = fREe(av, mem)
    /\ blocks' = Without(mem)

MallocTrim == Call /\ av' = mTRIm(av) /\ UNCHANGED blocks

Mallopt(value) == Call /\ av' = mALLOPt(av, value) /\ UNCHANGED blocks

(* A program moves the break itself: the heap finds a gap later. *)
ForeignSbrk(bytes) ==
    /\ calls < MaxCalls /\ foreign = 0
    /\ av' = sbrk(av, bytes).m
    /\ foreign' = av'.brk - av.brk
    /\ calls' = calls + 1 /\ UNCHANGED blocks

Init == av = malloc_state /\ blocks = << >> /\ foreign = 0 /\ calls = 0

(* Several blocks in one call.  A batch is more than the fast lists hold:   *)
(* the code takes the chunk before its first element to be in use, which    *)
(* need not be so for a chunk that comes from a fast list.                  *)
HandAll(r, sizes) ==
    /\ av' = r.m
    /\ blocks' = [mem \in ToSet(r.mems) |->
                     [bytes |-> sizes[CHOOSE i \in DOMAIN sizes : r.mems[i] = mem],
                      length |-> 0]] @@ blocks

IndependentAlloc(sizes) ==
    /\ Call /\ Cardinality(DOMAIN blocks) + Len(sizes) <= MaxBlocks
    /\ HandAll(iALLOc(av, sizes), sizes)

Next ==
    \/ \E bytes \in Requests : Malloc(bytes)
    \/ \E sizes \in Batches : IndependentAlloc(sizes)
    \/ \E array \in Arrays : Calloc(array[1], array[2])
    \/ \E length \in Lengths : MemAlloc(length)
    \/ \E ask \in Aligned : Memalign(ask[1], ask[2])
    \/ \E mem \in DOMAIN blocks : Free(mem) \/ MemFree(mem)
    \/ \E mem \in DOMAIN blocks, bytes \in Requests : Realloc(mem, bytes)
    \/ \E value \in FastSizes : Mallopt(value)
    \/ \E bytes \in Foreign : ForeignSbrk(bytes)
    \/ MallocTrim

Spec == Init /\ [][Next]_vars

-----------------------------------------------------------------------------
(* What must hold. *)

Chunks == DOMAIN av.head
Owned == {mem2chunk(mem) : mem \in DOMAIN blocks}
Fences == {p \in Chunks : av.head[p].size < MINSIZE}    \* and what is left of an old top
Real == Chunks \ Fences                \* chunks that span memory of their own

HeapTypeOK ==
    /\ av.brk \in HeapStart .. HeapEnd
    /\ \A p \in Chunks : /\ av.head[p].size \in 1 .. HeapEnd - HeapStart
                         /\ av.head[p].pinuse \in BOOLEAN
    /\ FastListed(av) \cup Binned(av) \cup Owned \subseteq Chunks
    /\ av.binmap \subseteq 2 .. NBINS - 1 /\ DOMAIN av.bins \subseteq 1 .. NBINS - 1
    /\ av.top \in Chunks \cup {0} /\ calls \in 0 .. MaxCalls

do_check_free_chunk(p) ==
    LET next == next_chunk(av, p)
    IN  /\ ~inuse(av, p) /\ av.head[p].size % ALIGN = 0 /\ chunk2mem(p) % ALIGN = 0
        /\ av.head[next].prev = av.head[p].size
        /\ prev_inuse(av, p)
        /\ next = av.top \/ inuse(av, next)

do_check_inuse_chunk(p) ==
    LET next == next_chunk(av, p)
        before == p - av.head[p].prev
    IN  /\ inuse(av, p)
        /\ ~prev_inuse(av, p) => /\ before \in Chunks /\ next_chunk(av, before) = p
                                 /\ do_check_free_chunk(before)
        /\ IF next = av.top THEN prev_inuse(av, next) /\ chunksize(av, next) >= MINSIZE
           ELSE inuse(av, next) \/ do_check_free_chunk(next)

(* do_check_malloc_state, the checks that malloc makes of itself when it   *)
(* is compiled with DEBUG: the boundary tags, no two free chunks side by   *)
(* side, every list holds chunks of its own sizes, large bins are sorted,  *)
(* no bin that is filled is missing from the bitmap.                       *)
CheckMallocState ==
    /\ \A i \in DOMAIN av.fast : \A p \in ToSet(av.fast[i]) :
           /\ do_check_inuse_chunk(p) /\ fastbin_index(chunksize(av, p)) = i
           /\ av.fastchunks /\ i <= fastbin_index(av.max_fast)
    /\ \A i \in DOMAIN av.bins : \A j \in DOMAIN av.bins[i] :
           LET b == av.bins[i]
           IN  /\ do_check_free_chunk(b[j])
               /\ i # UNSORTED =>
                    /\ i \in av.binmap /\ bin_index(chunksize(av, b[j])) = i
                    /\ j > 1 => chunksize(av, b[j - 1]) >= chunksize(av, b[j])
    /\ \A p \in Owned : do_check_inuse_chunk(p)
    /\ av.top # 0 => chunksize(av, av.top) >= MINSIZE /\ prev_inuse(av, av.top)
    /\ Total(av, FastListed(av)) + Total(av, Binned(av)) <= av.max_total_mem

(* Memory is neither lost nor given twice by any sequence of calls: every  *)
(* chunk is in exactly one hand (an owner, one fast list, one bin, once,   *)
(* or the top), chunks follow one another without a hole up to a fence or  *)
(* the top, and the top ends below the break.                              *)
EveryChunkOnce ==
    /\ Real = Owned \cup FastListed(av) \cup Binned(av) \cup ({av.top} \ {0})
    /\ Cardinality(Real) = Cardinality(Owned) + Links(av.fast) + Links(av.bins)
                           + Cardinality({av.top} \ {0})
    /\ \A p \in Real \ {av.top} :
           /\ next_chunk(av, p) \in Chunks
           /\ \A q \in Chunks : ~(p < q /\ q < next_chunk(av, p))
    /\ av.top # 0 => next_chunk(av, av.top) <= av.brk

(* What is not in a free list is in the hands of callers, but for the      *)
(* bytes that a foreign sbrk has taken or left unaligned.                  *)
NothingLost ==
    (foreign = 0 /\ av.top # 0) =>
        mALLINFo(av).uordblks = Total(av, Owned) + RoundUp(HeapStart, ALIGN) - HeapStart

(* After any sequence of calls: the boundary tags, lists and the bitmap    *)
(* agree, as the checks of malloc.c:2531-2776 demand, every byte is in one *)
(* hand only, and none is lost.                                            *)
HeapConsistent == HeapTypeOK /\ EveryChunkOnce /\ CheckMallocState /\ NothingLost

(* malloc is best-fit: "the smallest (with ties going to approximately the *)
(* least recently used) chunk that fits is selected" (malloc.c:3608), with *)
(* the fast lists and the last remainder of a small request as the only    *)
(* exceptions; and what it gives is at most MINSIZE too big.               *)
Looked == IF av.fastchunks /\ ~av'.fastchunks THEN malloc_consolidate(av) ELSE av

Served(bytes) ==
    LET nb == request2size(bytes)
        fits == {p \in Binned(Looked) : chunksize(Looked, p) >= nb}
        new == DOMAIN blocks' \ DOMAIN blocks
    IN  \A mem \in new :
            LET p == mem2chunk(mem)
            IN  /\ chunksize(av', p) \in nb .. nb + MINSIZE - 1 /\ inuse(av', p)
                /\ \/ p \in FastListed(av) /\ chunksize(av, p) = nb
                   \/ /\ p \in fits
                      /\ \/ \A q \in fits : chunksize(Looked, p) <= chunksize(Looked, q)
                         \/ in_smallbin_range(nb) /\ p = av.last_remainder
                   \/ p \notin Binned(Looked) /\ fits = {}

HasNew(bytes) ==
    \E mem \in DOMAIN blocks' \ DOMAIN blocks : blocks'[mem] = [bytes |-> bytes, length |-> 0]

BestFit == [][\A bytes \in Requests : (HasNew(bytes) /\ Malloc(bytes)) => Served(bytes)]_vars

(* malloc gives up only when no free chunk is big enough, fast lists       *)
(* included, and sbrk has refused.                                         *)
GivenUp(bytes) ==
    LET nb == request2size(bytes)
    IN  /\ ~av'.fastchunks
        /\ \A p \in Binned(av') : chunksize(av', p) < nb
        /\ av'.brk + nb + MINSIZE + PageSize > HeapEnd

FailsOnlyWhenFull ==
    [][\A bytes \in Requests :
          (blocks' = blocks /\ ~REQUEST_OUT_OF_RANGE(bytes) /\ Malloc(bytes)) => GivenUp(bytes)]_vars

(* The heap keeps the promise of an allocator: what it hands out, down to  *)
(* the last byte a caller may use, is nobody else's, and no call moves or  *)
(* shrinks a block other than the one it is about.                         *)
Promise == INSTANCE Allocator
               WITH Low <- HeapStart, High <- HeapEnd, Alignment <- ALIGN,
                    live <- [mem \in DOMAIN blocks |-> mUSABLe(av, mem)]
AllocatorSpec == Promise!Spec
=============================================================================
