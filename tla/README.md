# TLA+ specifications of the dominOS kernel

dominOS is a small 32-bit x86 kernel: preemptive round-robin scheduling of
user-mode processes with priorities, `waitpid`, sleeping, message queues, address
spaces, shared memory pages, a buddy page allocator, a heap, a keyboard, a console
and a small C library. This directory models its logic in TLA+, checks it with TLC on small instances and proves theorems
about it with TLAPS.

## The system

| Component | State it keeps | Operations | Interacts with |
|---|---|---|---|
| priority queues (`shared/queue.h`) | links inside the elements | `queue_add`, `queue_del`, `queue_out`, `queue_top`, `queue_update` | used by everything below |
| tasks and scheduler (`kernel/task.c`, `prio.c`, `clock.c`) | one `struct task` per process, a list per state, the running task, `total_ticks` | `schedule`, `wait_clock`, `chprio`, the clock interrupt, `set_task_*` | every blocking call ends in `schedule` |
| process life cycle (`start.c`, `exit.c`, `kill.c`, `wait.c`, `pid_allocator.c`) | parent/children links, pid bitmap, global list | `start`, `exit`, `kill`, `waitpid` | allocates and frees tasks, wakes parents, takes tasks off message queues |
| message queues (`msg.c`) | `mqueues[]`, waiting lists, `cpt_rst` | `pcreate`, `psend`, `preceive`, `pdelete`, `preset`, `pcount` | blocks and wakes tasks |
| paging (`paging.c`, parts of `start.c`, `task.c`) | page directories and tables in physical frames, the TLB | `map_zone`, `unmap_zone`, `page_directory_create`/`destroy`, `is_user_addr`, `page_fault_handler` | a page fault calls `exit(0)`; `start_task` and `free_task` build and give back address spaces |
| page allocator (`page_allocator.c`) | free lists per order, threaded through the free pages | `alloc_physical_page`, `free_physical_page` | paging, `start`, shared memory |
| hash table (`hash.c`) | slots, fill level, size | `hash_set`, `hash_get`, `hash_isset`, `hash_del` | programs' names, keys of shared pages |
| shared memory (`shm.c`) | a table from keys to reference-counted pages, a map of virtual pages | `shm_create`, `shm_acquire`, `shm_release` | hash table, paging, page allocator |
| heap (`shared/malloc.c`, `kernel/mem.c`, `user/lib/sbrk.c`) | chunk headers, fast lists, bins, bitmap, top, the break | `malloc`, `free`, `realloc`, `memalign`, `calloc`, `mem_alloc`, `mem_free`, ... | every `mem_alloc` of the kernel; the programs have one of their own |
| keyboard driver (`kbd-linux/`) | prefix, keys that are down, modifier counters, the code typed on the pad, locks | `kbd_process_scancode` | hands characters to `keyboard_data` |
| keyboard buffer (`kbd.c`) | a ring of characters, `nb_write`, the echo flag | `keyboard_data` (interrupt), `cons_read`, `cons_echo` | echoes on the console; `cons_read` sleeps with `wait_clock` |
| console (`cga.c`) | the cells of the screen and the cursor | `cons_write`, control characters, wrapping, scrolling | written by programs and by the echo |
| libc pieces (`shared/string.c`, `doprnt.c`, `printf.c`, `sprintf.c`, `strtol.c`, `strtoul.c`, `div64.c`) | where `strtok` stopped, the direction flag | string, format and number functions | used by the kernel and by programs |
| system call table, boot, GDT/IDT, assembly stubs | processor structures | dispatch | not modelled: see below |
| gdb stub, debugger, serial line, FAT32 structures, user programs | | | not modelled: see below |

What is hard in this code:

* **Interleaving.** The kernel is not preemptible (interrupt gates clear IF), but
  every call of `schedule()` is a point where any other process may run, kill,
  reprioritise or free what the caller looked at. Loops around `schedule()` in
  `waitpid`, `psend` and `preceive` re-read state that has changed; `start()` and
  `waitpid(pid)` keep pointers across it.
* **Lists and states.** A task is linked through one field into the list of its
  state, or of a message queue, or into none while it runs; `__set_task_state`
  guesses from the state whether it has to unlink.
* **Lifetimes.** Structs are freed by the parent, or by `schedule()` when the parent
  is gone; parents are freed while their children live.
* **Order and priority.** Priorities change while tasks are linked; the priority
  field of a zombie holds the time of its death.
* **Limits.** The pid map, the heap, the 32-bit clock, the ring of characters, the
  256 shared pages.
* **Data structures under long sequences of calls.** Chunks of the heap carry their
  state in the headers of their neighbours; blocks of pages are merged by address
  arithmetic; deleted slots of the hash table never go away by themselves; page tables
  of a process point into frames that others own.
* **What one call leaves to the next.** The direction flag after `memmove`, deletions
  that stay in the ring, cached translations.

`PROJECT.json` lists these as hazards, each with its line and its properties.

## Modules

| Module | Models |
|---|---|
| `PrioQueue` | the queues of `queue.h` as operators on sequences: index 1 is `head->next`, the last element is what `queue_top` returns |
| `PrioQueueProofs` | what `queue_add`, `queue_del` and `queue_out` do to any queue; induction and recursion, shared by the other proofs |
| `Tasks` | processes, scheduler, life cycle, clock |
| `TasksProofs` | type correctness of `Tasks`; its lists, running task and pids; parents, children and zombies; the order of the lists, sleepers, and who goes on |
| `MCTasks` | `Tasks` for TLC |
| `Msg` | message queues; extends `Tasks` |
| `MsgProofs` | the safety properties of `Msg`, after what the steps of `Tasks` do to its waiting lists |
| `MCMsg` | `Msg` for TLC |
| `KeyMap` | what `hash.h` promises: a map |
| `Hash`, `MCHash` | the table of `hash.c`, an implementation of `KeyMap` |
| `HashProofs` | the probe sequence, `hash_lookup`, `hash_copy`, the invariant of the table, and the refinement of `KeyMap` |
| `PageFrames` | what callers of the page allocator rely on |
| `Buddy`, `MCBuddy` | the lists of `page_allocator.c`, an implementation of `PageFrames` |
| `BuddyProofs` | no page lost or shared, complete merging, and the refinement of `PageFrames` |
| `Memory`, `MCMemory` | address spaces: `paging.c`, the memory part of `start_task` and `free_task`, `shm.c`, the TLB |
| `MemoryProofs` | what the operators of `Memory` do to an address space, and its properties |
| `Allocator` | what callers of a heap rely on |
| `Heap`, `MCHeap` | `malloc.c` with its wrappers and `sbrk`, an implementation of `Allocator` |
| `Console` | the screen of `cga.c` as operators |
| `Keyboard` | the keyboard driver as operators |
| `Terminal`, `MCTerminal` | keys, driver, ring, readers and screen together |
| `KeyboardProofs` | what a scancode does to the modifiers and the keys that are down |
| `TerminalProofs` | the safety properties of `Terminal`, after what a character does to the screen and the ring, a line to its reader, and a byte to the driver |
| `Strings` | `string.c` as operators on a memory |
| `Format` | `doprnt.c`, `printf.c`, `sprintf.c`, `strtol.c`, `strtoul.c`, `div64.c` as operators |
| `Libc`, `MCLibc` | one action per call of the library, and what each call promises |

`Msg` extends `Tasks`, which uses `PrioQueue`: the two are the kernel's concurrent
core. `Hash`, `Buddy` and `Heap` are sequential components used from system calls that do
not call `schedule()` in between, so each stands alone and is shown to implement what
its users rely on (`KeyMap`, `PageFrames`, `Allocator`). `Memory` composes processes,
page tables, the page allocator and the table of keys, the last two through what
`PageFrames` and `KeyMap` promise. `Terminal` composes `Keyboard` and `Console` with the
ring and the processes that read.

### Tasks

A member of `Task` is the address of a `struct task`; each field is a function on
`Task`, and `alloc` is the set of structs in use. A freed struct can be allocated
again while stale pointers (`parent`, a `child` on a kernel stack) still point to it.
The lists are the sequences `queue[s]` for the states that `task.c` keeps a list for,
and `senders`/`receivers` for the message queues. `global_task_list` is sorted by
pid and only ever searched, so it is the set `global`.

`mode` says who has the CPU: `"cpu"` is the current task, in user mode or back in a
call it was suspended in (`kpc`); `"schedule"` is the inside of `schedule()`, during
which nothing else can happen; `"fault"` is the entry of the page fault handler;
`"msg"` is the inside of `pdelete`/`preset`; `"panic"` is a kernel that is stuck.

One action per system call, up to its call of `schedule()`: `Start`, `StartNoMemory`,
`Exit`, `Kill`, `WaitClock`, `Chprio`, `WaitAny`, `WaitSpecific`; the interrupts `Tick` and
`PageFault`; `schedule()` itself, one task at a time: `WakeUp`, `WakeUpCurrent`
(`try_wakeup_tasks`), `Reap` (`reap_zombies`), then `Keep` or `Switch`; and the rest of
the calls after `schedule()` has returned: `ReturnFromStart`, `ResumeWaitAny`,
`ResumeWaitSpecific`.

Two kinds of undefined behaviour are nondeterministic choices. When the parent's
struct has been freed, `reap_zombies` and `unlock_interrupted_child_parent` read its
`state`: `mem_free` zeroes a block, but `free()` then writes its own bookkeeping over
it, and the word at the offset of `state` (the index of a large-block bin) can read as
any state. So `Reap` may or may not free such a zombie, and an exit may or may not
run into the assertion in `queue_del`, whose `panic()` writes to address 0 and ends in
the page fault handler, that is, in `exit(0)` of whoever is running.
`free_task` of such a zombie also writes to the freed parent's list head; nobody reads
that memory as a list any more, and this write is not modelled.

A process that calls `wait_clock` with a time already reached is linked as a sleeper
and then woken while it is still current: `queue_add` asserts, the page fault of
`panic()` calls `exit(0)`, which asserts again, and so on until the kernel stack
overflows. This is the one way into `"panic"`.

Assumptions on programs: `user/idle` starts processes and never blocks, exits, kills
or sends. The constants `StartBy`, `StartPrio`, `ChPrio` and `WakeTime` bound who calls
`start` and which arguments are passed. Calls that fail without changing any state
are not actions.

### Msg

`mqueues[f]` is the capacity and the sequence of messages of queue `f`, or `Unused`.
`call[t]` holds the locals (`id`, `rst`) of the `psend` or `preceive` that `t` is
suspended in; the message itself is in `msg_val[t]`, as in the code. `Psend` and
`Preceive` are the calls up to their first `schedule()`; `ResumePsend` and
`ResumePreceive` are one turn of their loops after it, including the dereference of a
null queue pointer after `pdelete` (a page fault). `pdelete` and `preset` first count
themselves in `cpt_rst`, then `DropSender` and `DropReceiver` unblock one process each,
and `FreeMqueue` ends them. `TaskStep` is a step of `Tasks`.

### Hash

`table` is the array of slots, `size` is `mask + 1`. A member of `Search` is the state of the
loop of `hash_lookup` (probes made, `index`, `perturb`, `freeslot`); `first_probe`,
`next_probe`, `ends` and `place` are its parts, and `walk` is the loop as a recursive
function. A search that has not ended after `PERTURB_STEPS + size` probes has seen every slot
(`HashProofs!Visits`) and never ends, which the function reports as `Nowhere`. `index` is kept
masked: it is a 32-bit word in the code, and `size` divides `2^32`. A key is a pair of its hash code and a tag, so that
two strings can have the same hash code. `hash_update` either leaves the table alone,
rebuilds it (`hash_copy`), or is refused the memory and leaves it alone
although it should have been resized; `MaxFailures` bounds how often.
`ImplementsMap` is the refinement: the abstract map is what `hash_get` returns for
every key.

### Buddy

Addresses are page numbers; `map[i]` is the list of free blocks of `2^i` pages. `split`
is the loop of `alloc_physical_page` in closed form: the search stops at the least order
that has a block, so the lists below it are empty and each receives one upper half.
`merged_order` is where the loop of `free_physical_page` stops. `used` is not in the
code: it is what the callers remember (`stack_pages`/`nb_stack_pages`, page tables, shared
pages), and each of them frees with the size it asked for. The search for a block of
the top order (over 32 MB) runs past the array when the list is empty; such a
request is modelled only where its list has a block.

### Memory

Physical memory is a set of frames; `content[f]` is what the kernel wrote into a frame it
uses as a directory or a table, so a table that is freed and used again is seen with
what it holds. `Walk` is the translation the processor (and `is_user_addr`) makes. `Start`
is the memory part of `start_task`: directory, code, stack and the argument of `main`;
`Exit`, `Kill`, `Switch` and `FreeTask` are the life of a process as far as its memory is
concerned. `ShmCreate`, `ShmCreateFails` (no virtual page left, which loses a frame),
`ShmAcquire` and `ShmRelease` are the calls of `shm.c`, also by processes that hold no
reference. `Access` makes the processor cache the translation of a shared page in `tlb`,
which is emptied when CR3 is loaded.
`held` and `misused` are histories: who created or acquired a key and has not released
it, and whether anybody released what he did not hold (the code does not check).
The lowest free frames are taken, in a part of memory per process; the properties fail
when a frame is given back while it is used, whoever gets it next. A call for which
there are no frames left is no step (`Fits`: `alloc_block` panics, and the machine stops).

### Heap

`av` is `malloc_state` with the chunk headers and the break. `av.head[p]` is the header of
the chunk at `p`: its size, `PREV_INUSE`, and the `prev_size` that its predecessor left.
Headers swallowed by a bigger chunk are dropped, so a procedure that reads a header that
is no longer one stops the run. The procedures are operators in the order of the code:
`mALLOc` with `SortUnsorted`, `OwnBin`, `BiggerBin`, `Top` and `sYSMALLOc`, then `fREe`,
`malloc_consolidate`, `sYSTRIm`, `rEALLOc`, `mEMALIGn`, `cALLOc`, `iALLOc`, `mALLOPt`. `HAVE_MMAP`
is 0 and `sbrk` never goes back, so the code for mapped chunks and for trimming that
succeeds is unreachable here. `blocks` is what the callers remember; `ForeignSbrk` is a
program that moves the break by itself. Sizes, thresholds and the page are those of the
code; only the range of `size_t` is scaled (`Word`).

### Keyboard, Console and Terminal

`Keyboard` turns a scancode into a new driver state and the characters handed on, with
prefixes, key repeat, the sets of modifiers and their key maps. The maps are those of
`defkeymap.c` for the keys of the run. `Console` turns a character into a new screen.
`Terminal` puts them together: `KeyPress`, `KeyRepeat` and `KeyRelease` put bytes on the
wire, `KeyboardInterrupt` takes one, runs the driver, writes the ring and echoes. `ConsRead`
is the call up to its first `wait_clock`, `Poll` what it does between two sleeps, `Return`
and `Killed` end it. `seen` is what the user knows and the code does not keep: the line on
the screen, the lines and characters not read yet, who reads them, and whether
characters were lost.

### Strings, Format and Libc

`Strings` works on a memory of bytes; reading or writing outside the two areas a call is
given is an error of the evaluation. The string instructions move up or down as the
direction flag says. `Format` works on texts; `Libc` has one action per call (any
contents, any arguments of the run, then the few calls that depend on the
previous one) and states what each promises without a loop.

## Runs

Passing runs:

| Run | Checks | Bounds |
|---|---|---|
| `lifecycle` | types; lists match states (so the assertions of `queue.h` hold); only the current task runs and idle is always available; pids name one process; `waitpid` loses no wake-up; children lists hold live children only and child pointers stay valid; zombies are kept for their parents | 4 structs, pids 0..3, priorities 1 and 2, no sleeping |
| `scheduling` | ready and sleeping lists stay sorted under `chprio`; `schedule()` and `chprio` leave the CPU to a most urgent task; nobody is left asleep past his time | 4 structs, started by idle, a clock of 4 values that wraps, `chprio` to 1 or 2 |
| `progress` | sleepers wake up; a ready task of highest priority gets to run | 3 structs, a clock of 3 values, no `chprio`, no symmetry |
| `msg_blocking` | waiting lists match states and stay sorted under `chprio`, nobody waits without a reason, a sender that continues was served or its queue is gone | 3 processes, 1 queue of capacity 1, `pdelete` |
| `msg_order` | messages arrive in the order they were sent, through stored messages and waiting senders; `pcount` is exact | 2 processes, 1 queue of capacity 2, 2 messages, `preset` and `pdelete` |
| `hash_table` | every search ends, `fill` and `count` are exact, each key is found where it is, the table implements a map | 5 keys that collide in several ways, 2 values, tables of 4 to 16 slots, one refused allocation |
| `page_allocator` | no page is handed out twice or lost, free buddies are merged, callers get what `PageFrames` promises | blocks of 4 pages (`MAP_SIZE` 3), requests of 1, 2 and 3 pages, all three initial blocks |
| `address_spaces` | every frame has one owner and finds its way back, in whatever order processes die; programs reach only what is theirs or what they hold; the TLB never disagrees with the tables; the only leak is the one of a full `shm_create` | idle and 2 processes, 3 keys on 2 virtual pages, pages of 16 bytes, tables of 8 entries, up to 3 references to a page (`MaxRef`), one lost frame (`MaxLeak`) |
| `heap` | the checks that `malloc.c` makes of itself under `DEBUG`; every chunk in one hand only and none lost; best fit; failure only when nothing fits; what callers were promised (`AllocatorSpec`) | 6 calls from the empty heap, 3 calls from two heaps that a program has filled; 4 blocks; requests of 8 and 135000 bytes, and those of the other calls |
| `terminal` | no modifier sticks; the ring holds what was not read; a whole line read is the line that was on the screen; the line stands before the cursor; a line that is there is read by a reader that is not starved | 16 keys, ring of 3, screen of 2 rows of 8, 2 readers, 6 characters; five sessions |
| `libc` | each string function does what it promises; output is in the field that was asked for, whichever way it is put out; numbers are read back; 64-bit division is exact | strings of 4 and 3 bytes over 3 values, longs of 8 bits, all 64-bit divisions scaled to words of 4 bits, 7,410 directives |

The properties by name, each stated in a comment before its definition:

* `lifecycle`: `TypeOK`, `QueueMatchesState`, `OnlyCurrentRuns`, `PidsUnique`, `NoLostChildWakeup`, `ChildrenConsistent`, `ZombiesKept`.
* `scheduling`: `ListsSorted`, `NoOverdueSleeper`, `MostUrgentGoesOn`.
* `progress`: `SleepersWake`, `RoundRobin`.
* `asserts`: `AssertsHold`.
* `msg_blocking`: `WaitersConsistent`, `WaitersHaveAReason`, `ServedOrReset`.
* `msg_order`: `PcountExact`, `ReceiveInOrder`.
* `hash_table`: `TableConsistent`, `LookupEnds`, `ImplementsMap`.
* `page_allocator`: `PagesShared`, `Coalesced`, `ImplementsFrames`.
* `address_spaces`: `FramesConsistent`, `AddressSpaces`, `TlbCoherent`, `LeakOnlyWhenFull`.
* `heap`: `HeapConsistent`, `BestFit`, `FailsOnlyWhenFull`, `AllocatorSpec`.
* `terminal`: `ModifiersMatchKeys`, `NoCharacterLost`, `ReadReturnsLine`, `EchoShowsLine`, `LineIsRead`.
* `libc`: `StringCallsKeepTheirPromise`, `OutputAsAsked`, `NumbersReadBack`, `DivisionExact`.

Three processes besides idle are enough for a parent, its child and a third process
that kills or overtakes one of them, and for a grandchild whose parent is freed; four
structs and four pids run out, so allocation failure and the leak of a pid happen.
Two priorities give every outcome of a comparison. In the scheduling and message runs
only idle starts processes: the tree of processes plays no part there. Task structs
other than idle's are symmetric. In `hash_table` the least size is 4 instead of 8, so
that five keys make the table grow twice; with that size one refused allocation leaves
an empty slot, and two do not: then a search for an absent key never ends (with the
8 slots of the code it takes eight keys and three refusals). `page_allocator` has every order of a block as a request, and
12 pages are enough to bring in, fragment and free all three initial blocks.

In `address_spaces` code and stack take two pages or one of 16 bytes, so that a process has
tables for its code and its stack, and a shared page falls into a table that exists or
into a new one. Three keys for two virtual pages make `shm_create` fail. Three references to
a page are one more than there are processes that share: a process that holds a page
twice, or one that died holding it, meets another that holds it. The stack size
is no exact multiple of the page (see the disagreements).

In `heap` the addresses and sizes are real, so the bins, thresholds and pages are those of
the code. 135000 bytes is above the threshold at which `free` consolidates the fast lists and
three such blocks fill the heap. The second start has two large chunks of one bin, which
best fit must tell apart; the third has 24 bytes left and a block for a fast list, so
that a small request fails unless the fast lists are merged first. Asking `mem_alloc` for
the greatest length wraps around. The batch of `independent_comalloc` is above the fast
sizes (see the disagreements).

In `terminal` a session fixes which keys are used, so that each run of keys stays small:
modifiers, three of them held at once; keys with special codes; one reader with lines of
up to six characters, twice the ring; two readers; echo switched on and off while a
program writes. A screen of 16 cells wraps and scrolls within one line.

In `libc` the alphabet has the terminator, a letter and a byte above 127; a machine word of
two bytes makes `memcpy` and `memset` move words and the rest. `PRINTF_BUFMAX` is 3, so that the
buffer of `printf` fills in the middle of a conversion.

Deadlock is checked except where a behaviour is bounded by a number of calls or keys
(`heap`, `terminal`, `libc`).

One run shows a disagreement (`expect: violation`) and is listed as a finding: in `asserts`,
`wait_clock` with a time already reached fails the assertion of `queue_add`.

Further disagreements between the code and what its comments, its names or C promise,
met while modelling. They are part of the models, and the properties are stated around
them, but they have no run of their own.

Processes and messages:

* `kill`, `pdelete` and `preset` make processes ready without calling `schedule()`, so the
  running process may be less urgent than a ready one until the next tick
  (`task.c:411` states the rule; `PriorityRespected` is that rule).
* `chprio` to the priority a ready task already has puts it behind its equals. With `chprio`
  and three processes two of them can keep the third from running, so round robin
  (`RoundRobin`) is checked without `chprio`.
* A zombie outlives its parent's struct and is then not cleaned up reliably
  (`user/tests/test8/test8.c:18`: "Un nettoyage automatique doit etre fait").
* `waitpid(-1)` takes the first zombie of the children list, which is sorted by the
  priorities the children had when they were started, not the one that died first
  (`primitive.h:139`, `exit.c:29`).
* `exit` frees the pid while the zombie still carries it, so two children of one parent
  can have the same pid and `waitpid(pid)` may find the zombie.
* The zombie list is sorted by `UINT32_MAX` minus the clock stored into an `int`, so its order
  turns around when the sign changes; nobody reads it in order.
* `alloc_pid` compares with `PID_MAX` too late and hands out `PID_MAX + 1`.
* `start()` reads the pid from the child's struct after `schedule()`; a child of idle may
  have been reaped by then.
* A process that waits during `pdelete` finds a null queue pointer when it continues,
  instead of returning a negative value (`primitive.h:67`).
* `cpt_rst` is shared by all queues, so deleting one queue makes calls that wait on another
  return -1 although they were served (`primitive.h:86`).
* A receiver that waits during `preset` waits again instead of returning; `preset` also
  leaves the queue with its old number of messages as capacity.
* The message -1 marks "no message" in `msg_val`, so a waiting sender's -1 is dropped.

Memory:

* The second and third initial block of pages are each other's buddies: when both are
  free they merge to an order the array of lists does not have, `nb_alloc` is overwritten and
  both are lost (`page_allocator.c:12` says how the orders are meant).
* `map_zone` maps the page of the last address too. The stack's last address is the first of
  the page after it, so a program can write the frame after its stack, and the first
  shared page replaces that mapping (`start.c:10`, `start.c:164`).
* When the stack's size is a multiple of the page, `PAGE_SIZE` minus the remainder is a whole
  page, and the argument of `main` is written one page above where the program looks.
* `shm_release` does not ask whether the caller holds a reference; after such a release
  others may keep a page that belongs to somebody else. Processes that die keep their
  references for ever. When no virtual page is left `shm_create` loses a frame.

Heap:

* `independent_calloc` and `independent_comalloc` set `PREV_INUSE` on the chunk they cut up,
  and with a chunk recycled from a fast list the predecessor may be free (`malloc.c:4544`).
* `mallopt(M_MXFAST, 0)` sets `max_fast` to 8, whose fast list has index -1:
  `malloc_consolidate` runs past the array. `calloc` multiplies without looking for a
  wrap-around. No code of the repository calls any of these.

Keyboard and console:

* `cons_read` clears every character it has read from the ring except deletions. After a lap
  a deletion is read again although nobody typed it (`NoCharacterLost` allows it
  under the name "phantom"), and a ring full of deletions makes `cons_read` loop for ever with
  interrupts disabled (`KernelAlive` says where the behaviours stop).
* For a deletion `cons_read` zeroes the place after the deleted character, not the character's
  own, and at the end of the line nothing is terminated: a program that reads up to the
  terminator instead of the length returned sees characters that were deleted.
* A release of a keycode above 88 that was never pressed (a key held while the kernel
  boots) counts as a press, so a modifier can stick. Behaviours start with no key held.
* A reader that stops at its length, is killed or competes with another one leaves the rest
  of its line to the next.
* A character typed with the echo off and deleted with the echo on erases a cell that is
  not part of the line; so do tabs and control characters, which `nb_write` counts as one.

Library:

* `memmove` leaves the direction flag set when it copies from the end, against the calling
  convention; `memcpy` and `memset` clear it themselves.
* `do_div64` divides by `y0 + 1`, which wraps to 0 when the shifted low word of the divisor is all
  ones (0x1FFFFFFFF, for one): the division traps.
* `snprintf` stores the terminator after `size` characters, one byte past the buffer.
* `%-w.ps` pads a string that was cut with one blank too few. A `0` flag wins over `-`.
* `%r` and `%n` print in a radix that `printf` and `sprintf` pass as 0: they would divide by zero, and
  no caller uses them. The example of `%b` in a comment of `doprnt.c` does not print what it says.
* `strtol` does not step over a `+` (and returns 0), `strrchr` does not find the terminator,
  `strstr` finds no empty needle.

### Fairness

`FairSpec` assumes weak fairness of kernel code once entered (`Schedule`, `Resume`,
`PageFault`): the kernel runs with interrupts disabled, so nothing can keep it from
going on. It assumes strong fairness of `Tick`: the timer fires again and again
and is taken whenever user mode runs with interrupts enabled, but a process may leave
user mode by a system call before each tick. No process is assumed to make any
call, ever.

In `Terminal`, `FairSpec` assumes that a byte of the keyboard is taken (weak fairness of
`KeyboardInterrupt`) and that a process asleep in `cons_read` whose ring has a character gets
to run if it is in `Urgent`: if no other process is ever more urgent (weak fairness of `Poll`).
This is what the scheduler gives: the reader sleeps until the next tick, a sleeper is made
ready (`SleepersWake`), and a ready process that nothing is more urgent than gets the CPU
(`RoundRobin`, so without `chprio`). A reader outside `Urgent` may be starved by a more urgent
process that never blocks, and `LineIsRead` promises it nothing; in the run one of the two
readers is such a process, which may stop for ever in the middle of a line. Nobody is assumed to press a key, to return or to be killed.

## Theorems

All theorems hold for every value of the constants that the assumptions named in the
modules allow: any number of processes, pids, priorities, queues, orders of blocks, any
width of the clock. Each invariant below was checked by TLC on a run (or on a smaller
variant of it) before it was proved. The proofs have one lemma per handler, and one step
per conjunct that the handler can disturb; what handlers have in common (unlinking a
process, waking one, blocking) is stated once, as a lemma on lists.

`PrioQueueProofs`: `queue_add`, `queue_del` and `queue_out` on any queue over any set: the
result is a queue, holds exactly one element more or less, keeps sortedness and
freedom from duplicates, and the others stay in order. The argument goes
through the index at which `queue_add` stops (`AddIndex`: it exists because a nonempty
set of naturals has a least element) and through what `InsertAt` and `RemoveAt` do
(by their definitions on indices).

`TasksProofs`: `TypeCorrect`, `Spec => []TypeOK`. `TypeOK` is inductive. The lemmas
`Unlink`, `Link` and `Move` say what the list operations do to all the lists at once.

Then `ListsCorrect` (`Spec => []QueueMatchesState`), `SchedulerCorrect`
(`[]OnlyCurrentRuns`) and `PidsCorrect` (`[]PidsUnique`). None of the three is inductive by
itself: that a list operation finds the task where it expects it depends on the state of
the current task, and that `kill` hits a linked task depends on pids naming live ones.
The inductive invariant `StructInv` is their conjunction with `TypeOK` and four more facts:
exactly the freed structs are in state `STARTUP`; the current task is running whenever it
executes, is running or dead in the fault handler, and is never on the ready list; no
task is its own parent; a task suspended in `waitpid(pid)` has a child, and idle is
never suspended in a blocking call. The argument is in the lemmas `LinkMatch`,
`UnlinkMatch` and `MoveMatch`: each list operation, together with the change of state that
goes with it, keeps the lists matching the states.

Also in `TasksProofs`: `ParentsWoken` (`[]NoLostChildWakeup`), `ChildrenCorrect`
(`[]ChildrenConsistent`) and `ZombiesCorrect` (the action property `ZombiesKept`). The
inductive invariant `FamilyInv` adds to `StructInv` and the first two that a freed struct
carries nothing of a suspended call (otherwise its next owner would start inside a
`waitpid`), and that a process woken in `waitpid`, which looks through its children again,
still has the one it waited for: only it disposes of its zombies while it lives.

And `ListsInOrder` (`[]ListsSorted`), `NobodyOversleeps`
(`[]NoOverdueSleeper`) and `SchedulesMostUrgent` (`MostUrgentGoesOn`). `OrderInv` is
`StructInv` with the first two. The priority of a task changes while it is linked (by
`chprio`, and at its death), so what keeps a list sorted is that the task is found on the
list of its state and taken out first, which is `StructInv`.

`MsgProofs`: `QueuesCorrect` (`[]WaitersConsistent`),
`NoLostMessageWakeup` (`[]WaitersHaveAReason`), `SentOnce` (`[]ServedOrReset`),
`PcountCorrect` (`[]PcountExact`) and `FirstInFirstOut` (`ReceiveInOrder`). The inductive
invariant `MsgInv` is `FamilyInv` with those of the properties that are about states, and:
`SleepersInUser` (no process that sleeps or waits for a child is inside `psend` or
`preceive`, so the other wake-ups never reach one that waits for messages), and
`Resetting` (every call suspended while a `pdelete` or `preset` is under way began before it,
so the ones it wakes see that the counter has changed). The
properties need each other: a sender that returns finds no receiver waiting, because it has
been served, which depends on why the others wait. The first part shows that the steps of
`Tasks` keep all of it, by what each does to the state and the queue of every process
(`kill` and `chprio` reach into the waiting lists); the second has the calls of `msg.c`.

`BuddyProofs`: `PagesCorrect` (`[]PagesShared`), `CoalescingCorrect` (`[]Coalesced`) and
`AllocatorCorrect` (`Spec => ImplementsFrames`), for any number of orders. `PagesShared`
counts pages in a union of intervals and compares the ends of blocks; the inductive
invariant `BuddyInv` says it page by page, for the lists and for what callers hold alike:
blocks are aligned, in managed memory and have no page in common, callers with the same
block are the same, a page is covered exactly if its initial block has been taken, and no
two free blocks are buddies. Alignment is what makes two blocks either nested or apart, so
that the buddy found on a list is the other half of the larger block (`Buddies`, `NextBlock`).
The loops, in closed form in the model, are followed order by order: `SplitTiles` (the
upper halves and the block handed out make up the block that was split) and `MergeTiles`.
Where these need induction (powers of two, `PagesExist` to `PagesMonotonic`, and the two
loops) it is done through the least counterexample, which exists because a nonempty set
of naturals has a least element (`LeastNat`). The merge of the two buddy initial blocks,
a defect of the code, is part of it: from then on `Counted` says nothing, as `PagesShared`.

`MemoryProofs`: `Frames_Consistent` (`[]FramesConsistent`), `OwnMemoryOnly`
(`[](UserAddressesOwned /\ HeldPagesStay)`), `SpacesRight` (`[]AddressSpaces`),
`TlbNeverStale` (`[]TlbCoherent`) and `OnlyFullLeaks` (`LeakOnlyWhenFull`), for any sizes
of pages, tables and memory, any number of processes, keys and references to a page, and any
sizes of programs and stacks that `MemoryLayout` and `ProgramsFit` allow. `SpacesRight` and `TlbNeverStale`
have a hypothesis, `StacksEndInPage`: no stack fills its pages exactly. Without it both fail in
the code: `start_task` writes the argument a page too high, and it maps the last page of the
stack at `USER_STACK_END`, which is also the first shared page. The other three need no
hypothesis. The inductive invariant `MemInv` (checked by TLC first) says: every process that
is alive or a zombie has a directory and tables with one frame each, apart from its code and
stack, and all of that in use (`Spaces`); processes and keys have no frame and no virtual page
in common (`Apart`); every page that a directory maps for user mode is code, stack, the page
above it, or a shared page that the process holds (`Translations`); the TLB has entries of
shared pages only, and they agree with the tables (`Cached`). `Counted` is what `shm_release`
needs: `refcount` is a sum over processes in disguise, so the invariant says that the
references can be numbered by owners, each owning at least as many as it holds
(`Attributed`); a dead process leaves its numbers behind, which is why they only bound.
The first part of the module has what the operators do to one address space: `map_zone` and
`unmap_zone` change the pages of their zone and no other (`MapZone`, by the least page at which
the recursive function would be wrong), take a frame for a table that is missing and nothing
else, and `NewSpace` gives a space that maps code and stack (`NewSpaceCorrect`,
`NewTranslations`, `NewArgument`); it rests on the arithmetic of `\div` and `%` (`DivMod`,
`DivUnique`).

`HashProofs`: `TableCorrect` (`[]TableConsistent`), `EveryLookupEnds` (`[]LookupEnds`) and
`TableIsMap` (`Spec => ImplementsMap`), for any keys and values, any 32-bit hash codes and any
power of two from 4 to 65536 as `HASH_MINSIZE`. They have a hypothesis, `FewFailures`:
`3 * MaxFailures <= HASH_MINSIZE`, where the code has 8 and the run 4. It is needed and exact:
`hash_update` asks for a larger table when two thirds are filled, each refusal lets one more key
in, and with one refusal more than that the least table becomes full, after which a search for an
absent key never ends. The inductive invariant `HashInv` says: the size is `HASH_MINSIZE` doubled
some number of times; `fill` and `count` are exact; no key is in two slots; the path of a search
for each key in the table reaches its slot without an empty one before it (`Linked`, which
`KeysFound` follows from); and `3 * fill < 2 * size + 3 * failures` (`Below`), which leaves an
empty slot. Why a search ends is number theory: once `perturb` is 0 (after 7 shifts of a 32-bit
word, `PerturbGone`), `2^k` steps of `5 i + 1` add `2^k` times an odd number (`Leap`), so `2^k`
steps in a row meet every remainder by `2^k` (`Residues`), and a search sees all slots
(`FullCycle`, `Visits`). The recursive functions of the model are shown to exist before anything
is said of them (`Recursion` of `PrioQueueProofs`: a sequence can be defined by its first element and its steps;
`WalkExists`, `CopyDefined`), and induction is again the argument by the least counterexample.
`LookupResult` and `LookupCorrect` say what `hash_lookup` returns, `CopyCorrect` what `hash_copy`
keeps, `UpdateKeeps` that resizing, refused or not, keeps the contents, and one lemma per call
(`SetPresent`, `SetAbsent`, `Delete`) what it does to the contents and the invariant. The
refinement follows, since `hash_get` depends on the contents alone (`GetSame`).

`KeyboardProofs` and `TerminalProofs`: `ModifiersMatch` (`[]ModifiersMatchKeys`), `CharactersKept`
(`[]NoCharacterLost`), `LinesReturned` (`[]ReadReturnsLine`) and `LineShown`
(`[]EchoShowsLine`), for any ring, any screen whose rows are a multiple of 8 (the tabs
of `cga.c`; the code has 80), any number of readers, any key maps, and any number of keys
held and characters typed. The assumptions are those of the modules: `KeyMapAssumption`
(a key is the same modifier in all maps, which `do_shift` relies on and `defkeymap.c`
obeys) and `TerminalAssumption` (the bytes of a key name that key and no other, and its
release is not sent while the driver does not take it to be down). The second is about the
keyboard, not the driver; what the bytes name is what `kbd_translate` makes of them, and TLC
evaluates the assumption for the real scancodes of the run, Pause and E0 keys among them.

The inductive invariant `IInv` has five parts:

* `DriverOK`: each counter of `k_down` is the number of keys down that are its modifier,
  and `shift_state` has the modifiers whose counter is not 0. `Scancode` shows that every
  handler keeps it, `compute_shiftstate` and the return to the plain map included.
* `WireOK`: the driver knows which keys are held, or the bytes on the wire are those of one
  key and will tell it (`Told`). The property itself says nothing while bytes are on the wire.
* `Agrees`: the ring, from `index_read` on, is what was not read, and else only zeros and
  deletions (`RingOK`); a deletion in the ring was typed (`DeletionsOK`); `nb_write` and the
  screen show the line (`EchoOK`, which follows a deletion back across rows and scrolling:
  `back_up` undoes `placed`).
* `Readable`: what the reader of the first line has in its string, followed by what
  is in the ring, edits to the lines entered and the line on the screen (`Lines`). This is
  what relates `cons_read`, which edits its string, to the echo, which edits the screen,
  though one may lag behind the other by several lines.
* `ReadersOK` (the strings of sleepers are within bounds) and `ReadReturnsLine`.

A call of `cons_read` is a loop, and `LoopOK` is its invariant. `LoopEnds` shows that two laps
of the ring are enough for it to end, or the ring holds deletions only (the outcome `forever`, in
which the kernel hangs): so `MAX_TURNS` is not a bound on the program. `IInv` says that
sequences exist and is proved without being run; its consequences are what the run checks.

Only model-checked: the liveness properties (`SleepersWake`, `RoundRobin`, `LineIsRead`: fairness and
ENABLED are out of the prover's reach); `Heap` and its refinement, whose loops over bins and chunks, and
`Libc`, whose conversions, are RECURSIVE operators, which the prover does not take, and which
compute by induction over data.

## Not modelled

* Boot (`boot/`, `start` code, GDT, IDT, the PIC and the timer's programming): it runs
  once, before the first process, and only sets processor structures up. Its result is the
  initial state of the models (`pgdir`, `clear_screen`, `kbd_init`, idle running).
* The assembly of context switches, interrupt entry and system call entry, and the system
  call table with the user-side wrappers: registers are moved and a constant table is
  indexed. The models rely on what it does: handlers run with interrupts disabled, a switch
  loads CR3, a call reaches its function.
* The gdb stub, the debugger and the serial line: development aids that are not part of a
  running kernel; the stub stops the machine while it talks.
* FAT32: only data structures, no code. User programs: clients of the kernel; the models
  let a program make any call at any time.
* `getpid`, `getprio`, `ps`, `clock_settings`: they only read. The `halt` system call stops the
  machine with interrupts disabled.
* Failure of allocations other than that of a task struct and of a hash table's array: most
  are unchecked in the code and end in a page fault.
* In paging, the contents of code and stack pages; in the heap, the contents of blocks
  (so the copy of `realloc` and the clearing of `calloc`), the variant of `iALLOc` that
  allocates its own array of pointers, the options of `mallopt` other than `M_MXFAST`, and what
  `mem_free` does when the length it is given is not the one that was asked for.
* In the keyboard driver, dead keys, compose, locks, sticky modifiers, Unicode and raw
  modes, the LEDs, Scroll Lock and console switching: no key of `defkeymap.c` reaches them or
  the functions they call are empty. In the console, colours, and
  `console_putbytes_topright`, which has no caller.
* In the library, the conversions of floats (compiled out) and `panic`, which prints and stops.

## Plan

What is left, in this order:

1. Theorems: the blocks of `Heap`, once its loops are written as recursive functions.
2. Composition of `Msg` with message memory taken from a heap that fills up: the `struct msg`
   that is never freed.
