# A verification of Operating_Systems_CS111

The repository holds five assignments: `asgn0` a tail program, `asgn1` a shell,
`asgn2` three variants of the FreeBSD ULE scheduler, `asgn3` three variants of
the FreeBSD page daemon, `asgn4` a FAT file system on FUSE and its formatter.
This directory models the last three, the ones that run concurrently or keep
state over many calls, in TLA+, checks the models with TLC and proves theorems
about them with TLAPS. Every definition is translated from the C source;
`PROJECT.json` names the lines of each ("map"), the hazards of the code and the
properties that would catch them. Several files of the repository are variants
of each other that share most functions: the map names one file for each
definition, and where a model covers more than one variant the text says so.

## Inventory

| part | source | state | operations | hard behaviour |
|---|---|---|---|---|
| run queues | `asgn2/sys/kern/kern_switch.c` (FIFO), `kern_switch_1.c` (sorted by priority) | `rq_status` bits, `rq_queues`, the index a thread keeps | add, choose, choose from an index, remove | bits and lists must agree; a removal relies on an index stored long before |
| thread queue of a processor | `sched_ule.c`, `sched_ule_2.c` (random "splatter") | `struct tdq`: three run queues, two rotating indices, load, transferable, lowpri, IPI flag; the running thread and its flags | switch, wakeup, fork, sleep, exit, bind, priority change, clock, steal, balance | every processor acts on the queue; the lock is dropped inside a switch; cached minimum and counters |
| several processors | the same: `sched_pickcpu`, `tdq_notify`, `sched_balance*`, `tdq_idled`, `tdq_trysteal`, `sched_idletd`, `sched_affinity`, `sched_bind` | the thread queues, `ts_cpu`, cpusets, `tdq_cpu_idle`, two locks | pick a processor, tell it, move, steal, go idle | unlocked reads, store order, lock order, lost wakeup |
| interactivity and priorities | the same, `sched_interact_*`, `sched_priority`, `sched_pctcpu_update` | per-thread history | score, decay, share of a window | integer division, words that wrap |
| page daemon | `asgn3/.../vm_pageout.c` and two variants (log, FIFO + log) | free pages, `vm_pageout_wanted`, `vm_pages_needed`, waiters | wake, wait, scan, report | a flag that is set without the lock; a scan that must get somewhere |
| laundry thread | the same, `vm_pageout_laundry_worker` | target, shortfall, cycles, `vm_laundry_request` | answer, launder, sleep | requests that come while it works |
| out-of-memory votes | the same, `vm_pageout_mightbe_oom` | `vm_pageout_oom_vote`, `vmd_oom`, `vmd_oom_seq` | vote, take back, kill | several daemons, no lock |
| pages | the same, `vm_pageout_scan`, `_launder`, `_clean`, `_cluster`, `_flush` | queue, dirty, mappings, hold and busy of each page | free, launder, activate, write out | locks dropped in the middle; stores through mappings |
| FAT formatter | `asgn4/mk_disk.c` | disk image | write superblock, table, data | block arithmetic |
| FAT file system | `asgn4/fuse_routines.c` | FAT, directory blocks, one shared file offset | mount, getattr, readdir, mkdir, open, read, write | multi-block operations without locks, remount, full directory |
| shell | `asgn1/argshell.c`, `shell.l` | processes, pipes, working directory | run, pipe, redirect, cd | pipe capacity, failed exec |
| mytail | `asgn0/mytail.c` | buffer, two offsets | read, scan back, write | off by one at ends of lines |
| left aside | `asgn1/lex.yy.c` (generated), `asgn4/print_fat.c` (prints), `asgn3/memorystress.c` and scripts (load, copying of files) | | | |

How they interact: the parts of one assignment call each other through the
state above (the scheduler's handlers share a tdq, guarded by its lock except
where noted; the page daemons, the laundry thread and the users of memory share
the page queues and the free-page lock; the file system reads the image the
formatter wrote, and its threads share one descriptor); the assignments do not
touch each other.

What makes each correct, in a sentence. Run queue: the bits say which lists are
empty and a queued thread is on the one list its own fields name. Thread queue:
one thread runs; load, transferable and lowpri agree with the threads; the two
indices stay one queue apart; every queued thread is eventually taken. Several
processors: a thread is at one place, where it may run; no processor sleeps
while its queue holds a thread; two that steal from each other do not block.
Priorities: every history gives a priority of the right class. Page daemon: a
waiter is woken once pages are free and no request is lost. Laundry: a request
is attended to. Votes: each counts once, and a kill is unanimous. Pages: no page
in use is freed, no change is lost, none is forgotten in no queue. File system:
an entry made in the root is found again while the root has room, the example tree
and the data of its file stay whole, a mount gives the example tree.

## Modules

| module | models | how |
|---|---|---|
| `RunQueue` | `struct runq` of either `kern_switch` file | operators from a run queue to the changed one; `Discipline` says which file is built |
| `Tdq`, `MCTdq` | one `struct tdq` with all handlers that change it, and the thread that runs on it | variable `s`, a record with the fields of `struct tdq` and of the threads; helpers have the code's names and map a state to the changed state; one action per handler; `Splatter` says which scheduler file is built |
| `TdqProofs` | | lemmas about `RunQueue`; the two inductive invariants of `Tdq`, and all its safety properties as theorems |
| `UleSmp`, `MCUleSmp` | several processors of `sched_ule.c` | a thread queue is a set; one action per locked section, unlocked reads between them; two store buffers |
| `UleSmpProofs` | | its inductive invariant and the four invariants of the run |
| `UlePrio` | the history and priority of one thread of `sched_ule.c` | the arithmetic as operators on words; one action per handler that calls them |
| `UlePrioProofs` | | its inductive invariant and the three properties of the run |
| `LaundryRequest` | what the laundry thread promises | abstract: takes, launders, rests, sleeps |
| `Laundry` | `vm_pageout_laundry_worker`, beside the page daemons that post requests and vote | its locals in a record; implements `LaundryRequest`; extends `OomVote` |
| `OomVote` | `vm_pageout_mightbe_oom` of any number of domains | one action up to each atomic instruction |
| `LaundryProofs` | | the votes are exact and the kill unanimous; `Laundry` implements `OomVote`, and `LaundryRequest` as far as safety goes; the invariant of the laundry thread |
| `PageDaemon` | `vm_pageout_worker`, `vm_pageout_scan` by counts, `pagedaemon_wait`, `pagedaemon_wakeup`, in all three variants | numbers of pages in each queue, numbers of threads at each step; extends `LaundryRequest` |
| `PageDaemonProofs` | | its inductive invariant and `NoLostWakeup` |
| `PageQueues`, `MCPageQueues` | the scans, the laundry and the pager page by page, original and FIFO variant | one record per page; one action between two lock operations |
| `PageQueuesProofs` | | its inductive invariant, the two invariants and the two action properties of the run |
| `FatLayout` | the layout that `fs.h`, formatter and file system share | block arithmetic and the table that `design.txt` asks for |
| `MkDisk` | `mk_disk.c` | the image as a sequence of words; one action per loop round |
| `DirTree` | nothing in the code: what a user sees | a set of paths; `Mkdir` adds one, `Mount` starts again |
| `FatFs`, `MCFatFs` | `fuse_routines.c` over a formatted disk: `initroot`, `path_to_addr`, `mkdir`, `readdir`, `open`, `write` | headers at byte addresses; callbacks are atomic |
| `FormatMount`, `MCFormatMount` | `mk_disk` and then the file system on its image | composes `MkDisk` and `FatFs`; refines `DirTree` |
| `FormatMountProofs` | | the invariants of the formatter and of the mounted file system, their safety properties, and the refinement of `DirTree` |
| `FatRace`, `MCFatRace` | `f32_getattr` with the part of `path_to_addr` it runs | one action per system call, any number of threads, one file offset |

### Tdq in detail

A handler that runs under the tdq lock is one action, with every call it makes.
`sched_switch` is one action too, except on the two paths that drop the lock:
when the outgoing thread sleeps and the queue is empty the code tries to steal
a thread (`tdq_trysteal`), and when it migrates (`sched_switch_migrate`) the
other processor's lock is taken. There the action ends with `leaving` set to
"steal" or "migrate"; any action of another processor may follow; and
`SwitchFinish` or `SwitchFinishStolen` is the rest of the function. Meanwhile
`pc_curthread` still names the thread that left, so the guard `Here` keeps this
processor's own code out of the gap.

| code | action |
|---|---|
| `ast()` answering `TDF_NEEDRESCHED`, `critical_exit`, `sched_relinquish`, `sched_preempt`, `sched_idletd` | `Ast`, `CriticalExit`, `SchedRelinquish`, `SchedPreempt`, `IdleSwitch` |
| `sched_switch` of a thread that sleeps, `sched_throw`, `sched_switch` of one that migrates | `SwitchSleep`, `SchedThrow`, `SchedMigrate`, then `SwitchFinish`, `SwitchFinishStolen` |
| `sched_wakeup`, `sched_fork` with `sched_add` | `SchedWakeup`, `SchedFork` |
| `tdq_move` to this processor, and from it | `StealByIdle`, `BalanceIn`; `StolenAway` |
| `sched_switch_migrate` on another processor that sends its thread here | `PreemptedElsewhere`, then `MigrateIn`; `YieldIn` |
| `sched_rem` and `sched_add` of a thread queued on another processor | `RequeuedIn` |
| `sched_affinity` | `SchedAffinity` |
| `sched_prio`, `sched_lend_prio`, `sched_unlend_prio` through `sched_thread_priority`; `sched_userret` | `SetPriority`, `SchedUserret` |
| `sched_bind`, `sched_unbind`, `sched_clock` | the same names |

Sleeping threads, exited ones and those of other processors are "off": this
processor cannot tell them apart. One that another processor preempts and sends
here is "inbound" from then on, since it arrives with `SRQ_PREEMPTED` and the
`TDF_SLICEEND` it was preempted with. Which thread comes, when, and at which
priority is free, so the model has every load the rest of the kernel could
give. The draw `arc4random() / 0xffffffff` is a choice from {0, 1}, the values
of that unsigned division. `ts_runq` and `td_rqindex` are cleared when a thread
leaves its queue (the code leaves stale values there which nothing reads), so
that states that differ in dead data are one. The status word has one bit per
queue in both the code and the model; its division into machine words is left
out. Threads in `NoLoad` have `TDF_NOLOAD`: `tdq_load` counts them and
`tdq_sysload`, which `tdq_slice` divides by, does not. Locks are not variables:
they are what makes an action atomic.

### Several processors in detail

`UleSmp` leaves the inside of a thread queue to `Tdq`: a queue is a set from
which the most important thread is chosen. What it adds is who acts on which
queue, with which lock, after having read what. An action is what the code does
under one lock or between two; a handler that goes on without it, or spins for a
second lock, keeps its progress in `h` (`pc`, the operation, the thread and the
other processor), and every other processor may act in between.

| code | actions |
|---|---|
| `sched_wakeup`, `sched_add`, `sched_pickcpu` | `SchedWakeup` (choose), `SchedAdd` (lock, add, first half of `tdq_notify`) |
| `tdq_notify` from its fence on | `NotifyFence`, `NotifyWake` (`cpu_idle_wakeup` or an IPI) |
| `tdq_lock_pair` | `LockOne`, `LockTwo` |
| `sched_switch`, `sched_switch_migrate`, `sched_preempt` | `SchedSwitch`, `Migrate`, `SchedPreempt` |
| a thread sleeps or exits; `tdq_trysteal` | `SchedSleep`; `TrySearch`, `TrySteal` |
| `sched_idletd`, `tdq_idled`, `cpu_idle` with `sched_runnable` | `IdleLoop`, `IdleRest`, `IdleFence`, `IdleRecheck`, `CpuIdle`, `IdleClear`; `IdleSearch`, `IdleLock`, `IdleSteal` |
| `sched_balance`, `sched_balance_group`, `sched_balance_pair` | `SchedBalance`, `BalanceHigh`, `BalanceLow`, `BalancePair` |
| `sched_affinity`, `sched_bind`, `sched_unbind` | `SchedAffinity`, `SchedReadd`, `SchedBind` |

Two words are written by one processor and read without a lock by another in a
protocol that depends on their order: `tdq_cpu_idle` and `tdq_load`. Each may
stay in the writer's store buffer (`lateIdle`, `late`) until the writer's next
fence or until `Drain`. Every other unlocked read sees the present value, or a
later check under the lock catches it. For a thread of priority `PRI_MAX_IDLE`,
which is not more important than the idle thread, `sched_shouldpreempt` answers no
and nothing is sent (see Observations). Time is absent: whether an affinity has
expired, how long the idle thread spins and when the balancer runs are choices.

### Priorities in detail

`UlePrio` follows one thread; a fork continues as the parent or as the child.
Only differences of `ticks` are kept, so that a wrap of the tick counter is in
every state: an action says how many ticks have passed since `ts_ltick`. All
sums of history are taken modulo `Word`. The first comparison of
`sched_pctcpu_update` is unsigned in the C code and the second one signed after
a subtraction, which `Signed` makes explicit.

### The page daemon in detail

`PageDaemon` counts: pages that are free, active, inactive or in the laundry, and
threads that run, are between reading and setting `vm_pageout_wanted`, or wait.
Each step that holds `vm_page_queue_free_mtx` is one action and `MutexFree`
guards it; the flag is read and set outside of it, as in the code. A scan moves
one page in each action. What the users do to a page meanwhile takes one from
`touch`, so that a page may be found referenced, held or busy a bounded number
of times: without the bound a scan may always find every page in use, and
nothing could be promised. The laundry thread is the abstract one, and `Laundry`
is checked to implement it. `Kernel` names the variants of a run; it is a
variable that never changes, so one run checks several.

| code | definition |
|---|---|
| `vm_page_alloc` with `pagedaemon_wakeup` | `Alloc`, `AllocFails`, `WakeupRead`, `WakeupSet` |
| `pagedaemon_wait` | `Wait`, `MustWake` |
| `vm_pageout_worker` | `Top`, `Check`, `Doze`, `TimerEnds` |
| `vm_pageout_scan`: before, with `vm_lowmem` and `uma_reclaim`; inactive loop, between the loops, active loop, after | `ScanBegins` with `CachesDrained`; `InactiveFreed`, `InactiveUsed`; `InactiveDone`, `MayKill`, `ActiveBegins`; `ActiveClock`, `ActiveSkipped`, `ActiveFifo`, `ActivePolled`; `ScanEnds` |
| `vm_pageout_launder` frees a page that is clean | `LaundryFrees` |

`Laundry` has the thread's loop in two halves (`Decide` up to `dolaundry`,
`Sleep` and `Answer` with the queue lock) and `Launder` between. Its locals
include `last_target`, which the code does not initialise (`Unset`), and `since`,
the difference `wakeups - last_launder`. `OomVote` is separate because each page
daemon calls it with no lock held: it has a step for each atomic addition and
for what is written between them.

`PageQueues` has the fields of a page that decide its fate. A scan that does not
get a lock at once puts its marker behind the page, drops the queue lock and
sleeps (`Waits`): `marked` says whose marker still stands right behind the page,
which is how `vm_pageout_page_lock` and `vm_pageout_fallback_object_lock` see
that it has not moved (`Unchanged`). `unsaved` is not in the code: it says that
the page holds a change that is nowhere else. Left open, so that the model
allows more than the code: the order inside a queue, whether a page has been
referenced, activity counts, `object->ref_count`, page indices (any pages of an
object may be neighbours). `valid` is FALSE from the allocation to the end of the
fault: a scan frees such a page without a look at dirty and mappings (`Free` at
"test"). A user gives a page back (`Discard`) after it has unmapped it. The lock of a
page and of its object are taken in one step when both are free.

### The file system in detail

`FatFs` keeps the disk as a function from byte addresses to the 64-byte headers
that start there (name, length, starting block, flag; times are left out). Five
blocks matter: the superblock (0), the root (k+1), `hello` (k+2), `sub_dir`
(k+3), and the first block after them, k+4, which `new_block` hands out. `fat` is
the table in memory and on the disk: the formatter's entries, the three that
`initroot` marks (`Marked`), and what a mkdir past a full `sub_dir` writes over them.
No callback marks a block as used, which has consequences that are in the model:
`new_block` returns the same block each time, and a directory never grows into a
second block.

`mkdir` in a full root follows the table's word, -2, as if it were an address,
so it looks for the end of the directory at -2 + 64, -2 + 128, ...: these odd
addresses (`Overrun`) are part of the disk, and a header written at one of them
also spoils the name of the aligned header after it (`Covered`). The same walk is
in `readdir`, but not in `path_to_addr`, which stops at the end of the block.

An lseek to -2 itself fails and leaves the offset where the table's word was read,
so what the walk takes for the next name is the table from there on. After the
root's word these are the marks of the next blocks, which read as a name. After
`sub_dir`'s word it is `fat[k+4]`, which is 0: the walk ends in the table
(`WalkStops`), and mkdir writes its header and end mark over the entries k+10 to
k+31 (`mkdir_table`, `Overwritten`), which no callback looks at. The call returns 0.

| code | definition |
|---|---|
| `main` at a mount, `initroot` | `Mount`, `Init`; `initroot`, `WriteExample` |
| `path_to_addr` | `path_to_addr`, by `Descend` and `Find` |
| `f32_mkdir` | action `f32_mkdir`: where to start (`ParentSeek`), the walk (`EndOf`, `WalkStops`), what is written (`mkdir_disk`, `mkdir_table`) |
| `f32_readdir` | operator `f32_readdir`: it changes nothing |
| `f32_open`, `f32_write` | actions of the same names; `fh` is `fi->fh` of `hello`, the only file there is |

The kernel in front of FUSE is external: it looks a path up before it asks for a
directory to be made, so `f32_mkdir` has the guards "the parent was found and is
a directory" and "the name was not found". Names differ from those of the example
tree and have 3 to 23 characters: 24 bytes hold a name with its zero, and a name
written at -2 + 64 leaves its third and later characters in the header at 64,
which would read as empty for a shorter one.

`FatRace` looks inside a callback. The threads of `fuse_main` share one
descriptor, so each lseek, read and write is an action that uses and moves the
one offset `pos`. Of the words on the disk it keeps which have been overwritten
by an access time (`stamped`); a name read at the start of a header is that header's
name as long as none of its words are stamped, and anything otherwise.
`getattr` is the callback the kernel makes before every other one; `open` and
`read` search and write an access time in the same pattern.

`MkDisk` writes word by word, as the code does, and lets the file grow at its
end, so that a loop with a wrong bound shows as a table that is shifted, as a
table that runs into the root, or as an image of another length.

`FormatMount` runs it for several sizes, and then mounts the image of
`num_blocks` blocks. `FatFs` starts from `FatTable` and from a layout of constants;
`Handover` says that both are what is on the image, except for the entries that
`initroot` marks and those in `Overwritten`, so that what is checked of `FatFs` is so
of a disk the formatter wrote.

## Properties and runs

Each property stands in its module with a comment that states it. What could break
it is in "hazards".

| run | instance | question | result |
|---|---|---|---|
| `tdq_fifo` | 2 threads, one that may not be stolen and one that is not counted in `tdq_sysload`, priorities of all three classes, FIFO | do the queues, counters, indices and published priority stay consistent under every interleaving? who may join the queue being drained? | nine invariants and `DrainingQueueShrinks` hold (501 664 states) |
| `tdq_splatter` | 3 threads of one batch priority, splatter over sorted queues | is a thread that has to stay here taken in the end, though the others come, go, are stolen, and enter its queue in front of it? | holds (110 336 states) |
| `ule_smp` | 2 processors, 2 threads, one of them of the idle class's last priority, bound and given other cpusets | do the locks, the idle protocol and the moves keep each thread at one place where it may run, and no processor asleep on work? | four invariants hold (2 295 632 states) |
| `ule_prio` | small `hz`, window of 4 ticks, words of 64 values | do all histories stay in the bounds the code divides by, and does each give a priority of the class its score chose? | two invariants and `PriorityOfItsClass` hold (1 033 614 states) |
| `format_mount` | images of 1 to 130 blocks of 512 bytes; up to 3 directories in the root of the one with 16 | is the table the one `design.txt` describes, and what the file system reads? do lookup and readdir each implement `DirTree`? does a mount give the example tree? | holds (1 494 states, each over all paths and the whole table) |
| `fat_full` | up to 7 directories under 5 parents, past the end of the root's block and of `sub_dir`'s, writes, mounts | what survives when directories fill up? | holds (27 888 states) |
| `page_daemon` | original and FIFO variant, 2 threads, 2 pages | is a thread in `VM_WAIT` always known to an awake daemon, and woken in the end? | holds (501 564 states) |
| `laundry` | 2 domains, 2 pages | does the laundry thread implement `LaundryRequest`? are its locals sound, the votes exact and a kill unanimous? | holds (253 440 states) |
| `page_queues` | original and FIFO variant, 2 pages of 2 objects | is a page freed only when nobody has it and nothing is lost? is none forgotten, or written to during its transfer? | holds (1 023 442 states up to symmetry) |
| `page_daemon_log` | the logging variant | the same as `page_daemon` | no, see Findings |
| `page_fifo` | the FIFO variant | is every page that is freed unmapped? | no, see Findings |
| `fat_threads` | 2 threads, 4 entries, 8 headers a block | does getattr write over access times only? | no, see Findings |

Bounds of the scheduler runs. Four queues of three priorities: the smallest ring
in which the insert index, the remove index, an index behind and one ahead are
all different; the priorities used reach a queue of each class and two queues of
the timeshare class. Two threads give every pair of roles (running, queued,
leaving, coming); three are used where the order inside a queue matters, since a
middle element exists from three on. `sched_slice` is two ticks in `tdq_fifo` and
`sched_slice_min` one: a thread alone has two, two counted threads have one each, so
a slice depends on `tdq_sysload` and its end may come with the next tick or the one
after. In `tdq_splatter` it is one tick, since longer slices only add ticks that
change a counter. `SCHED_SLICE_MIN_DIVISOR` is the code's 6, never reached with so
few threads; the proofs cover larger loads. No counter needs a bound in a guard: everything is
bounded by the threads.

Bounds of the other scheduler runs. `ule_smp`: two processors are what every
protocol is between; a third would be a bystander of `tdq_lock_pair`, except that
it may hold a lock longer, which is what an interleaving is. Two threads of
different importance let one preempt the other or not, and one processor have
both; the second has priority `PRI_MAX_IDLE`, the only one for which nothing is sent
to an idle processor. `steal_thresh` is 1 so that a processor with one waiting thread is worth
stealing from (`tdq_idled` reads it as the code's variable; the default is 2, with
the running thread counted). `Choosy` limits binding and affinity changes to one
thread. `ule_prio`: `hz`, the window and the words are small, so that a few ticks
fill a window, decay a history and wrap the word. A tick of statclock adds
half of `SCHED_SLP_RUN_MAX` to the history of running (`tickincr`, hundreds of
times more than in the kernel), so that three fill it; `ticks` moves by one at most
between two of them (`StatTicks`), by more while a thread does not run. `Elapsed` has no time, one tick
short of the window, exactly the window, a time that overflows `ts_slptime` once
shifted, and one tick short of a full wrap of the counter.

Bounds of the file system runs. The sizes of `format_mount` include disks so
small that no block is left after the reserved ones, and one table block of 128
entries, one entry less, and up to two more. The file system is mounted on the
image of 16 blocks: it uses the first six. `MaxMade` is 3 there: with the
example's 4 that is all the root's block takes with an end mark left. In
`fat_full` it is 7, one more than fits in `sub_dir` and three more than the root has
headers for, so both fill and run over; `MaxOverrun` bounds how far the root does. One name is
enough there: a directory made under another never comes to be found, so the
same name can be made again. `MaxLen` allows one write after each mount, and
`Offsets` has the offset where it does the most harm to a handle, 0. In the race
one directory of 4 headers followed by an empty one in a block of 8 has a first,
a last, a header between, and an end, and two threads are the fewest that share an
offset.

Bounds of the page daemon runs. Two pages with a reserve of none, a minimum of
one and a target of two give every relation of the free count to its thresholds;
`v_inactive_target` is then 0, a third of the pages. The active scan still polls
pages when nothing is short, because the shortage is read off the counters before
the pages are counted under the lock, and a thread may allocate in between.
`act_scan_laundry_weight` is 2 (the code's default is 3), so that two pages in the
laundry count as one.
Two threads: one that waits and one that allocates, frees or sets the flag at the
wrong moment. `MaxDeficit` bounds what `vm_pageout_deficit` may be read as: more
than the pages there are changes nothing but the sign of a comparison already
reached. `MaxTouch` is the number of times use gets in the way: once at each place
where it can. `laundry`: two cycles of shortfall are the fewest in which a
request can come in the middle; a background target of one page, a rate of one and a
maximum of one make a background run begin, go on and be given up; `MaxWakeups` caps
a counter of which only zero and its square root are used. Two domains and a
despair after one scan are the smallest quorum; the proof covers the others.
`page_queues`: two pages are needed for a cluster with a page other than the one
that was chosen; two objects are a vnode's and the swap's, which take different
paths.

Refinements. `DirTree` is instantiated twice, with the paths that `path_to_addr`
finds and with those that `readdir` lists. `f32_write`, `f32_open`, formatting and
a mount of an unchanged tree are stutters of it; `MountIsExample` says of each
mount that it gives the example, which the refinement alone would not. The headers
of earlier mounts are still on the disk beyond the end mark: that they stay hidden
until overwritten is what makes the refinement more than a restatement of
`mkdir_disk`. Only directories made in the root are offered in this run; under
other parents the refinement is false (see Observations). `Laundry` implements
`LaundryRequest` with its fairness (`KeepsPromise`): `asleep` is being at "launds",
and `due` a shortfall that has been taken and not yet laundered for. `PageDaemon`
relies on that abstract thread, so its liveness is that of the whole.

Fairness. `tdq_splatter` (`Fairness` of `Tdq`): the stathz clock and an IPI
already sent arrive again and again, but only at moments when interrupts are
enabled, hence strong fairness for `SchedClock` and `SchedPreempt`; a thread with
`TDF_NEEDRESCHED` reaches user mode, a critical section ends, the idle thread
loops and a switch under way completes, hence weak fairness for `Ast`,
`CriticalExit`, `IdleSwitch`, `SwitchFinish`. Nothing is assumed of threads that
sleep, wake, yield, migrate or change priority. `page_daemon`: weak fairness of
the page daemon, a kernel thread whose pauses and sleeps have a timeout, and of
threads on their way to wait; of those that run nothing is assumed, they may never
free a page. The laundry thread has what `LaundryRequest` states and `Laundry` is
checked to give under weak fairness of its own loop alone.

`TimeshareProgress` is checked where it should hold: among threads of one priority in
sorted queues, last in first out, one that must stay here is still taken because
rotation empties the queues. It does not hold when sorted queues are combined with threads of
several priorities of which one is lent a better priority for ever: each time it
is requeued at the index that is being drained.

### Findings

1. `vm_pageout_log.c:1121`: a `log()` call was put between `else` and its
  statement, so that `page_shortage = deficit = 0` is executed on every pass. The
  inactive scan never has anything to free. `design.txt:34` calls the file the
  original with logs. Run `page_daemon_log`: a thread waits in `VM_WAIT`, all
  pages are inactive and clean, and the daemon scans for ever and frees none.
2. `vm_pageout_fifo_log.c:1474`: the active scan frees a page because its `dirty`
  field is 0, without looking whether it is mapped, and without
  `pmap_remove_all`. A comment of the same file (:1220) relies on
  `vm_page_free()` asserting that pages are not mapped. Run `page_fifo`: a page
  is allocated, mapped, and freed by the active scan while mapped.
3. `fuse_routines.c:111`: the comment of line 110 says that getattr alters the access
  time "in place of read", and it does so at an offset that another thread may have
  moved since the lseek to the header. `test.sh` mounts without `-s`, so FUSE
  runs several threads. Run `fat_threads`: one thread is at the header it has found,
  the other one seeks or reads, and the access time is written over something else.

### Observations

Seen while modelling, in the models, and not stated as a run because no document
settles what is right, or because a shallow reading of the code shows it:

* `kern_switch_1.c:381` puts a thread in front of the first one whose
  `td_priority` is less than or equal to its own. A smaller `td_priority` is more
  important, so the head of a queue is its *least* important thread, whereas
  `design.txt:18` speaks of a max priority queue; threads of equal priority enter
  in front of each other, so two of realtime priority can pass a third for ever.
* `sched_ule_2.c:485`: `arc4random() / 0xffffffff` is 0 for all but one of the
  2^32 draws, so the splatter scheduler queues every user thread as if its
  priority were `PRI_MIN_BATCH`; `design.txt:10` says the queue is random.
* A thread of priority `PRI_MAX_IDLE` that is queued on an idle processor from another
  one causes no notification (`sched_ule.c`, `sched_shouldpreempt`: `pri >= cpri`): it
  waits there until the next interrupt. `NoSleepOnWork` (by `HasWork`) is about all others.
* A sleep of 2^22 ticks or more does not fit `ts_slptime` once shifted by
  `SCHED_TICK_SHIFT`; the history then exceeds what the comment at
  `sched_ule.c:1588` says until it has decayed (`wrapped` in `HistoryBounded`).
* A vote is withdrawn at the voter's next hopeless scan, since `vmd_oom_seq`
  restarts at 0 and is below `vm_pageout_oom_seq` then. Domains that despair out of
  phase may never reach a quorum together, and one that is about to withdraw still
  counts for the quorum, which is why `KillUnanimous` allows it.
* The FIFO variant frees and launders pages of the active queue while it holds
  the queue's lock; `asgn3/design.txt:25` says the inactive queue remains
  unpopulated, but `vm_pageout_flush` puts cleaned pages there.
* `fuse_routines.c:376`: `mkdir` takes the block in which the *header* of the
  parent lies for the parent's block, so `mkdir /sub_dir/x` makes `/x`, and the path
  that was asked for is not found (`asgn4/design.txt:44` says "recursively derive
  the path"). A directory made past the root's block is listed by `readdir` and not
  found by lookup.
* `fuse_routines.c:395`: a `mkdir` past a full `sub_dir` writes its header over table
  entries (see above) and returns 0, but makes nothing that is listed or found.
* The length of a file grows by the size of each write, also of one in its middle;
  `f32_write` goes on past the end of `hello`'s block into that of `sub_dir`; the
  `mkdir` that takes the last header of the root's block writes its end mark over
  the first bytes of `hello` (`DataKept` holds until then); `mk_disk 1 0` writes a
  word after the table where no block is.

## Proofs

### The thread queue

`TdqProofs` proves for every number of threads, queues and priorities, both
disciplines and both schedulers, from the assumptions `RunQueueAssumption` and
`TdqAssumption` (the queues cover all priorities, the number of queues divides
256, the classes are ordered):

* `TypeCorrect`: `Spec => []TypeOK`
* `StatusCorrect`: `Spec => []StatusMatchesQueues`
* `MembershipCorrect`: `Spec => []QueueMembership`
* `OneRunningCorrect`: `Spec => []OneRunning`
* `WindowCorrect`: `Spec => []RotationWindow`
* `LoadCorrect`: `Spec => []LoadExact`; `TransferableCorrect`: `Spec => []TransferableExact`
* `ClassCorrect`: `Spec => []ClassOfQueue`; `LowpriCorrect`: `Spec => []LowpriCovers`
* `DrainingCorrect`: `Spec => DrainingQueueShrinks`

The argument. None of these is inductive alone: that the bits match the lists
after a removal needs the thread to be on the list its fields name; that it is
there needs that nobody queued it twice, which needs that the running thread is
not queued; typing of `td_rqindex` needs the indices in range. `Inv` is their
conjunction. It is split in two: `Base` (typing, queues in order, the window)
holds also in the middle of a handler, so that each helper has a lemma "from a
`Base` state to a `Base` state" (`RunqAddOK`, `RunqRemOK`, `AddOK`,
`SchedRemOK`, `SetlowpriOK`, ...); `OnlyCurRuns` is broken by the first half of
a switch and restored by `ChoosethreadOK`. There is one lemma per handler, and
`NextInv` puts them together. The module begins with what
they rest on: what an
insertion anywhere in a list and a removal do to its members (`InsertMembers`,
`RemoveMembers`), what they do to the run queue (`AddFacts`, `RemoveFacts`) and
that a search returns a set bit (`MinOfNats`, from the well-foundedness of
strict inclusion on finite sets).

The counters have an invariant of their own, `CountInv`, inductive beside `Inv`
(`CountInvariance`). That `tdq_transferable` is exact needs to know whom it counts:
`Tallied` says that `ts_runq` and `TSF_XFERABLE` belong to the queued threads alone
and that the flag is still the negation of `td_pinned` for those, so that a thread
bound, unbound or exited while it is off a queue changes no count. `Loaded` is
`LoadExact`; a switch keeps it because a running thread that is queued again was
counted before (`LoadStays`), while one that leaves takes its load along before the
lock is dropped. `Covers` is `LowpriCovers`, vacuous in the middle of a switch,
where `pc_curthread` is not running: the second half must not rely on it, and does
not, since `sched_choose` publishes again. `ClassOfQueue` needs `Tallied` too: a
queued thread that becomes more important is taken off first (`MustRequeue`), and one
that becomes less important stays, which is the harmless direction. `SameTally`
does the handlers that move nobody, `AddTally` and `SchedRemTally` those that do;
cardinalities change by one through `FS_AddElement` and `FS_RemoveElement`.

`DrainingQueueShrinks` speaks of a step. The queue at the remove index gains only
threads that were preempted before their slice ended, here or on the processor that
sends them, and threads that are made more important while they are queued; the code
enters those with `SRQ_PREEMPTED` or `SRQ_BORROWING`. For each helper a lemma says
who may come to that queue (`RunqAddJoins`, `RequeuedJoins`, ...): nobody from a
removal, a theft or a choice, the running thread from a requeue when its slice has
not ended, and nobody from an insertion at the insert index (`EntryElsewhere`). The
last of these is where the index arithmetic is (`OneBack`): a draw that lands on the
remove index is put one queue back in an unsigned char, and since 256 is a multiple
of the number of queues, one back is another queue also across the end of the ring.

### Priorities

`UlePrioProofs` proves for every tick rate, window, length of history, width of the
tick counter and range of priorities, from `UlePrioAssumption`:

* `PriorityCorrect`: `Spec => PriorityOfItsClass`, each assignment of a priority gives
  one of the class that the score chose
* `UsageCorrect`: `Spec => []UsageInWindow`
* `HistoryCorrect`: `Spec => []HistoryBounded`

The assumption says that a word holds twice the longest history and twice the
window, which the 32-bit words of the kernel do with room to spare, that statclock
runs at least once in a target window, and that each class has priorities.

The argument. `PrioInv` is the two invariants and the types (`Typed`). The window is
bounded only because the usage is brought up to date before it is scaled.
`PriorityOfItsClass` speaks of a step: `InteractiveInRange` says that a score below
`sched_interact` gives a priority of the interactive half, `BatchInRange` that any
usage, window and nice value give one of the batch half, and each handler that
changes what the score is made of leaves the priority of the new score
(`PriorityOK`). The prover knows quotients by a constant's name only through
`n = d * (n \div d) + (n % d)`, so `Quotient` and `Product` state what a division
and a multiplication keep, and everything else is built on them. `PctcpuOK` has three
cases: a whole window has passed, the window is too long and is scaled back, and a
plain addition; that the difference of two tick counters read as a signed number is
the time between them, although the counter wrapped, is shown first. `UpdateOK`
needs `SCHED_SLP_RUN_MAX` to be a multiple of 5, which its definition
`(hz * 5) << 10` makes it: only then does taking a fifth bring a history that is
not yet worth halving below the limit. `ForkOK` shows that the ratio by which a fork
divides a history is at least one.

### The laundry thread and the votes

`LaundryProofs` proves, for every finite set of domains and every number of scans
to despair, from `OomAssumption`:

* `VotesCounted`: `OomSpec => []VotesExact`
* `KillIsUnanimous`: `OomSpec => KillUnanimous`
* `LaundryVotes`: `Spec => OomSpec`, with `Spec` that of `Laundry`: the whole system
  implements the vote, so `LaundryVotesCounted` and `LaundryKillIsUnanimous` say
  the same of it.

The argument. `VotesExact` alone is not inductive: that a daemon at its atomic
addition is not counted yet needs to know that it has set `vmd_oom`, and that one
at its subtraction has cleared it. `Inv` adds these two (`Steps`). The set `Counted`
then changes by exactly one domain at an addition or subtraction and not at all
elsewhere. At the step to a kill the count before is one less than the number of
domains and the killer is not in it, so by cardinality it is all the others
(`KillStep`).

And for every number of pages, cycles and rates, from `LaundryAssumption`:

* `LocalsHold`: `Spec => []LaundryLocals`
* `PromiseKept`: `Spec => Promise!RequestSafety`, the safety half of `KeepsPromise`:
  the first state is one of `LaundryRequest`, and every step is a step of it or
  leaves its variables alone, under the mapping of `asleep` and `due`.

The argument. That a target is never negative needs that the shortfall and the
background target it is computed from are numbers, that the division by
`shortfall_cycle` has something to divide by, and that a share of a target is a
number of pages: `LaundryInv` types every local (`Turning`), says that `launder`
is above 0 exactly while the thread launders, and that `last_target` has been set
as soon as there is a background target, which the code remembers from one round
to the next. `Paged` (each page in one count) is needed since a launder of more
pages than there are would make a count negative. In `PromiseKept` there is one
lemma for each action of the thread; `Decide` is where the mapping has work to
do, because it takes a request, answers it or lets it stand depending on eight
combinations of the locals.

### The page daemon

`PageDaemonProofs` proves for every number of pages and of threads, any reserve,
minimum and target, and any set of the three kernels, from the module's assumption:

* `WakeupNotLost`: `Spec => []NoLostWakeup`, and `DaemonTyped`: `Spec => []TypeOK`

The argument. `NoLostWakeup` says that `needed` is set while a thread waits and
that the daemon is not asleep then. It is not inductive: `needed` is read by the
daemon with the mutex, kept in mind until it sleeps, and set by waiters who take
the mutex in between. `Known` is what the mutex gives: from the check to the end
of a pause or sleep, `needed` is false, since whoever sets it wakes the daemon in
the same locked section. `Counted` is what makes the counters add up: every page is in one place and
every thread at one step, so that a scan that passes over a page (`left`,
`extra`) never counts below zero, whatever draining the caches gives back
(`FreePagesKeep`). One lemma per action of the daemon, one for
the steps of the threads.

### Pages

`PageQueuesProofs` proves for any set of pages and either kernel:

* `Stranded`: `Spec => []NeverStranded`; `Protection`: `Spec => []WriteProtected`
* `WritesKept`: `Spec => NoLostWrite`; `AloneReclaimed`: `Spec => ReclaimedAlone`
* `PagesTyped`: `Spec => []TypeOK`

The argument. `Inv` has what holds of a page by itself (`Sound`: a change that is
nowhere else is known to `m->dirty` or to a page table, a page in a transfer is
in the laundry, dirty and write protected, an invalid page is unmapped and clean,
which is why a scan may free it without a look), what a thread that holds the lock of
its page and object knows (`KnowsPage`: where the page is, that it is neither
held nor busy, and at the decision that a clean page has no mapping), that the
two threads never hold the lock of one object, and what the laundry thread knows
while it holds no lock. `NoLostWrite` and `ReclaimedAlone` speak of a step: they
follow from `KnowsPage` at the decision, which is why the invariant has to say
what is known there and not only what has been done. `NoLostWrite` needs the
order in the code: the store through a mapping may come after the test for dirty,
and only because `pmap_remove_all` hands over what the page tables know, before
`m->dirty` is read again, is nothing lost.

### Several processors

`UleSmpProofs` proves for any set of processors, any finite set of threads, any
priorities and thresholds:

* `ThreadsInOnePlace`: `Spec => []EachThreadOnce`
* `AffinityHolds`: `Spec => []AffinityKept`
* `NoneSleepsOnWork`: `Spec => []NoSleepOnWork`
* `NoneEmbraces`: `Spec => []NoDeadlyEmbrace`

`SmpInvariant` is the inductive invariant, in four parts of which each uses those
before it, so that each is proved over all actions by itself. `Shape`: types, and what
the step of a processor says of the rest of it. `Places`: a thread is at one
place, counting the hands of a processor that has taken it off one queue and not
yet put it on another (`InHand`), without which a thread in the middle of a
migration could be queued twice; the load is the number of threads that are here.
`Flags`: a processor from the fence to the end of its sleep has published
`tdq_cpu_idle`, and a load that is not visible yet belongs to somebody who is
before the fence of `tdq_notify`; `NoSleepOnWork` follows since the last look of
the idle thread comes after the first and the look of `tdq_notify` after the
second. `HasWork` is as far as this goes: for a thread of priority `PRI_MAX_IDLE` the
code sends nothing. `Locks`: who waits for the second lock has the first, so two with the
same pair would both own the lower. Threads must be finite for the loads to count
them, which `UleSmpAssumption` says; processors need not be.

### The formatter and the file system

`FormatMountProofs` proves for every size of a block and of a disk, any names, and
any bounds on what users make and write, from `LayoutAssumption`,
`FatFsAssumption` and `FormatMountAssumption` (a header divides a block, a block has
room for six of them, the disk has a block after the example tree's):

* `TableIsRight`: `FormatMountSpec => []TableCorrect`
* `SizeIsKept`: `FormatMountSpec => []SizeKept`
* `HandoverHolds`: `FormatMountSpec => []Handover`
* `ExampleIsKept`: `Spec => []ExampleKept`, also when the root and `sub_dir` are full;
  `DataIsKept`: `Spec => []DataKept`
* `MkdirIsListed`: `Spec => MkdirListed`: a mkdir that does not run into the table
  adds a header that is listed, and none hides one that was
* `MountLeavesExample`: `FormatMountSpec => MountIsExample`
* `LookupImplementsDirTree`: `FormatMountSpec => TreeByLookup`;
  `ReaddirImplementsDirTree`: `FormatMountSpec => TreeByReaddir`

The theorems about the file system, all but the first two, assume `InsideBlock`:
users write inside hello's block. The code does not hold them to it (Observations):
a write that runs past the block lands on sub_dir's headers, which are the block
after, and what is proved of the directories would no longer follow. The last two
also assume `RootHasRoom`: directories are made in the root and not more than it has
headers for. A directory made elsewhere is not found again,
and past a full root neither is one made there, so `DirTree` is no description of
those (Observations, and `MkdirListed` for what is still true).

The formatter. `ImageInv` says of each loop over the table how much of the image is
written at each round: entries below the offset have their final value (`Entry`), and
nothing after the table is touched on a disk that has a block after it (`Looping`).
That a loop ends where the next begins (`Before`) is arithmetic over three counts
that may be 0 each, since a disk can have fewer blocks than its own table. What the
file system reads is then what was written, because both compute the number of the
table's blocks by the same rounding (`SameLayout`).

The file system. `DiskInv` is what holds of a mounted disk: the six headers of the
example tree are there, directories are only where they can be, the superblock's
words are there, and hello's data as long as the root has an empty header. The
argument that mkdir spares all this has three steps. An address tells block and slot
(`Place`); the odd addresses after -2 are in block 0 and never at a header
(`OverrunPlace`), and what they cover is not the superblock. A path leads to a header
of the root's or of sub_dir's block, or nowhere (`PathFound`): the recursive function
of `path_to_addr` is shown to exist by taking the least length at which it would not
(`PathSteps`), and every step of it stays in the known blocks, also through a file,
whose block is data. The end of a directory is the first empty header from there
(`EndOfFacts`), so a new header is behind the example's, and its end mark is in the
same block or, for the last header, at the start of the next. That next block is
hello's when the root becomes full: this is why `DataKept` has its condition.
`MkdirIsListed` compares the runs of headers before and after (`ListedOn`). A mkdir
past a full `sub_dir` changes no header, and the entries it writes over are none of
those that the walks read (`TableKept`).

The tree. `Spare` says that in the blocks to which a directory without headers of its
own leads (0 for empty_sub_dir and sub_sub_dir, the first free block for all that
mkdir makes) there is no name that users see, and that the walk through block 0 ends
there; it is kept also by a mkdir past the full root, whose header covers half of a
header of block 0 and whose end mark the other half of the next (`MkdirSpareOver`).
`Settled` says that the root has the example's headers, one for each directory made
since the mount, and then the end mark. `FoundAre` and `ListedAre` compute from the two
what lookup and readdir show: the same tree. `MountSettles` shows that the four headers
and two end marks that a mount writes are enough for both, whatever earlier mounts left
behind, and `MkdirSettles` that a mkdir adds one path to the tree.

### What is only model-checked

Every invariant and every action property of the passing runs is proved. Out of reach
because they are liveness: `TimeshareProgress`, `WaiterWoken`, and the fairness half of
`KeepsPromise`, of which `PromiseKept` proves the other. The properties of the runs that
find a violation have nothing to prove.

## Plan

1. Proofs: what a mount leaves without `InsideBlock`; the tree with directories made
   in sub_dir, which needs an abstract specification that says where such a directory
   is found.
2. Model: several levels of cpu groups, `f32_read` with offsets and lengths, a
   disk without a free block.

## Not modelled, and why

`runq_choose_fuzz` (used by the 4BSD scheduler only). Sysctl handlers, KTR names
and topology printing (no scheduling state). The tree of cpu groups: `UleSmp` has
one group, in which `cpu_search` is its innermost loop. Choosing the process to
kill (`vm_pageout_oom`), swapping processes out and the start of the daemons: they
walk tables of other parts of the kernel. `f32_read`, which changes only an access
time, as `getattr` does. The shell: what can go wrong in it is decided by the
kernel's pipes and processes, of which the repository holds no code. `mytail`: one
sequential scan, which a unit test reaches. `lex.yy.c` is generated; `print_fat.c`
and `memorystress.c` keep no state that outlives a call.
