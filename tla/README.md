# Formal models of the xv6 kernel with a checksummed log

This directory holds TLA+ models of the system in `src/xv6`, the TLC runs that
check them on small instances, and proofs that TLAPS checks for every value of
the constants. `PROJECT.json` is the index: components, runs, mutants, the map
from definitions to source lines, findings, hazards and theorems.

The kernel is xv6 for x86. What is new in this repository is in `log.c`: the
file-system log stores a checksum of a transaction in a block of its own,
recomputes it before the commit, and compares it again at boot.

## 1. Parts and modules

| Part | State | Modules | Interacts with |
|---|---|---|---|
| File-system log (`log.c`) | `log.lh`, `outstanding`, `committing`, `checksum`; header, checksum block and slots on disk | `LogParams`, `GroupCommit`, `LogAdmission`, `Log`, `LogHistory` | buffer cache, sleep/wakeup, every FS system call |
| Buffer cache, sleep locks, IDE queue (`bio.c`, `sleeplock.c`, `ide.c`) | LRU list, `refcnt`, `B_VALID`, `B_DIRTY`, `idequeue` | `BlockStore`, `BufferCache` | log (pinning), interrupts |
| Inodes, blocks, open files (`fs.c`, `file.c`, `mkfs.c`) | `icache`, `ftable`, bitmap, dinodes, blocks | `Inodes` | log, buffer cache |
| Directories, names (`fs.c`, `sysfile.c`) | entries, `nlink`, `ref`, inode locks, current directories | `Directory` | inodes, log |
| Pipes (`pipe.c`) | ring, `nread`, `nwrite`, `readopen`, `writeopen` | `BytePipe`, `Pipe` | file table, sleep/wakeup, `kill` |
| Process table (`proc.c`) | `ptable` with state, parent, pid, killed | `ProcTable` | scheduler, memory |
| Scheduler, spin locks, ticks (`proc.c`, `spinlock.c`, `trap.c`, `sysproc.c`) | `cpu->proc`, `ncli`, `intena`, `chan`, locks, `ticks` | `Scheduler` | everything that blocks |
| Pages, page tables, programs (`kalloc.c`, `vm.c`, `exec.c`) | free list, page tables, `sz` | `Memory` | fork, exit, wait |
| Console input, descriptors, shell, init (`console.c`, `sysfile.c`, `sh.c`, `init.c`) | `input` ring, `ofile`, the shell's processes | `LineInput`, `ShellParser`, `Terminal` | interrupts, pipes |
| User allocator (`umalloc.c`) | free list, break | `Umalloc` | `sbrk` |

A step of a model is what the code does between two points where another
process, processor or interrupt can interfere: a critical section, the stretch
between two acquisitions of a sleep lock, a disk write, a system call. The
modules that contain `sleep` on a lock take "release and sleep" as one step;
`Scheduler` shows that this is what `proc.c` implements.

**Log.** Three modules model `log.c` at three levels.

* `GroupCommit` is what the log promises about admission: a set of active
  calls, the slots they took, and when the group is committed.
* `LogAdmission` has `begin_op`, `log_write` and `end_op` as processes execute
  them: one step per critical section of `log.lock`, `log_write`'s checks
  before the lock as a step of their own, sleepers and `wakeup(&log)`, and
  `kill` of a sleeper. It implements `GroupCommit` with `active` mapped to the
  processes between `begin_op` and `end_op`.
* `Log` has the disk. Home blocks, slots, header and checksum block exist
  twice, on disk and as `bread` returns them; every `bwrite` of `commit` and
  `recover_from_log` is a step, `Crash` may come between any two, `Evict`
  recycles a clean buffer, and with `LossyDisk` a write of a slot may fail
  unnoticed (`ideintr` ignores the status of a write). A block content is a
  model value with a weight, the sum of (j+1)*data[j]; the header's weight is
  computed from its words. The unsigned sums of the code wrap at 2^32, which
  BSIZE = 512 divides, so the wrap does not change the sum modulo BSIZE and is
  left out. `begin_op` tests against `LOGSIZE-2` and `log_write` against
  `log.size-2`; `mkfs` makes the two equal, and so does the model. `Log`
  implements `GroupCommit`, crashes included. The variables `stable`,
  `skipped` and `lost` are history: the state at the last commit point,
  whether a boot refused a non-empty log, whether a write failed.
* `LogHistory` adds the set of all committed states.

**Buffers and disk.** `BufferCache` joins `bio.c`, `sleeplock.c` and `ide.c`:
`bget` with its two scans, the sleep lock of a buffer, the LRU order kept by
`brelse`, `iderw` and `ideintr` over the queue, and the log's pins. A process
may have several buffers: its state is kept per variable that points to one
(`Ptrs`, pairs of which the first is the process), and it is inside a call for
one of them at a time (`Alone`). `Nested` says under which block a caller asks
for which other, as `bmap` and `itrunc` keep the indirect block while they change
the bitmap (`fs.c:389`, `fs.c:422`) and `install_trans`, `recover_from_log` and
`write_log` have two blocks at once (`log.c:86`, `log.c:132`, `log.c:219`); no
caller has more than two. Callers that nest in opposite orders would wait for
each other, and the theorems hold then too: they claim no freedom from deadlock.
A read may fail: `ideintr` then marks the buffer valid without data. `BlockStore`
is the promise: one value per block, one user at a time. The refinement maps the
content of a block to its valid buffer or else to the disk.

**Inodes.** `Inodes` has the inode cache apart from the disk, the bitmap, direct
and indirect blocks word by word, and the open-file table. Its first disks are
what `mkfs` writes. `filewrite` is cut into transactions as in `file.c`, and the
blocks each one logs are counted.

**Names.** `Directory` has the calls that change names. A process has a stack of
operations (`todo`), the calls still to be made in the current system call, so
that each lock acquisition inside `namex`, `create`, `link` or `unlink` is a
step of its own. The cached and the disk inode are one here; `Inodes` separates
them. The transaction brackets are left out: `begin_op` admits both processes.
Only `ilock` panics on an inode without type (`NoType`). `astray` is history: the
processes whose call followed `..` out of a removed directory.

**Pipes.** `BytePipe` is a bounded queue of bytes. `Pipe` is `pipe.c`: the ring
with wrapping counters, one step per critical section of `p->lock` and one for
the `sleep` that ends it, because `kill` does not take `p->lock` and can come
between the test of `killed` and the sleep. `fileclose` finds the last
descriptor of an end. `Word` stands for 2^32; like it, it is a multiple of the
ring size.

**Processes.** `ProcTable` is the life of processes in `proc.c`, one step per
critical section of `ptable.lock`, with `sleep` on a channel of `wait` or
another one, forks that fail, and `kill` of any pid in `KillPids`. RUNNABLE
stands for RUNNING too: which processor runs what is in `Scheduler`. Exit is two
steps, because `exit` closes files, where it may sleep, before it takes
`ptable.lock`. fork's write of `parent` and its change to RUNNABLE are one step:
only the forking process uses the slot between them.

**Processors.** `Scheduler` has threads (processes and scheduler loops) with the
stack of what they still have to execute, spin locks that are spun for, `ncli`
and `intena` per processor, and timer interrupts wherever they are enabled. Its
clients are `sys_sleep`, which an interrupt wakes, and `wait`, which sleeps on
`ptable.lock` itself, with `exit` and `kill`.

**Memory.** In `Memory` every `kalloc` is a step that may find no page; `fork`,
`sbrk` and `exec` have all their error paths. Sizes are unsigned words of
2*KERNBASE. Programs are sequences of segments, among them one that is not page
aligned, one that reaches KERNBASE and one whose end wraps around.

**Terminal.** `Terminal` is a session: keys, the ring of `console.c`, `init`, the
shell and the programs it starts with the descriptors they have. A process is
the sequence of its next system calls. `ShellParser` has `sh.c`'s parser on
tokens and, as reference, how a command is written. `LineInput` is what the
console promises its readers.

**Heap.** `Umalloc` is `malloc`, `free` and `morecore` on addresses in units of
a header, in a program that also calls `sbrk` itself.

The modules named `MC...` give constants small values. `MCProcesses` checks
`Scheduler`, `Memory`, `Umalloc` and `Terminal` in one run, one after the other:
`part` says which of them moves, so that the states add up and do not multiply.
These four are not composed with one another. Operators marked *Mutant* are
broken variants of the definition that follows them; they are part of no
specification and serve to show that each property can fail.

## 2. Runs

| Run | Question | Bounds and why they are enough |
|---|---|---|
| `log_admission` | Do the processes that sleep in `begin_op` implement the admission protocol, without panics and lost wakeups? | three processes, nine slots: calls wait both for space and for a commit |
| `log_disk` | Does the disk hold the last committed state whenever power fails, and does the checksum stop the kernel only after a lost write? | two processes, two home blocks, two contents: groups of two calls, absorption, stale slots, lost writes and repeated crashes all occur; processes are symmetric |
| `buffer_cache` | Is every block one value handed from user to user, whatever is recycled, and is every request served? | two processes with up to two buffers each, two buffers for three blocks, one pin, one failed read: a block is kept while another is asked for, buffers are recycled under waiters, and "no buffers" is reached with one process as well as with two |
| `inodes` | Is every reference, block and inode accounted for, does a file read back, does a write keep its reservation? | two processes, two files beside the root, blocks of two words: a write of seven words reaches the indirect block and needs several transactions; nine blocks run out; six calls |
| `directories` | Are link and reference counts right on every path of overlapping calls, do directories stay a tree, where can locks wait in a circle? | two processes, three inodes, four calls, paths of one and two elements and `..`, an empty disk and one with `/a/b`: inodes run out, a directory is removed while another call is in it or while it is the current directory, and its `..` is followed |
| `pipe` | Is the ring a byte queue, freed unused, with no sleeper forgotten? | two writers and a reader, two bytes of ring, requests longer than the ring, reads of one and two bytes, counters that wrap after two rounds |
| `proc_table` | Does every process keep a parent that can reap it, does wait miss no exit and return, does a killed waiter exit? | four slots, four pids: a chain init, parent, child, grandchild, so that init inherits a zombie from a process that is not its child; a pid of a running process and of an unused slot are killed |
| `processes`: scheduler | Do switches, spin locks and interrupt flags fit together on all processors, without lost wakeups? | two processes, two processors, ticks that wrap after two |
| `processes`: memory | Is every page free or in one place, at every page `fork`, `sbrk` and `exec` can fail at? | three processes, sixteen pages, enough for two executed programs and no more |
| `processes`: heap | Do `malloc` and `free` divide the heap without loss or overlap? | requests of one, two and three data units, memory for four calls of `morecore`, holes left by `sbrk` |
| `processes`: terminal | Does the console keep lines whole, and does the shell give every process its descriptors and wait for every child? | a ring of two characters, five processes, four keys, one failing call; command lines with a pipe, a list with a background command, two redirections, and one that is not a command |

Related invariants are joined in one property where they describe one state
together (`CacheConsistent`, `Accounted`, `TreeSound`, `ShellSound`,
`MemorySound` and so on); each conjunct is a definition with its own comment,
and most have a mutant of their own.

`processes` has a `VIEW`: only the part that moves tells states apart, and ring
cells outside `r..e`, headers of no block and the pointer of a block in use do
not count, since the code writes them before it reads them.
`CHECK_DEADLOCK FALSE` stands where the system may stop: all processes have
exited or closed the pipe, calls are used up, processes wait in one of the
circles `CyclesOnlyInIput` describes, or the kernel has panicked.

Four runs end in a counterexample to something the repository says of itself.

| Run | What the code does |
|---|---|
| `lost_commit` | `recover_from_log` computes its sum over `log.lh.n` blocks before `read_head` sets it, so it compares the stored checksum with 0. A committed transaction whose checksum is not 0 is not installed after a crash. |
| `lossy_install` | A slot whose write was lost passes `check_checksum`: both sums read the header and all slots but the last, and a slot lost before `write_checksum` is summed as it is. |
| `torn_recovery` | A refused log keeps its header; a crash in a later commit pairs it with new slots, and the next boot installs the mixture, contents that were never committed included. |
| `killed_by_pid` | `kill` marks unused slots, and the next process in the slot starts killed. |

`Recoverable` and `NoUncommittedHome` hold under `Sound`: no boot refused a
non-empty log and no write was lost. Without the proviso they fail as the runs
above show.

## 3. Observations without a run

Log:

* `write_checksum` starts at the header block and misses the last slot, while
  `recover_from_log` starts at the first slot: even with `read_head` called
  first the two sums would not be the same.
* `README.md` of the repository says that a mismatch "will cancel the system
  call"; the code panics (`log.c:241`).
* `begin_op` does not promise admission: other calls may take the space again
  before a woken process runs.
* `log_write` tests the size before absorption, so a call that used all of its
  MAXOPBLOCKS slots in a full log would panic on a further `log_write` even of
  a logged block. The theorems therefore assume `OpBlocks < MaxOpBlocks`.

Files and names:

* Two `iput`s of an unlinked inode that overlap both see the other's reference,
  so neither frees it (`fs.c:337`). `FreedUnlessOverlapped` names this exception.
* `create` and `unlink` put the directory while they hold the child
  (`sysfile.c:280`, `sysfile.c:209`), and `iput` locks what it puts
  (`fs.c:334`). Two such calls can wait for each other; `CyclesOnlyInIput` says
  that every circle of waiting processes contains this step.
* A name created in a directory that was removed after `nameiparent` found it
  is lost with it; the model counts such names (`lost`).
* A removed directory that is still a current directory keeps its `..`, which
  may name a freed inode, and then `ilock` panics (`fs.c:646`). The run reaches
  this, on the disk with `/a/b`. `PanicsExplained`, a part of `TreeSound`, admits
  it as the one exception: otherwise a call panics only in `ialloc`, when every
  inode is allocated.
* `link` to `.` or `..` finds the name present and puts the inode whose lock it
  holds, which waits for itself. `MCLinkPaths` has neither.
* `mkfs` rounds the root's size up past its blocks when its entries fill them
  exactly (`mkfs.c:161`). `MCImages` avoids it.
* A failed read leaves the old data in a buffer marked valid (`ide.c:118`);
  `BlockStore` admits it as `Damage`.
* `begin_op` admits calls up to LOGSIZE-2, that is 28 logged blocks, and each is
  pinned in one of NBUF, 30, buffers: with a full log two are left for
  all other blocks. `PanicOnlyWhenFull` says when `bget` panics: when the
  buffers in use and the pinned ones nobody uses are all there are.

Processes:

* `pipewrite` returns -1 for a killed writer without waking the readers, even
  if it has just filled the pipe. Readers then sleep on a full pipe until
  another writer writes or the last one closes. `SleepersHaveCause` names
  exactly this exception (`stranded`).
* A process killed between its test of `killed` and its `sleep` in `piperead`
  or `pipewrite` stays asleep until the next wakeup.
* `sbrk` to size 0 frees the pages, but `growproc` takes the size 0 for an error
  and leaves `sz` as it was (`proc.c:169`).
* When `init` cannot fork a shell it exits and the kernel panics.
* Of several output redirections the first takes effect, and `>>` neither
  appends nor truncates (`sh.c:391`).

## 4. Fairness

Liveness is checked in `log_admission`, `pipe` and `proc_table`. They assume
weak fairness for the steps of a process that can run: `scheduler` scans the
whole table and the timer preempts. `LogAdmission` has strong fairness for
`end_op`, because a call logs finitely many blocks and then ends. `Pipe` assumes
that readers read again or close; `WriterWoken` says that a blocked writer is
woken, not that its request ends, since other writers may refill the pipe first.
`ProcTable` assumes that a process inside `fork`, `wait` or `exit`, or killed in
user mode, goes on, and that what `exit` sleeps for, disk and log, completes.
Elsewhere hangs are excluded by invariants: `NoHang`, `QueueServed`,
`CyclesOnlyInIput` and `NoLostWakeup` say for whom a blocked process waits.

## 5. Proofs

* `GroupCommitProofs`: for every finite set of processes and every log size,
  `GroupTypeOK`, `CommitExcludesCalls` and `RoomForActive`. The inductive
  invariant is `ReservationsFit`: slots taken plus slots still reserved fit in
  the log. `RoomForActive` alone is not inductive, since it does not say what
  the other active calls may still take. Reserved slots are a set of pairs
  (process, index), so that the sum over processes is a cardinality.
* `LogAdmissionProofs`: for every finite set of processes and every log size,
  `CountersAgree`, `NoPanic`, `SleeperHasWaker`, and that `LogAdmission`
  implements `GroupCommit`. The invariant adds that at most one process commits
  (`OneCommitter`), that the log is empty when nobody is active or committing
  (`EmptyWhenUnused`), and the invariant of `GroupCommit`. The first is what
  keeps `outstanding` and `committing` in step with the processes; the second is
  why a sleeper has a waker: an unused log has room for any call. The
  assumption, besides `GroupCommitAssumption`, is `Spare`: a call logs fewer
  blocks than it reserves.
* `LogProofs`: for every set of home blocks and contents, every log size and any
  `DataWeight`, `LogTypeOK`, `Recoverable`, `NoUncommittedHome`,
  `DirtyIsLogged`, `NoFalseAlarm`, and that `Log` implements `GroupCommit`. The invariant `IInv` joins the reservations of
  `GroupCommit` with `DiskInv`, which says for each phase of commit and
  recovery what is on disk: up to which slot the log is written, that the sum
  in memory is the sum of what is cached, which home blocks are installed. Each
  action has a lemma. The assumptions are `GroupCommitAssumption` and
  `LogAssumption`.
* `ProcTableProofs`: for every table size, number of pids and set of pids that
  are killed, `ParentCanReap`, `WaiterHasReason` and `TableConsistent`. The
  invariant adds that init is never a zombie (`InitLives`), that each fork owns
  its slot (`ForksApart`), that a slot without a process has no parent
  (`Orphaned`), and that pids in use are distinct and below `nextpid`
  (`PidsApart`). `wait` frees a zombie's slot; it preserves `ParentCanReap`
  because a zombie is nobody's parent.
  The assumption is `ProcAssumption`.
* `PipeProofs`: for every set of readers and writers, every ring size and every
  width of the counters that the ring size divides, `SleepersHaveCause`,
  `FreedUnused`, and that `Pipe` implements `BytePipe`. The invariant adds the
  same cause for a process that has decided to sleep and not done so yet
  (`DozersHaveCause`, since `kill` may come in between), that an end is open
  while a process holds it (`EndsOpen`), and that the ring holds at most
  `PIPESIZE` bytes. The refinement rests on lemmas about remainders: because the
  ring size divides 2^32, a counter that wraps does not move the slots, so a
  write stores behind what is queued and a read takes from its front. The
  assumption is `PipeAssumption`.
* `BufferCacheProofs`: for every number of buffers, of processes and of buffers
  each may have, of blocks, pins and read errors, and every nesting of callers,
  `CacheConsistent`, `QueueServed`, and that the cache implements
  `BlockStore`. The invariant says in `Names` that a block has one buffer and
  `refcnt` counts its users, in `Locks` that the owner of a sleep lock is the
  pointer whose process is between `acquiresleep` and `releasesleep`, in `Flags` and
  `Served` what `B_VALID`, `B_DIRTY` and the disk queue tell that process, and
  in `Clean` that a clean buffer holds what the disk holds unless a read failed.
  The last is why recycling changes no block; counting users against buffers is
  why `bget` panics only when all are taken. The assumption is
  `CacheAssumption`: finitely many pointers, each of a process, and a value `None`
  that is neither a process, a pointer, a block nor a disk command.
* `SchedulerSteps` and `SchedulerProofs`: for every number of processes and of
  processors, every width of `ticks` and every argument of `sys_sleep`,
  `SwitchingSafe`, `NoLostWakeup` and `SleepsLongEnough`. What a kernel stack
  still has to do (`todo`) relies on what was done before: `Trans` says which
  locks each operation needs and leaves, inside a handler or not, and `Runs` that
  a whole stack fits together. `SwitchInv` says that each processor's locks,
  `ncli`, `intena` and interrupt flag fit the stack it executes (`CpuFits`), that
  a process that is not running can be continued by any processor with
  `ptable.lock` held (`ProcFits`, `LoopFits`), and that a `RUNNING` process is on
  exactly one processor (`OnCpu`). `SwitchingSafe` alone is not inductive, since
  it says nothing of what a switch restores. `SleepInv` adds that whoever has
  tested the clock and not slept yet has time left or a `wakeup1` to come
  (`NapInv`), that init waits only for a child that will exit (`InitInv`), and
  that `ticks - ticks0` counts the ticks that passed (`CountInv`). The
  assumption is `SchedulerAssumption`: at least one process and processor, and
  sleeps shorter than the wrap of `ticks`.

Only model-checked: liveness under fairness; `LogExact`; everything about
inodes, names, memory, the terminal and the heap. The prover reaches
neither liveness nor induction over data, which the sums, folds and recursive
definitions of `Inodes`, `Directory`, `ShellParser` and `Umalloc` would need.

## 6. Not modelled

* Boot code, start-up of processors, interrupt controllers: hardware set-up in
  a straight line.
* `seginit`, `switchuvm`, `switchkvm`, trap entry and `swtch.S`: registers. What
  they switch between is in `Scheduler`.
* `ideinit`, `idewait`, the register values of `idestart`, `memide.c`: polling of
  hardware, and a disk in memory.
* Key maps, screen and serial output, `procdump`, `cprintf`: output only.
* Fetching of system-call arguments and `filestat`: they copy data and change no
  state.
* User programs and tests other than the shell, `init` and `cat`: clients without
  shared state.
* `kill` in the terminal session, and compositions of `Log` with `Inodes` or of
  `Pipe` with `Terminal`: the products are beyond what TLC explores. The
  interfaces are checked from both sides instead: `ReservationKept` in `Inodes`
  shows of `filewrite` what `OpBlocks < MaxOpBlocks` assumes of a call, the pins of `BufferCache` are those
  of `log_write`, and the pipes of `Terminal` hold one byte of `Pipe`'s ring.
