# TLA+ models of SolarOS

SolarOS is a small x86-64 kernel in Rust (`src/kernel/src`, about 9 200 lines) with one
user program (`src/user/src/main.rs`). It runs on one CPU, with a 1 kHz timer interrupt,
a preemptive scheduler, its own ext4 and FAT implementations, a heap, drivers and a shell.
This directory holds TLA+ modules translated from that source, the TLC configurations that
check them and proofs for TLAPS. Paths below are relative to `src/kernel/src` unless they
say otherwise.

## 1. Inventory

| Component | Files | State it keeps | What makes it correct | Modelled in |
|---|---|---|---|---|
| Scheduler, timer | `sched.rs`, parts of `interrupts.rs`, `gdt.rs`, `main.rs` | task table, ready queue, sleeper list, current task, `TICKS`, `TSS.rsp0`, `SYS_KSTACK_TOP` | no task is lost, dead tasks stay down, sleeps end and never early, stacks follow the switches | `Scheduler` |
| ext4 journal | `ext4.rs` 53-191, 1066-1241, `fs.rs` 250-259 | ring of 1024 blocks, its superblock, `JbdState` | a crash leaves whole transactions; reads see writes; replay applies only what is pending | `Journal` |
| ext4 allocation, inodes, directories | `ext4.rs` | bitmaps, group descriptors, superblock counters, inodes, extents, directory blocks | the three sets of counters agree, no block has two owners, the directories are a tree, space comes back | `Ext4Fs` |
| FAT | `fat.rs` | FAT, directory entries | chains are disjoint and end; nothing leaks; a power failure hurts only what was touched | `Fat` |
| File system front end | `fs.rs` | mounted kind, base, current directory | commands mean what the path says | in `Ext4Fs`, `Fat`, `Journal` |
| Heap | `heap.rs` | free list, headers, `used` | blocks are disjoint, inside the heap, in one use each; no byte is lost | `Heap` |
| Console input | `input.rs`, `keyboard.rs`, `serial.rs`, `terminal.rs` | serial ring (256), scancode ring (512) | in order, once; only a full ring loses; a waiting reader wakes | `Console` |
| Users | `users.rs` | user table, current user, `/etc/passwd` | names and numbers are unique; what was saved comes back while the file system is sound | `Users` |
| System calls, user mode | `syscall.rs`, `elf.rs`, `mem.rs`, `src/user/src/main.rs` | `SYS_USER_RSP`, `SYS_KSTACK_TOP`, the image | each task returns on its own stacks | partly (`Scheduler`, `Console`) |
| Shell | `commands.rs`, `settings.rs` | history, prompt, settings | mostly output | the commands on files and accounts |
| Boot, IDT/GDT, exceptions | `main.rs`, `interrupts.rs`, `gdt.rs`, `boot.rs` | tables | - | what drives the scheduler |
| Framebuffer, disk drivers, interrupt controllers, PS/2, CRC | `framebuffer.rs`, `ahci.rs`, `ata.rs`, `pci.rs`, `apic.rs`, `acpi.rs`, `ps2.rs`, `crc.rs` | device registers | device I/O | not |

How they interact. The timer interrupt calls `schedule()`, which switches stacks in the
middle of whatever the interrupted task was doing. Shell commands call `fs.rs`, which calls
ext4 or FAT and then `commit_after`. Every ext4 block goes through `write_block` and so
through the journal; FAT has none. Input handlers fill rings that the shell and the `read`
system call drain. `users.rs` keeps its table in a file of whichever file system is mounted.

Where it is hard: preemption at any instruction with interrupts on; a queue and a list that
hold stale and duplicate entries by design; power failure between any two sector writes; a
ring that is reused; a ring with two producers; the same number kept in three places; errors
in the middle of a command; memory and disk that drift apart; a tick counter that is reset
under waiters.

The hazards, each at its line with the properties that cover it, are in `PROJECT.json`.

## 2. Modules

| Module | Stands for | Extends or instantiates |
|---|---|---|
| `Scheduler` | `sched.rs` and what drives it | `AbstractScheduler` (refinement) |
| `Journal` | the write-ahead log of `ext4.rs` | - |
| `Ext4Fs` | ext4 above the journal | `AbstractTree` (refinement) |
| `Fat` | FAT, one sector write at a time | `AbstractTree` (refinement) |
| `Heap` | `heap.rs` | `AbstractHeap` (refinement) |
| `Console` | serial and keyboard input | - |
| `Users` | accounts and `/etc/passwd` | - (takes from `Fat`, `Ext4Fs` and `Journal` what a write may leave) |
| `SchedulerProofs`, `JournalProofs`, `Ext4FsProofs`, `FatProofs`, `HeapProofs`, `ConsoleProofs`, `UsersProofs` | theorems (section 5) | the module they are about, `TLAPS` |
| `Induction` | lemmas of induction over numbers, finite sets and loops that the proofs share | `FiniteSetTheorems`, `TLAPS` |
| `MCExt4Fs`, `MCFat`, `MCUsers` | paths, views and files for TLC | the module they instantiate |

The composition goes through what one component promises another: a command of `Ext4Fs` is
one step because `Journal` shows that its blocks reach the disk together. `Users` takes from both,
and from `Fat`, what a save may leave, their exceptions included: on ext4 a cut save leaves the file
before or after it unless it meets one of the situations `CrashAtomic` excludes, on FAT it leaves what
the sector writes of `write_file` do. The reader of `Console` runs in a task that `Scheduler` keeps
running.

### `Scheduler` - `sched.rs` with the parts of the kernel that drive it

State: the fields of `SchedulerInner` (`ntasks`, `state`, `wake`, `ready`, `sleepers`,
`current`), `ticks`, the owners of the two kernel stack pointers, and for the CPU: the phase
of the handler, each task's program counter and interrupt flag. A stack is named by the task
that owns it, which is all that `saved_rsp`, `kstack_top`, `rsp0` and `SYS_KSTACK_TOP` say.

| Action | Code |
|---|---|
| `SchedInit`, `Spawn`, `SpawnFull`, `EnterIdle` | `sched::init`, `spawn`, the end of `kernel_main` |
| `Rearm` | the watchdog of the idle loop and `interrupts::rearm` |
| `EnableInterrupts`, `SyscallEntry` | `iretq` in `enter_user_mode`, `sysretq`; the `syscall` instruction with `SFMASK` |
| `SleepMs`, `SleepUntil`, `Recheck` | `sleep_ms` up to the call, the locked part of `sleep_until` with `sti; hlt`, and its loop |
| `Exit` | `terminate_current` up to its loop |
| `Timer`, `DeviceInterrupt` | the interrupt handlers |
| `WakeDue`, `WakeSkip`, `Requeue`, `PickSkip`, `Dispatch`, `PickNone` | the loops of `schedule` and `terminate_current`, one iteration a step |

`schedule()` runs with interrupts off, so its steps do not interleave with anything; they are
separate steps only so that properties can speak of the moments between them. A task in its
own code is preempted wherever `intr` allows. An interrupt that arrives while `IF` is clear
waits. Kernel code of one task that runs with interrupts off ends at `EnableInterrupts`.

Not in the model: the counter of switches, names, and a spawned function that returns
(`demo_user` does after a failed ELF load; its stack holds no return address for that).

`AbstractScheduler` is what the scheduler promises: tasks are ready, sleeping until a
deadline, or dead; the CPU goes from a holder to a ready task; a sleeper becomes ready only
when its deadline has come, and every sleeper and every ready task is served in the end. No
queues. The variables are read off `Scheduler` directly, the queues are hidden.

### `Journal` - the write-ahead log in `ext4.rs`

State: the ring and the file system blocks as one address space, in which slot `JB` of the
journal is the first block behind it, as on the disk; the journal superblock; `start`, `seq`
and `pend` of `JbdState`; where the code is. The content of a block is the number of the write
that made it, a descriptor, a seal or a torn block. A checksum is what it covers. Block 0 of the
disk, with the superblock of ext4, is the last of the file system blocks.

| Action | Code |
|---|---|
| `Relog`, `LogFirst`, `LogNext`, `ForceCommit`, `LogForced` | the branches of `write_block`; `LogForced` is what follows a forced commit |
| `Commit` | `commit_after` / `jbd_commit` at the end of a command |
| `WriteDesc`, `WriteSeal`, `Apply`, `Advance` | `jbd_commit_locked`, one block write a step |
| `Crash` | a power failure, which may tear the block being written |
| `Mount`, `ReplayFound`, `ReplayNext`, `ReplayEnd` | `mount_at` with `jbd_init` and `jbd_replay`, also for a `mount` command |
| `MountRefused` | `mount_at` when the checksum of the ext4 superblock is wrong: it returns `Io` before it looks at the journal |
| `Mkfs` | `mkfs_at` as the journal sees it, up to its `mount_at`; also of a disk that mount has refused |

`img`, `stable` and `prev` are history: the newest content of every block, and what it was
when the last transaction, and the one before, was sealed. `wrapped`, `overrun` and `spilled`
record that one of the situations of section 4 has arisen; `wrapped` is cleared when the
transaction is checkpointed or the file system mounted, the other two stay.

Abstractions: `mkfs_at` is one step (a failure in the middle of it leaves no file system and
nothing is promised); blocks reach the disk in the order they are written (`ata.rs`, `ahci.rs`
wait for each command). A torn block 0 is refused by mount: the free counts, which every commit
that allocates changes, lie in its third sector and the checksum in its fourth. The unit of
atomicity in the properties is the transaction; a command that does not fit between `start` and
the end of the ring is split into several (section 4).

### `Ext4Fs` - ext4 above the journal, with the front end

State: `fs`, a record of the on-disk structures (bitmaps `bused`, `iused`; descriptors `bfree`,
`ifree`, `dirs`; superblock counts `sbBlocks`, `sbInodes`; the inode table; the blocks), and
`cwd`. `last`, `nodes` (what a walk from the root finds), `moved` and `broken` are history.

| Definition | Code |
|---|---|
| `AllocBlock`, `FreeBlock`, `FreeExtents`, `AllocInode`, `FreeInode`, `BumpUsedDirs` | the functions of those names, counters included |
| `CanAppend` | `extent_append`: adjacent blocks share an extent, four extents at most |
| `Lookup`, `PutEntry`, `DirGrow`, `DirAdd`, `DirDel` | `lookup_dir`, `dir_find_slot` with the split of a slot, `dir_grow`, `dir_add`, `dir_del` |
| `Descend`, `ParentOf`, `Candidate`, `CdAnswer` | `resolve`, `split_parent`, `resolve_from_cwd`; `cd` of `fs.rs` and `check_dir` |
| `DoTouch`, `DoMkdir`, `DoWrite`, `DoRm`, `DoRmdir`, `DoMv`, `DoRead`, `DoCd`, `DoMkfs` | one command each, with every helper it calls and what an error leaves behind |

Helpers return the disk they leave and an answer; `Then` runs the next one unless the last one
failed, which is Rust's `?`. A file's contents are a payload that takes `Size` blocks; a
directory block holds `SLOTS` records whose `rec` is the room up to the next one.

The model ends (but for `mkfs`) when the tree is `broken`: when `mv` has put a directory below
itself, or a command has made or removed an entry `.` or `..`, both of which the code allows.
After a directory has moved to another parent its `..` is wrong on the disk; from then on the
commands of the model use no path with dots.

### `Fat` - FAT with a power failure after any write

State: `disk` (the first copy of the FAT, the contents of the clusters), `cwd`, and the same
history. A running command is a record of the disk, the states it went through (`log`), and
its answer; the action that ends it takes the last state, or any state of the log and `crash`.

| Definition | Code |
|---|---|
| `AllocCluster`, `FreeChain`, `Chain`, `AllocChain`, `WriteData` | `alloc_cluster`, `free_chain`, the walks along the FAT, the loops of `write_file` |
| `Slots`, `Before`, `First` | the order in which a directory's chain is read, slot by slot; the slot a loop stops at is the first in a set |
| `Walk`, `LookUp`, `FindFreeSlot` | `walk_dir`, `look_up`, `find_pos`, `find_free_slot` (which links the new cluster and then zeroes it) |
| `CwdCluster`, `Descend`, `ParentOf` | `cluster_from_cwd`, `resolve`, `split_parent`, `resolve_from_cwd` |
| `DoTouch` ... `DoMkfs` | the commands, each as its sequence of sector writes |

A loop that writes, or follows the FAT or a path, is a function of the number of its turns.
What an allocated cluster held before is a block that nobody made (`StaleBlock`). `mkfs` is one
step. A state that a power failure has left inconsistent is `broken`, and the model goes on
from every other one.

`AbstractTree` is what both file systems promise the shell: a tree of names whose nodes are
directories or contents, and commands that do what they are asked to one node or change
nothing, except a write, which may lose the old contents of the file it fails to replace. It
states also what is surprising in the code: `/f` is taken in the current directory, `cd` keeps
part of a name (`Cut`), ext4's root has no dots (`RootDots`).

### `Heap` - `heap.rs`

State: the free list, the header of each block, `used`, and `live`, what the callers hold.
`Alloc`, `AllocFails`, `Dealloc` and `Realloc` are the allocator's operations; each runs with
interrupts off and is one step. Addresses are numbers of bytes, headers are 16 bytes, a block
is split when 32 or more would be left. `AbstractHeap` is the contract of `GlobalAlloc`: payloads
inside the arena, disjoint from all others, for `realloc` from the old one too, at a multiple of
the alignment of their layout. The heap does not keep the last part for layouts over 16 bytes: the
run `heap_align` shows that, and `ImplementsAllocator` is a refinement under a mapping that states
of a layout what a block can serve of it (`AsServed`).

### `Console` - bytes and keys on their way to the reader

State: the UART (`fifo`, the latched request `irq4`, `wired` for whether it has a route), the
two rings with their indices, and the reader (`pc`, interrupt flag, the locals of
`drain_receiver`). `got`, `keys`, `lost`, `klost` and `raced` are history.

| Action | Code |
|---|---|
| `Arrive` | a byte reaches the receiver (external) |
| `SerialIrq`, `KeyboardIrq`, `Timer` | the handlers, one step each; all end a `hlt` |
| `Read`, `Return`, `ReadLine` | the `read` call with interrupts off and its return; `terminal::read_line` going on |
| `PollSerial`, `DrainRead`, `DrainCheck`, `DrainStore`, `DrainPublish`, `PollKeyboard`, `Halt` | the loop of `read_char`, with `drain_receiver` a load or a store a step |

### `Users` - accounts over a file that may not follow

State: the table and `current` in memory; the kind of file system, whether `/etc` is there and
the file on disk, a sequence of lines, which may also be a directory. Three variables and a mark
are history. `promised`: the tables of which a boot must bring back one. `sound`: nothing has harmed
the file system since `mkfs`. `foreign`: the table was read from a file that is not `own`, a whole
one of the kernel's own.

| Action or definition | Code |
|---|---|
| `Boot` | `users::init`, `mount`, `load_from_fs`, which writes back at once what it has read |
| `Adduser`, `Passwd`, `Login` | the commands; a change is its save too (`Change`) |
| `Saved` | `save_to_fs`, which ignores a failed write; on FAT a text goes under a directory's entry as well, which `read_file` then refuses |
| `Cut` | a power failure in a save: the file before or after it, or the first of the new lines and something behind them (`Ragged`), because `fat.rs` writes the entry and then cluster by cluster over clusters that may hold an older passwd |
| `PowerOff`, `Break`, `Harm` | a power failure at any other moment, and a command that breaks the tree. FAT may then have an entry into free clusters, ext4 may have met an exception of `CrashAtomic`: the file stays, goes or is mixed, or there is no file system (`Harmed`, `Lost`) |
| `OnFile`, `Mkfs` | `mkdir`, `rmdir`, `rm`, `touch`, `wtest` and `mv` of `/etc` and `/etc/passwd` |

A file system that has been harmed stays so until `mkfs`, because no command repairs it: a save that
goes through may write clusters another file owns, and later commands may overwrite it. So harm
may strike again at any time, and nothing is promised meanwhile. The conversions are modelled by
what they do: a password loses what follows a colon, and a character keeps its low byte.

## 3. Runs

| Run | Module, cfg | Shows | Distinct states |
|---|---|---|---|
| `scheduler` | `Scheduler`, `Scheduler.cfg` | the safety properties; every sleep returns; refinement of `AbstractScheduler` with its liveness | 46 k |
| `journal_crash` | `Journal`, `Journal.cfg` | crash atomicity, read-your-writes, commit and replay end | 2.5 M |
| `journal_wrap`, `journal_overrun`, `journal_spill`, `journal_mkfs` | `Journal` | four disagreements between code and comments (section 4) | found |
| `ext4_fs` | `MCExt4Fs`, `Ext4Fs.cfg` | counters, ownership, tree, space; refinement of `AbstractTree` | 16 k |
| `fat` | `MCFat`, `Fat.cfg` | chains, directories, leaks, power failures; refinement of `AbstractTree` | 38 k |
| `heap` | `Heap`, `Heap.cfg` | blocks, the counter; refinement of `AbstractHeap` | 36 k |
| `heap_align` | `Heap`, `HeapAlign.cfg` | a disagreement about alignment (section 4) | found |
| `console` | `Console`, `Console.cfg` | order, loss, and that a waiting reader gets what has arrived | 45 k |
| `users` | `MCUsers`, `Users.cfg` | unique accounts; what a boot brings back | 146 k |

### What the properties say

Scheduler. `NoLostTask`: the queue and the list together always hold every task that should
run again. `NeverStuck`: `terminate_current` finds a task. `DeadNeverRuns`. `StacksOfCurrent`:
`rsp0` and `SYS_KSTACK_TOP`. `NoOverdueSleeper`: the wake loop misses nobody. `QueueBounded`:
an id is in the queue at most three times (a sleeper woken while it is still current is pushed
twice by one tick; a third entry may be left from an earlier one). `BoundedBypass`: while a
ready task waits no other gets more than one turn. Both are stated for the two tasks that
`kernel_main` spawns (`ntasks <= 3`), because with a third they are false: the second entry of
a task is taken out only when it comes right behind the first, and a third sleeper can be woken
in between. With four tasks and seven ticks TLC finds the queue `<<0, 3, 3, 3, 3>>`, and both
the queue and the turns grow with the ticks. The code's table has 24 places; nothing fills them. `SleepReturns`, `ImplementsAbstract`: liveness.

Journal. `CrashAtomic`: a completed mount finds the last sealed transaction, outside four
situations; a fifth is in the property itself: a mount that is refused because the failure tore the
ext4 superblock finds nothing, but every block of that transaction is in place or in the log. `ReadsSeeWrites`:
a read returns the newest write through every stage of a commit. `JournalSettles`: neither a
commit nor a replay goes on for ever.

Ext4. `Counters`: bitmaps, descriptors and superblock agree after every command, failed or not.
`OneOwner`: no block in two files, and what is held is marked used. `TreeShape`: one entry to an
inode, of its type, dots that are right, no name twice. `DirCounts`: link counts and used-directory
counts count the tree, until a directory has moved to another parent. `SpaceReclaimed`: a
command that succeeds leaks nothing, nor does a replacement of a file that runs out of space;
`mkdir`, `touch` and a new file do leak when they fail. `ImplementsTree`: the refinement.

FAT. `ChainsSound`, `DirsSound`: no cluster in two chains, chains end and match sizes, nothing
hidden behind an end mark. `NoLeak`: only a `write_file` that fails leaks. `CrashContained`: a
power failure hurts only the nodes the command was given. `NewNamesSurvive`: a new file or
directory may be cut anywhere and leaves the disk sound, except where its directory grows and
for the commands that remove, replace or move. `ImplementsTree`.

Heap. `BlocksSound`: one use per block, no overlap, every header inside the heap. `NothingLost`:
the blocks tile the heap, and each is in the list or in use. `UsedSound`: `used`, which adds what
was asked for and subtracts what was taken, never exceeds the number of bytes in use. `ImplementsAllocator`.

Console. `SerialFaithful`: serial bytes are delivered in order and once, and only a full ring
or FIFO loses one, unless the handler ran between the steps of a drain (`raced`); even then no
byte is delivered twice. `KeysFaithful`: the same for keys, without exception.
`EveryByteSettles`: what has arrived is read or lost, also when IRQ4 has no route or came just
before the `hlt`.

Users. `Identity`: names and numbers are unique and `root` is first with number 0, whatever saves
failed and power was lost, unless the last boot read a file that was made elsewhere, moved, or mixed
by a failure: of such a table only that it has `root`, or no room for it. `AccountsSurvive`: as long
as nothing has harmed the file system, a boot brings back the table of the last command whose save
went through, or on ext4 the one before or after it if the power failed in the save without harm.

`TypeOK` bounds what code could overrun: the task table, the ring, the inode's extents, the
current directory, the user table and a password.

### Bounds and why they are enough

Scheduler: three tasks, which are all that `kernel_main` makes: two that sleep and exit in any
order, so that both can be in the sleeper list and `swap_remove` moves one into the other's place;
one spawn request more than the table holds; four ticks with sleeps of up to two, so that sleeps
overlap and become due together; one firing of the watchdog. One run checks safety and liveness on
this instance; the theorems of section 5 say the same of the safety properties for any number of
tasks, ticks and firings, and so of longer lists.

Journal: a ring of eight slots holds one to two transactions, so a lap takes two or three of
them and each of the ways a transaction can meet the end of the ring occurs; two file system
blocks make partly applied transactions visible; six writes are two laps; three failures allow
one in a commit, one after the recovery and one in the mount that follows. The overflow needs a
transaction of `MAX_PEND` blocks: seven slots and four blocks.

Ext4: two groups of two blocks and two inodes: the disk is full after `mkfs` and one file, so
every allocation fails somewhere, and blocks of different groups are never adjacent; two slots
in a directory block, so that every new name makes a directory grow or takes a slot that was
split or freed; one extent, so that a
two-block file sometimes fits and sometimes does not; a current directory of two names. Two
names, of which `cd` turns one into the other, a one-component, an absolute, and a two-component
path, and paths with dots. The view `MCView` identifies states that differ in the answer of the
last command, in what free or leaked blocks and inodes hold, which an allocation overwrites,
and in link counts once they are wrong. Properties about the answer (`SpaceReclaimed`,
`ImplementsTree`) speak of steps, and TLC evaluates them on every step it generates.

FAT: four clusters, two of them taken by `mkfs`, three slots in a directory cluster, so that the
first name in a seed directory fits and a second one needs a new cluster; files of no and of two
clusters, and one over the limit of two; a current directory of one name. Here the view also identifies
all broken states, which only `mkfs` leaves.

Deadlock is checked in every run: in no state of any model may everything stop.

Heap: 176 bytes of blocks, in memory that begins and ends off a 16-byte boundary. With sizes and
alignments on both sides of the header's, requests take 32, 48, 80 or 96 bytes, so that blocks
fit exactly, leave a remainder too small to split, or run out; three allocations at a time.

Console: rings of three (two usable), a FIFO of two, four bytes and three scancodes: both rings
wrap and overflow, and one byte and one scancode yield no character.

Users: a table of three with three valid names, passwords of up to two characters and one that is
too long, one with a colon, two characters that share a byte, and a file made elsewhere
(without root, with bad lines, with a name twice, too long for the table). Behind the lines of a cut
save there is nothing or a user of an older table, and such a file has two lines at most (`MaxLines`):
enough for a name and a number to occur twice in it, for root to be missing, and for a table that is
shorter than the one saved.

### Fairness

Kernel code with interrupts off is straight-line: weak fairness of the boot code, of the
handler, of a commit, of a replay, and of a task leaving a section with interrupts off. Strong
fairness of `Timer`, because the local APIC latches a tick that comes while interrupts are off
and delivers it when they come on; strong fairness of `SleepUntil` and `Recheck`, because a task
that has the CPU again and again for up to a millisecond executes those few instructions.
Console: weak fairness of the reader (its task is scheduled) and of the tick while it is halted,
strong fairness of `SerialIrq`, whose request stays latched while interrupts are off. Nothing
makes a task sleep, exit or call the kernel, a byte or a key arrive, the power fail or a command
be typed. `Ext4Fs`, `Fat`, `Heap` and `Users` have no fairness: every step of theirs is a
command somebody may never type.

Every property has a mutant in `PROJECT.json`: a plausible slip in the modelled code under
which TLC finds the property violated.

## 4. Disagreements between the code and its comments

* `journal_wrap`: a transaction that would begin in slot 1022 or 1023 moves to slot 1 by
  setting `j.start` in memory. Until `jbd_write_super` at its end the superblock names the old
  slot, where replay finds nothing, so a failure after the seal leaves the blocks half applied.
* `journal_overrun`: replay does not save `start` and `seq`. Until the next commit is complete
  the superblock points to the replayed log. A transaction that comes round the ring destroys
  that log, is lost if power fails while it is applied, and the sequence numbers are used again
  afterwards (TLC also finds stale transactions of the same number replayed).
* `journal_spill`: a forced commit of 1020 blocks that began in slot 1 ends with `start` 1023.
  The write that forced it does not repeat the test and logs its block in slot 1024, the first
  block behind the journal (after `mkfs`, the directory block of `/etc`), and the seal in the
  next one. A single command that writes 1021 blocks right after `mkfs` gets there.
* `journal_mkfs`: `mkfs_at` does not clear the ring and starts again at sequence 1 and slot 1, so
  the mount at its end replays the old transactions over the new file system, if the old journal
  had not come round.

* `heap_align`: `alloc_locked` adds `align_up(16, align)` to the address of a block, which is a
  multiple of 16 only, so the pointer is not aligned to a layout that asks for more.
  `docs/adr-007-elf-loader.md:16` speaks of a "PAGE-aligned block" and `ahci.rs:102` of "an aligned DMA
  block" of 4096.

`CrashAtomic` excludes exactly the four situations of the journal, by the history variables that mark
them. There is a fifth in which "each command is crash-atomic" (`fs.rs:252`) fails, and it is in the
property: `mount_at` compares the checksum of the ext4 superblock (`ext4.rs:1263-1271`) before it calls
`jbd_init`, so when a failure parts the two sectors of block 0, while a commit or a replay writes it,
every later mount returns `Io` and the transaction that would repair it is never redone. What the
property claims then is that it could be: nothing sealed is lost.

### Met while reading, without a run

Observations that a model of one command or one register does not make clearer than the text:

* The unit that is crash-atomic is a transaction, and `fs.rs:252` says command. `ext4.rs:168` speaks of
  splitting "a very large command", but `write_block` splits any command that comes near the end of
  the ring: one of three blocks that begins with `start` 1021 is committed after its first block,
  and a power failure then leaves the rest of it out.
* On FAT a save is not atomic, and nothing in the code says it is: after a failure in the middle of
  one, `/etc/passwd` may begin with new lines and go on with those of an older file, or its entry may
  lead into clusters that later commands give to others. A `mkdir /etc/passwd` makes every save go
  through and every boot ignore it.
* `input.rs:50` calls the serial ring the "same pattern as the keyboard raw ring", but it has two
  producers. `Console` lets them race: bytes may then be lost or reordered, never doubled.
* `apic.rs:74-80`: `ioapic_mask_pin` sets bit 16 of the high word of an entry, whose mask is
  bit 16 of the low word. After `apic::init` IRQ4 has no route, so the serial line lives on
  the drain at each tick (`docs/adr-008-userspace-shell.md:27` describes the interrupt);
  `Console` starts with and without the route.
* `interrupts.rs:45`: `rearm` holds the lock of the PICs with interrupts on, which every handler
  takes; `docs/adr-003-acpi-apic.md:23-24` has the rule that "a handler's stack must never take a
  spinlock shared with init". A key that arrives in that window stops the machine.
* `heap.rs:53` and `heap.rs:69` take the heap's lock with interrupts on, against
  `docs/adr-005-scheduler.md:14-15`. It does no harm before `sched::init`, where they are called:
  until then the timer handler does not allocate.
* `docs/adr-005-scheduler.md:15` says "no lock may be held across `context_switch`". After `passwd`
  has read a line the rest of its system call runs with interrupts on, so the shell may be switched
  away with a file system lock; no handler and no other task takes those.
* ext4's `mkfs` writes one block of group descriptors, which more than 64 groups overrun, and cannot
  format a disk whose last group is smaller than its metadata.
* `mkfs` leaves the current directory as it was; `/f` is taken in the current directory; `cd` keeps
  12 characters of a name; on FAT `cd` into a directory with an extension never succeeds.
* `passwd` compares whole input arrays, so what a backspace has left makes equal lines differ.
  A password is cut at a colon in the file and keeps one byte of each character.

## 5. Proofs

### Scheduler

`SchedulerProofs` proves for every number of tasks, ticks and spawn requests, from
`SchedulerConstants` alone:

| Theorem | States |
|---|---|
| `TypeCorrect` | `Spec => []TypeOK` |
| `InvCorrect` | `Spec => []Inv` |
| `NoTaskIsLost`, `ExitAlwaysSwitches`, `DeadTasksStayDown`, `StacksFollowCurrent`, `TimerWakesAllDue` | the five safety properties of the same meaning |
| `RoundsKept` | `Spec => []RoundInv`, the order of the two queues with at most three tasks |
| `QueueStaysBounded`, `TurnsAreFair` | `Spec => []QueueBounded`, `Spec => []BoundedBypass` |
| `StepsImplementAbstract` | the safety half of `ImplementsAbstract`: every step of the scheduler is a step of `AbstractScheduler` or leaves its variables alone |

The argument. None of the properties is inductive: what the queue must hold depends on how far
the handler has come. `Inv` says it phase by phase. `KernelTask`: task 0 never sleeps and never
dies and nobody is stuck, which is why the ready queue is never empty when another task exits.
`Unfilled`: entries beyond `ntasks` are untouched. `CurrentAlive`: only in phase "exit" is the
current task dead. `QueueInv`: a ready task other than the current one is queued at all times;
while the next task is being picked a current task that is still ready is the last entry, or
the queue is empty. `SleeperInv`: every sleeper is listed with its tick, and in the wake loop
everything before `idx` is not due. `StackInv`. The proof goes action by action (`BootInv`,
`TaskStepInv`, `InterruptInv`, `WakeDueInv`, `HandlerInv`), with lemmas on what `SwapRemove`,
`Append` and `Tail` keep. For `StepsImplementAbstract` each action is shown to be one abstract
action under `Inv`: `WakeDue` wakes a task only if it sleeps and its tick has come, which is
`SleeperInv`; `Dispatch` gives the CPU to a task that is ready, which the filter at the pop
guarantees although the queue holds stale entries; everything else stutters.

`QueueBounded` and `BoundedBypass` need an invariant of their own, `RoundInv`, which says how the
queue's duplicates come about. A run of `schedule()` may push the interrupted task twice, by the
wake loop and at its end; these entries end up side by side unless the wake loop pushes another
task between them, and the filter at the pop drops the second only then. So the order of the
*sleeper list* decides: `SleeperOrder` says that every other live task has at most one entry, and
before all of the running task's own, of which at most one is not yet due. `swap_remove` could
break this by moving an own entry into a hole further up; with `ntasks <= 3` the hole is then
either the other task's only entry or an own one, and it does not (`WakeDueOther`; this is the one
place where three matters). `QueueOrder` follows: the queue is an ordered part, where a task's
entries are adjacent and the running task's is the head, and behind it what this run has pushed.
Three positions can hold a task (`RoundsBound`), and two turns of one task would be two entries
that are not adjacent (`RoundsBypass`). The bound is in the properties, not in an assumption: the
theorems hold for every `MaxTasks`, as statements about the states in which at most three tasks
exist. TLC agrees on `RoundInv` with a table of three tasks and with one of four.

### Journal

`JournalProofs` proves for every ring size above 5, and every number of blocks, writes, power
failures and reformats, from `JournalConstants` alone:

| Theorem | States |
|---|---|
| `JournalInvariant` | `Spec => []IInv` |
| `JournalTypes` | `Spec => []TypeOK`: slots stay in the ring, a transaction fits its descriptor, what replay writes are file system blocks |
| `ReadsReturnNewest` | `Spec => []ReadsSeeWrites` |
| `JournalChain` | `Spec => []ChainInv`, the invariant for crash atomicity below |
| `RedoIsAtomic` | `Spec => CrashAtomic`: a completed mount finds exactly the last sealed transaction, a refused one has lost nothing of it |
| `RingHolds` | until a forced commit has pushed a transaction out of the ring, descriptor, copies and seal end before it does |

The argument. `PendInv`: copy `i` lies in slot `start + i` and no block is logged twice, so the
`CHOOSE` of a read has one candidate. `Room`: the transaction and its seal lie in the ring, or
a forced commit has opened it in the last slot and it has one block; without this a write to
the log could hit a file system block. `OpInv`: which fields each part of the code may rely on.
`DescInv`: every descriptor in the ring, live or left from an earlier lap, names one or more
file system blocks; it is what makes replaying one safe, whichever is found. `ReplayInv`: the
transaction being replayed stays as it was found. `NewestInv`: the copy of a logged block, or
the final block if there is none, has the newest content, and while a commit is applied the
blocks done so far have it in both places.

Crash atomicity speaks of what a replay *would* do, so its invariant does too. A chain names the
transactions a replay would walk over before anyone walks: each is sealed, begins where the one
before it ends (`Links`), and all of them stay inside one turn of the ring (`Arc`). `Gives`: the
newest copy of each block in the chain, or the final block if there is none, is what the last
sealed transaction left. `Commits`: the chain ends where it is said to end, because no seal in the
ring carries a later number, and one with the next number (a transaction that has moved to slot 1
before the superblock says so) is not where replay looks. `Memory` says how far a
commit or a replay has got with it: a transaction being written follows the chain, the one being
applied is its last, and a replay stands at its j-th transaction with all before it applied.
`ChainInv` is that there is such a chain unless the ring was overrun, spilled or reformatted; while
`wrapped` holds only `Gives` is lost. Lemmas say that a write outside the chain keeps it
(`ChainKept`), that a seal makes it one transaction longer (`SealExtends`), that the log of a
transaction never comes round to the chain without `overrun` (`WriteIsApart`), and that a torn block
is in no transaction of the chain or written again by it (`TornRing`, `TornHome`).

A refused mount needs nothing new: `Gives` says of every block that its newest sealed content is in
place or in a transaction of the chain, and the chain is sealed in the ring.

Proving it found a gap in the definition of `spilled` that the run's bounds do not reach: after a
commit forced in the last slot a failure in the commit that follows may tear the file system block
behind the journal, which no transaction repairs. `Crash` marks that as `spilled`.

### Ext4Fs

`Ext4FsProofs` proves for any number and size of groups, any directory block, extent limit and
depth, every set of names, paths and contents, and any number of commands and reformats, from
`FsConstants` alone. That assumption is what the code has: `mkfs` has inodes in the first group (it
counts every directory there: 8192 inodes, six directories), blocks and room in one block of the
root for its directories, whose names differ; the first 12 characters of a name
are a name; a path has a last component, and its components are names or dots.

| Theorem | States |
|---|---|
| `Ext4FsInvariant` | `Spec => []FsInv`, the invariant below |
| `Ext4FsTypes` | `Spec => []TypeOK` |
| `Ext4FsCounters` | `Spec => []Counters` |
| `Ext4FsOneOwner` | `Spec => []OneOwner` |
| `Ext4FsTreeShape` | `Spec => []TreeShape` |
| `Ext4FsDirCounts` | `Spec => []DirCounts` |

The argument. The properties speak of what a walk from the root finds, which no command computes:
to know what a walk finds after `rm` one would have to know all it found before. `FsInv` says
instead that *there is* a set `L` of inodes that is `Good`: each owns its blocks (`Owns`), and
the entries of its directories are a `Graph` - they lead into `L` and say what is there (`Closed`),
every inode but the root is named once (`OneName`), the dots are there and lead where they should
(`DotsThere`, `DotsLead`). A leaked inode or block does no harm to it. With the same `L` the disk has
its `Tally`: every set of inodes of `L` without the root has one that is named by a directory outside
of the set (`Rooted`), and the counts of directories and links count `L` (`CountsDirs`, `CountsLinks`).
`Rooted` says that all of `L` can be reached from the root without saying by what walk, so each
command can keep it by looking at the one entry it adds or removes; it is what a `mv` of a directory
below itself breaks (`Above`, `broken`), and nothing else does. To this comes `Sane`, which does not depend
on any tree: types, extents within their limit, and counters that follow the bitmaps.

A command is taken apart three times. At the level of the disk each helper either does its work or
leaves everybody's blocks alone, whatever it has lost on the way (`Kept`, `Added`, `Removed`,
`Filled`): this is where `extent_append` fails after `alloc_block`, and where `write_file` frees
blocks it then takes again. At the level of ownership such a change `Leaves` all other inodes as
they were. At the level of the graph there are only three changes, `GraphAdd`, `GraphRemove` and
`GraphMove`, and beside each what it does to the counts. `TouchFine` to `MvFine` put them together; `MkfsGood` follows the
loop of `mkfs`.
That `.` and `..` resolve within the tree is why `DotsLead` is part of it, and why it stops
holding after `mv` has moved a directory (`moved`).

Then `TreeShape`, where the walk does come in: by induction over its levels each inode is found at one
of them and by one path (`OneNode`), since its one name is in a directory that is itself found once,
one level up; nodes and inodes are then in bijection (`AsMany`). The walk also misses nothing
(`WalkFindsAll`): it has as many levels as there are inodes, so the last one adds nothing any more
(`Saturates`), and an inode of `L` that is not found then would contradict `Rooted`. So what the walk
finds is `L`, and counting the one is counting the other: `DirCounts`. Loops (`free_extents`, `write_file`, `resolve`,
`cd`, `mkfs`) are recursive functions whose turns stay within a set (`LoopWithin`).

### Fat

`FatProofs` proves for any number of clusters, slots of a directory, depth of the current directory,
every set of names, paths and contents, any commands and a power failure after any sector write of
them, from `FatConstants` alone. That assumption is what the code has: `mkfs` has clusters and slots
for its directories, whose names differ; `.` and `..` are no names; a path has a last component,
and its components are names or dots; a directory has room for more than its dots; only the empty
file takes no cluster.

| Theorem | States |
|---|---|
| `FatInvariant` | `Spec => []FatInv`, the invariant below |
| `FatTypes` | `Spec => []TypeOK` |
| `FatChainsSound` | `Spec => []ChainsSound` |
| `FatDirsSound` | `Spec => []DirsSound` |

The argument. As with ext4 the properties speak of what a walk from the root finds, and the invariant
of a set `O` of objects, the entries of files and directories, that *is there*. `Good` has two
halves. `Base`: every object has a chain that ends, of the length its size asks for, and shares no
cluster with another. `Hangs`: the entries of the directories are the objects, and the dots lead
where they should. Clusters that nobody holds do no harm to it. Entries are read off chains, so the
lemmas about a change of the disk say which chains stay (`Spares`, for a write outside of them),
what a directory has for entries after one slot has been written, and that a directory that
grows keeps them although its new cluster is linked before it is zeroed.

Each command makes the next `O` by an object more, less, or in another place (`Changed`);
`write_file` frees the old chain, takes clusters one by one (`Took`) and writes the entry last.
`GoodSound` then gives the properties: the walk finds objects, and each of them by one path.

Power failures need the way back. What a cut command leaves is in the middle of something, and no `O`
need be `Good` for it; but the model goes on only from a disk that is `Sound`, and `SoundGood` says
that then the nodes of the walk are such an `O`. The walk of `Nodes` has as many turns as the disk
has clusters; that it misses nothing is a pigeonhole argument: a directory found in the last turn
and those above it would hold more clusters than there are (`NotSoDeep`).

### Heap

`HeapProofs` proves for every heap large enough to hold a block, every set of sizes and every set
of power-of-two alignments, and any number of allocations, from `HeapConstants` alone:

| Theorem | States |
|---|---|
| `HeapInvariant` | `Spec => []IInv` |
| `HeapTypes` | `Spec => []TypeOK`: the list and the callers name real blocks |
| `BlocksStaySound` | `Spec => []BlocksSound` |
| `NothingIsLost` | `Spec => []NothingLost`: the blocks tile the heap |
| `UsedStaysSound` | `Spec => []UsedSound` |
| `HeapImplementsAllocator` | `Spec => ImplementsAllocator`: the allocator's contract, with alignment as far as 16 bytes; every step of the heap is a step of `AbstractHeap` or leaves the mapped `live` alone |

The argument. `IInv` is `TypeOK`, `OneUse` and `Disjoint` together: that a split does not overlap
its neighbour needs the request to fit its block and the remainder to begin at a multiple of 16; that
`dealloc` finds its block from pointer and layout (`BlockOf`) needs every block in one use; and
payloads are disjoint because blocks are and each request fits its block. A pointer is a multiple
of 16 plus a multiple of its alignment, hence of the alignment its mapped layout states. Lemmas say what
`AlignUp` yields (`AlignUp16`, `OffsetFacts`), what a split leaves (sizes, order), and what
`Push` and `Unlink` keep of a list without duplicates. For `NothingIsLost` the blocks' ends are
carried along: a split puts one new begin at the end of the shortened block and keeps the old end
(`Tiled`), and every operation moves exactly one block between list and callers (`Placing`). For
`UsedStaysSound` the bytes a caller took are intervals inside disjoint blocks, so an allocation
adds its own number to the bytes in use and a release takes away no more than the size of the
block, which is what the counter subtracts.

### Console

`ConsoleProofs` proves for rings and FIFOs of every size, and any number of bytes and keys, from
`ConsoleConstants` alone:

| Theorem | States |
|---|---|
| `ConsoleInvariant` | `Spec => []IInv` |
| `ConsoleTypes` | `Spec => []TypeOK`: indices stay in their rings, and no slot is read that was never written |
| `KeysAreFaithful` | `Spec => []KeysFaithful` |
| `PortInvariant` | `Spec => []PortInv`, the invariants of the serial port below |
| `SerialIsFaithful` | `Spec => []SerialFaithful` |

The argument. The keyboard half (`KeyInv`) is that the ring is a queue: lemmas about `Held` say
that `push_byte` appends to it (`PushRaw`) and a pop takes its head (`PopRing`), and lemmas about
sequences that moving the head of one to the end of another keeps both the order and the elements
(`HandOver`, `LeaveOut`, `PutNext`). The serial half (`SerialInv`) must hold while the handler
and `drain_receiver` race for the same slots: every slot between the indices holds a byte, and the
slot that the drain is about to publish is no further from the reader than the handler's own index,
because only the reader, which is the one draining, could free slots meanwhile. That is why a publish
that overwrites the handler's index never exposes an empty slot.

For `SerialFaithful` two more invariants are needed. `OnceInv`: a byte is in one place: returned, in
one slot between the indices, in the hand of the drain, in the FIFO, or lost. It holds through
every race, because a publish that moves the handler's index back only hides bytes, and one that
moves it forward exposes the drain's own slot. `OrderInv` (`Queue`): as long as the handler has
stayed out of a drain, the slot is the handler's index and the stored byte is the one in the hand,
so that what was returned, what the ring holds, the byte in the hand and the FIFO are, one after
the other, increasing and complete but for what was lost. Each action moves the head of one part
to the end of the one before it (`PopRing`, `HandOver`, `LeaveFront`, `HandlerAppends`).

### Users

`UsersProofs` proves for every table size, every set of names, passwords, foreign files and remains of
older ones, and any number of commands, failed and cut saves, power failures, harm and boots, from
`UsersConstants` alone:

| Theorem | States |
|---|---|
| `UsersInvariant` | `Spec => []UInv`, the invariant below |
| `UsersTypes` | `Spec => []TypeOK` |
| `OneMeaning` | `Spec => []Identity` |
| `AccountsAreKept` | `Spec => AccountsSurvive` |

The argument. What is written must come back when read: `RoundTrip` says that a table that is
saved and loaded again has the same names and numbers, and every password that is plain. It
follows the loop of `load_from_fs`, whose result exists by `LoopExists`, line by line. The
invariant adds to the types of memory (`Memory`) what the disk holds while something is promised
(`Kept`: the file system is sound, and the file holds, as a file, a table with the accounts of a
promised one, also after a cut save on ext4 and after the save a boot makes of what it has just
read), and that a file marked `own` has no lines, none that make a user, or the whole of a table in
which no name and no number occurs twice (`OwnLines`). A file of any other kind may be mixed in every
way `Ragged` and `Harmed` allow; the invariant says of it only its types, and a boot that reads it
sets `foreign`. `SaveFacts`, `CutFacts` and `HarmFacts` say what each of them leaves.

### Induction over data

A theorem that takes an operator as its hypothesis is out of reach, but one that takes a *set* is
not: `Induction` proves from the well-foundedness of inclusion between finite sets that a set of numbers which
holds 0 and with every number the next is `Nat`, the same for finite sets built element by element,
and that a loop over numbers whose turns are functions has a result, which stays within whatever
its turns keep. The proofs about chains, tables, bytes and file systems use these.

### Out of the proofs

Only model-checked: `JournalSettles`, all liveness, the fairness half of the refinement
of `AbstractScheduler` (`ENABLED` is outside the prover), `EveryByteSettles`,
of `Fat` what relates two states (`NoLeak`, `CrashContained`, `NewNamesSurvive`, `ImplementsTree`),
and of `Ext4Fs` what relates two states (`SpaceReclaimed`, `ImplementsTree`): `FsInv` says what one
walk finds, not how the `L` of a state and the paths in it come from those before. No module declares a
`RECURSIVE` operator.

## 6. Not modelled, and what is left

* Errors of the disk. Both drivers report an error after bounded polling; what the device has
  done with the command by then is not in the code. A hazard in `PROJECT.json` stays without a
  property for this reason.
* The lock `rearm` holds with interrupts on (a hazard without a property, section 4): the machine
  stops only if an interrupt arrives while the two controllers are being programmed. Every other
  section under a lock that a handler or a second task takes runs with interrupts off, or before
  `sched::init`, and is one step of its module.
* The shell's line editor and history, settings and the output of commands: text.
* The ELF loader and the page guard: bytes checked and copied once at boot, before the user task
  runs.
* Framebuffer, fonts, boot log: pixels and wording. `crc32c` is a pure function.
* AHCI, ATA, PCI, APIC, ACPI, PS/2: registers, whose behaviour is that of the devices.
* Exception handlers print and halt.
* Counters that are only printed (`switches`, `allocs`, `frees`).

Next in order: `SpaceReclaimed`, by carrying from command to command which inode enters or leaves
`L`; an abstract store whose transactions are atomic, implemented by `Journal`.
