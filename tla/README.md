# YOTOS in TLA+

YOTOS is a 32-bit x86 kernel with one address space, one user program at a
time, a shell, a FAT16 disk and a text screen. This directory holds TLA+ models
of the parts of it that are hard to test, the TLC configurations that check them
on small instances, and TLAPS proofs of what matters most for every instance.
Every definition is translated from the C and assembly source; `PROJECT.json`
names the lines. Paths below are those of the repository.

Contents: 1. the system; 2. the modules; 3. the runs; 4. fairness; 5. the
proofs; 6. where code and documentation disagree; 7. what is not modelled; 8. plan.

## 1. The system

There is one thread of kernel code (the shell). Its commands run to completion
before the next prompt; `exec` leaves ring 0 for a user program and comes back
when that program exits or is killed. What runs concurrently with it are two
interrupt handlers, the timer (IRQ 0) and the keyboard (IRQ 1), both through
interrupt gates, so that neither interrupts itself or the other. `int 0x80` goes
through a *trap* gate: system calls run with interrupts on.

| Component | State it keeps | Operations | Talks to |
|---|---|---|---|
| Keyboard, `drivers/keyboard.c` | ring `key_buffer`, `buf_head`, `buf_tail`; `shift`, `ctrl`, `caps` | `keyboard_handler`, `keyboard_getchar`, `keyboard_flush` | called by IRQ 1, the shell, SYS_READKEY, `cmd_exec`; calls `process_signal_kill` |
| Processes, `kernel/process.c`, `cpu.asm`, `tss.c` | `current_process`, `kill_pending`, the saved kernel context, TSS.esp0 | `process_create/run/exit/free`, `process_check_kill`, `enter_user_mode`, `kernel_resume_after_exit` | shell, system calls, both interrupt handlers |
| System calls, interrupts, `syscall.c`, `irq.c`, `isrs.c`, `drivers/timer.c` | PIC in-service bits, tick count | `syscall_handler`, `irq_dispatch`, `timer_handler`, `sleep` | user program, processes |
| Kernel heap, `kernel/kheap.c` | list of block headers in the heap | `kheap_init`, `kmalloc`, `kfree` | VFS, FAT16, processes, shell |
| Physical and virtual memory, `pmm.c`, `vmm.c` | bitmap, `_mmngr_used_blocks`; page directory and tables | allocate, free; map, unmap | ELF loader, processes |
| ELF loader, `kernel/elf.c` | `mapped_pages` of the process | `elf_load` | VFS, VMM |
| FAT16, `fs/fat16.c` | two table copies, directories, clusters (on disk); nodes (on the heap) | lookup, create, mkdir, write | VFS, ATA, heap |
| VFS, `fs/vfs.c` | mount table | `vfs_open`, dispatch | shell, FAT16 |
| Terminal, `drivers/vga.c`, `klibc/stdio.c` | row, column, screen | `terminal_putchar`, scroll, clear | shell, commands, SYS_WRITE |
| Shell, `shell/*.c` | the line being edited, `current_path` | line editor, commands, path resolution | everything |
| ATA, `drivers/ata.c` | `current_drive`; the drives' registers | `ata_init`, `ata_read_sector`, `ata_write_sector` | FAT16; two drives |
| Snake, `user/snake.c` | the snake, food, score, what is drawn | one turn of its loop | SYS_READKEY, SYS_WRITE, SYS_SLEEP |
| UART, GDT/IDT, boot, strings | device registers; tables | port I/O; set-up | |

What is hard about each, and what makes it correct (the full list is under
`hazards` in `PROJECT.json`, each at its line):

* **Keyboard.** The ring has no lock and no full test. An interrupt can come
  between any two accesses of a reader, the 256th unread key makes a full ring
  read as empty, and a kill can take a program out of SYS_READKEY between the test
  and the fetch. Correct: it is a queue; no key is read twice or out of
  order; modifier flags follow the keys.
* **Processes.** A kill is requested by one handler and taken by another, in the
  middle of whatever runs; it never returns from the interrupt it was taken in.
  Correct: what the unwinding needs is in place whenever a program runs; the
  interrupt line is acknowledged; the prompt finds nothing left over; a kill is
  taken, and of the program it was meant for.
* **Heap.** Correct: blocks tile the heap, neighbours are joined, nobody's
  bytes are somebody else's, and it fails only when nothing fits.
* **FAT16.** No journal, no recovery, no checks of results by the callers. Power
  can fail between two sector writes, the disk or the heap can be full. Correct:
  no cluster has two owners, what is referred to is not free, sizes are backed
  by clusters, other files are untouched.
* **Memory.** The boot loader's map may have holes, overlaps and ends within a
  block. A load can fail at any page, and what it had mapped stays. Correct: only
  available memory is handed out, a frame never has two users, the count is
  exact, a clean run returns all.
* **Paths.** Fixed buffers that cut, a parent found by cutting at a slash, names
  stored in two padded fields. Correct: a command goes where its argument leads,
  seen from the directory the prompt shows, and that directory exists.
* **ATA.** A drive may be missing, late, or refuse; the driver gives up after a
  number of polls and says nothing. Correct: what it reads is the sector asked
  for or zeros, what it writes goes there or nowhere, every call ends, and the
  driver settles on the drive that has a boot sector.
* **Snake.** Keys arrive between and during its moves. Correct: the snake never
  overlaps itself, and the screen shows the game.
* **Terminal.** The editor counts characters and trusts the cursor to follow,
  across row ends, scrolling and backspace, after programs that print anything.
  Correct: the line to be executed is the line on the screen.

## 2. The modules

| Module | Models | Composition |
|---|---|---|
| `KeyQueue` | the promise of the keyboard to its readers | abstract specification |
| `Keyboard` | `keyboard.c` | implements `KeyQueue` (`ImplementsQueue`) |
| `Exec` | `cmd_exec`, `process.c`, `cpu.asm`, system calls, timer and keyboard interrupts | processor, PIC, keyboard, program and shell together |
| `Allocator` | the promise of the heap to its callers | abstract specification |
| `KHeap` | `kheap.c` | implements `Allocator` (`ImplementsAllocator`) |
| `FAT16` | touch, mkdir, echo, ls and cat over `fat16.c`, the disk | shell command, VFS, driver and disk together |
| `Paths` | `path_resolve`, `path_parent_and_name`, `cd`, `vfs_open`'s walk, names in 8.3 form | shell, VFS and directory lookup together |
| `SectorStore` | the promise of the ATA driver to the file system | abstract specification |
| `ATA` | `ata.c` and two drives | implements `SectorStore` (`ImplementsStore`) |
| `Memory` | `kmain`'s set-up, `pmm.c`, `vmm.c`, `elf_load`, `process_create`, `process_free` | boot, then loader over VMM over PMM |
| `Terminal` | `vga.c`, `shell_run`'s editor, `printf`, `sys_write`, cat's output | shell, commands, program and screen |
| `Snake` | `user/snake.c` | the game, the ring its keys come from, the screen |
| `…Proofs` | theorems about `Keyboard`, `Exec`, `KHeap`, `FAT16`, `Memory`, `ATA`, `Snake`; `ShellProofs` about `Terminal` and `Paths` | extend the modules they are about |
| `MC…` | instances for TLC | extend the module they instantiate |

In each module the definitions marked *Mutant* are what a plausible bug would
make of the definition that follows them; `PROJECT.json` pairs each checked
property with one that breaks it. Variables and constants commented *history* or
*bound* are not in the code.

**Keyboard.** The handler runs with interrupts off: one action per class of
scancode (`PressModifier`, `ReleaseModifier`, `PressCapsLock`, `PressCtrlC`,
`PressKey`). The readers run with interrupts on: `keyboard_getchar` is two
actions (the test, the fetch with its increment), `keyboard_flush` is two (load
`buf_tail`, store `buf_head`). A character is the number of the press that
produced it and whether it is upper case, which is what the tables and case
conversion decide. The held keys are a history of the hardware. In the mapping to
`KeyQueue` a reader between its two accesses has already taken its character;
an overflow empties the queue and replaces the character being fetched. Of the
rest of the kernel there are `process_run`, `process_exit` and
`process_check_kill`: the shell reads and flushes while no process is current, the
program in between, and a kill on a timer tick unwinds the program out of
SYS_READKEY wherever it stands. Killed before its fetch, a reader leaves its
character in the ring (`Abandon` of the queue puts it back in front; if the ring
filled up meanwhile, that character is one too many and everything is lost).

**Exec.** `pc` is the place of the one flow of control, from the prompt through
`process_create` (`loaded`), `keyboard_flush` (`flushed`), `process_run`
(`current`, `tss`), `enter_user_mode` (`esp`), ring 3 (`user`), the system calls
(`write`, `sleep`, `exiting`, `cleared`), back in `cmd_exec` (`returned`,
`report`). Each store that a handler may come between is a step.
`TimerTick`/`TimerKill` and `KeyboardIRQ` are possible whenever the interrupt
flag is set and no line of the same or a higher priority is unacknowledged.
Pointers and saved registers are the number of the activation that set them, so
that a stale one is seen to be stale. A kernel context that is not this call's
may by luck describe the same stack frames: `kernel_resume_after_exit` then
returns or ends in `lost`, both are explored. A program makes any system call in
any order, or faults. SYS_READKEY is one step here and
two in `Keyboard`. Ticks and the product of `sleep` wrap at `Word`
(2^32): `TicksOf` is the code's arithmetic, and `SleepsLongEnough` compares what
a sleep lasted with the milliseconds asked for, as long as they fit.

**KHeap.** Addresses are integers, the list is a function from header addresses
to headers. `kmalloc` is one action per turn of its loop, `kfree` one action
with both joins. It is sequential: no interrupt handler allocates, and no kill
can be taken inside `kmalloc`, since `process_check_kill` acts only on a
program that runs (`current_process` set), and its system calls do not allocate.

**FAT16.** One action per write of a table sector, of a directory entry or of a
cluster, in the order of the code, so that `Crash` can come between any two. A
cluster of several sectors is written at once (`MkdirZero`, `Patch`,
`WriteCluster`): a crash between the sectors of one cluster is not modelled.
`fat_set_entry` writes the first copy and leaves `mirror` for the second; no other
step comes between (`At`). Directory entries and clusters are what the disk holds;
`node`, `call`, `at`, `hop` are memory and are lost in a crash. A write looks up its
cluster from the head of the chain for every piece, as the code does (`Follow`).
Entries of the last table sector past the data area exist (`Entries` larger than
`DataClusters`): they can be allocated and keep nothing, because `ata_write_sector`
drops what is past the disk. The heap has three states for the length of a command:
enough, enough for nodes but not for a cluster, none. A name is stored as
`format_name_83` makes it (another name, or refused). Which bytes a sector has
beyond its units, the dot entries and volume labels are left out. Two patches of one
cluster go to the disk as one write. Reading changes nothing and so is no action:
`fat16_vfs_read`, `fat16_vfs_readdir`, `cmd_cat` and `cmd_ls` are functions of the
disk, written as the loops of the code, and `ReadersSeeDisk` compares them at every
prompt with what the chain and the slots hold.

**Paths.** Strings are sequences of characters, because where they are cut is
the point. Each command is one step from `current_path` and the directory tree to
the next; `Resolved` is `path_resolve` with its three lengths, `Components` the
walk of `vfs_open`, `format_name_83` and `format_83` the two directions between a
name and its fields. `Letters` has every character, with no case, since `strcasecmp`
sees none; `Walk` is the loop of `vfs_open` over components, and `New` a command that
creates, refusing an empty argument (`builtins.c:217`, 241, 265). Every
command runs with a heap that has room for no, one or two nodes at once
(`Rooms`; a walk holds at most two), and what there is no room for looks absent
(`Opened`). A new entry is on the disk before `fat16_vfs_finddir` needs memory for
its node (`fat16.c:411`), so that `New` can make an entry and say that it failed, and
`echo` can make a second entry of a name that it could not open.

**ATA.** Each access to the registers is a step of the driver; `ata_wait_drq` is
one step per poll. The drives are external: `Accept`, `OpenRequest`, `Refuse` and
`Commit` happen in their own time, which is how a drive can answer after
the driver has given up. A word read when the drive has none is any word. In the
mapping to `SectorStore` a call is unclean once its command went to a drive with
a request open (`stale`); `gaveUp` remembers the only thing that leads there, and
`refused` which drives answered `ata_init` with an error.

**Memory.** The bitmap as the set of its bits; `mmap_first_free` looks only at
whole words. A page is mapped through an existing table, through a new one, or
silently not at all (`MapPage`, `MapInNewTable`, `MapNothing`). `elf_load` goes
page by page and segment by segment; it fails for want of memory or on a bad
file at any point and leaves what it mapped. `spoiled` remembers that a load did
something a clean load does not. A touch of a page that is not there halts.
`Init` is `pmmngr_init` on a memory map and the set-up of `kmain`: available
regions are freed in whole blocks (`BlocksOf`), then the kernel's region, the page
directory and the heap are taken. `pmmngr_init_region` rounds a base down
(`pmm.c:100`), so what precedes an available entry in its first block is given out
with it (`Begun`), whatever it is. The only assumption on the map is that its available
entries lie within the blocks `mem_upper` counts, which `pmm.c` never compares.

**Terminal.** `terminal_putchar` is a function of the row, the column and the
screen; every command's and program's output is a sequence of its calls, and
`printf` of the prompt is one step per character. A key of the editor is one
step. A program may print anything, backspaces included, and may be killed
between two stores of a character (`ProgramKilled`); `cmd_exec` then clears the
screen. `cat` prints what a file holds: enough backspaces take the cursor over the
first cell (`climbed`, for at most `MaxClimb` rows), where the prompt and the line
are not on the screen. `size_t` wraps at `Word`.

**Snake.** One action per step of its loop: draining the ring key by key
(`keys`), the move, and what is drawn, cell by cell of the play area. Where
`place_food` puts the food is left open among the cells it accepts. When the game
is over two lines of text are written into the play area (`snake.c:222`), over the
cells of `Text`. The score line, the border and the speed are left out.

## 3. The runs

`CHECK_DEADLOCK FALSE` is set where behaviours really end: a machine that has
halted on a fault, or the bound on commands or programs reached.

| Run | Shows | Instance, and why it is enough |
|---|---|---|
| `keyboard` | the ring implements the queue; reads in order; modifiers follow the keys | ring of 3, 5 characters: fills, overflows with a reader between its accesses, wraps more than once; a reader is killed between its accesses with the ring empty, partly full and full |
| `exec` | what ring 3 needs is in place, the prompt is clean, interrupt lines are acknowledged; kills are taken, sleeps end and last | 3 programs (the third starts from what an exit and a kill left), `Word` of 12 with a frequency of 3: products that fit, that wrap, and ticks that wrap during a sleep; ring of 2 |
| `exec_stale_kill` | violation, see 6 | 2 programs |
| `exec_unwind` | violation | 2 programs |
| `exec_keys` | violation, under fairness | 2 programs |
| `kheap` | tiling, coalescing, failing only when full, `Allocator` | 14 bytes, headers of 2, requests of 0, 1, 3, 5: up to six blocks; splits with room for exactly a header and a byte, and with one less |
| `fat16` | ownership, live links, directories, copies, losses, sizes, contents, readers, isolation | 3 commands, 1 crash, 4 entries of which one is past the data area, clusters of 2 units, six echoes of two texts (inside, at the edge of and over a cluster; a shorter text over a longer one; a name stored as another and one refused), root of 2 slots and directories of 1: the disk, the root and a directory all get full |
| `memory` | only memory is given, frames never shared, exact count, all returned, clean programs sound | 16 blocks in words of 8, a map that is all memory and one with a hole, an overlap, an entry that begins and entries that end within a block; 4 programs (one page, two segments, as many pages as `mapped_pages` holds, two segments in one page), a stack, 4 `exec`s: memory runs out at every point of a load |
| `paths` | the prompt's directory exists, `cd`, `mkdir`, `touch` and `echo` go where their argument leads, failures are told | buffers of 7, fields of 1 and 1; `cd` with every argument of up to three characters from slash, letter, dot and space that the shell can pass, and with longer ones; the commands that create with eleven chosen arguments: none, regular names, a dot at the end, an extension, a space, a name too long for its field, absolute ones, below a directory, below the parent, a slash at the end; 3 entries; a heap with room for 0, 1 or 2 nodes |
| `terminal` | line and screen agree; editing erases nothing else | 3 rows of 2 columns, lines of 4: every line spans rows, most scroll; the cursor up to one row above the screen |
| `ata` | the driver is a sector store; the probe tells which drive has a boot sector; calls end | sectors of 2 words, 3 sectors of which one is past the end, all sets of drives, with and without boot sectors, 2 polls, 3 calls: a late answer meets each kind of next call |
| `snake` | the snake is whole, never reverses, is what the screen shows | 4 by 2 cells, array of 5: the snake fills it and most of the area; a text over 2 cells |

What the properties say beyond their names: `SizeBackedUntilFull` and `LossBounded`
are stated with the conditions under which the code keeps them (no full disk; no
crash, no directory in a cluster past the data area, and one cluster for each
command that found the heap short), because without those it does not. These
conditions, and that of `EchoIsRead`, leave out what happens in the clusters past
the data area that `fat16.c:76` gives out: no property catches that (see 6).
`CdGoesWhereAsked` and `MadeWhereAsked` hold for arguments that fit, and `cd ..` and
new entries for paths of the usual form; what happens otherwise is in 6.
`FailureIsTold` says of an entry that was made exactly when the command admits it.
`ScreenShowsGame` goes on after the game is over, around the text. `NoReversal` is
about moves with one turn before them. `LineOnScreen` excepts what `cat` may do.
`OthersUntouched` and `OwnedOnce` are stated without conditions: no crash, shortage
or sequence of commands makes two files share a cluster.

The type invariants are proved for every instance (`TypeCorrect` of
each proof module), or are part of `LinksLive` and `CurrentDirExists`; a run of
their own would add nothing.

The bounds are on commands, programs, calls, keys and characters, never on the
depth of the search: TLC explores every state graph to its end. Distinct
states: `keyboard` 328,752; `exec` 273,600; `kheap` 84,482; `fat16` 356,525;
`memory` 59,536; `terminal` 2,922,563; `paths` 3,500; `ata` 237,408; `snake` 123,222.

## 4. Fairness

* `exec`, `exec_keys` (`FairSpec`): weak fairness of `KernelStep`, the kernel's
  straight-line code, which the processor executes; of the timer, which the PIT
  raises for ever; and of the keyboard interrupt once a scancode waits in the
  controller. The last two only while the interrupt flag is set: with it clear they
  are not enabled, and `exec_keys` shows exactly this. Nothing is assumed of the
  user, of the program, or of the length of a write.
* `ata`: weak fairness of the driver, which the processor executes, and of the
  drives: a busy drive comes to an end some time (`ata_wait_bsy` has no limit
  and hangs otherwise).

The other runs need none. `exec` also assumes strong fairness of `SleepDone`: the
loop of `timer_wait` reads the count many times in a tick, so a target
that the count passes again and again, as it wraps, is not missed every time.

## 5. The proofs

`tlapm` checks all proofs to the last leaf. The assumptions are the named
`ASSUME`s of the modules: sizes are positive naturals, the ring has two slots or
more, a heap holds at least a header, and the like.

* **KeyboardProofs.** `TypeCorrect`, `ModifiersReleased`, `KillGuarded`,
  `KeysReadInOrder`, and `RingIsQueue`: for every ring size the unlocked ring
  implements `KeyQueue`. `TypeOK` is inductive and carries the refinement; each
  action is mapped to an action of the queue or to a stutter by a lemma of its own
  (`StoreArrives`, `StoreOverflows`, `FetchDelivers`, `FlushLoadEmpties`,
  `FlushStoreStutters`, `KillKeepsIdle`, `KillAbandons`), and the index arithmetic
  is in `RingShape`. The order of the presses (`KeysReadInOrder`) is proved of the
  queue and not of the ring: `Ordered` says that presses increase from the last one
  returned, through the one a reader holds, to the end of what is queued, and those
  same lemmas say what each step does to the queue; `OrderPutBack` is the one for
  the character a killed reader gives back.
* **ExecProofs.** Six safety properties of `Exec`, that interrupt lines are
  acknowledged (`NoLineStuck`) among them, for any number of programs, any tick
  frequency and any width of the counter. The inductive invariant `IInv` adds what
  `process_run` has `Established` at each of its steps (a program in ring 3 has this
  because the four stores before have happened in this order and no interrupt undoes
  one), the places where `current_process` can be set (`CurrentPlaces`) and what
  `cmd_exec` has `Undone` on its way back. `SleepsAreLongEnough` needs that the
  target `sys_sleep` waits for is the one its argument gave (`SleepOK`) and the
  arithmetic of a quotient rounded up to one (`Rounding`, `LongEnough`).
* **KHeapProofs.** All safety properties of `KHeap` and the refinement of
  `Allocator`, for every heap and header size. `IInv` is typing, tiling,
  coalescing, ownership, and `Scanned`: the search has passed only blocks that do
  not fit, which is why `NULL` means full. The lemmas say what a split, a join
  and a mark do to a well-shaped list (`SplitShape`, `JoinShape`, `MarkShape`);
  `kfree` is followed through its two joins (`Freeing`).
* **FAT16Proofs.** `TypeCorrect`, `ClustersOwnedOnce`, `LinksAlwaysLive`,
  `DirectoriesAlwaysInitialised`, `CopiesAlwaysAgree`, `LossAlwaysBounded`,
  `EntriesAlwaysStay`, `OtherFilesKept`, `SizesBacked`, `EchoAlwaysRead` and
  `ReadersAlwaysSeeDisk`, for every size of table, disk and directory, every set of
  names and texts, and any number of commands and crashes. The invariant has a part
  about the disk, which a crash leaves as it is, and a part about the memory of a
  command, which a crash empties: which clusters it has marked and nothing refers
  to (`Loose`), and that the file it has open is its own. The first part is why a
  crash is harmless wherever it comes; the second is what each order of writes is
  for. Lemmas say what the writes do to a sound volume, one for each kind
  (`Marked`, `LinkedTo`, `Freed`, `SlotWritten`, `SlotsCleared`), and every action
  uses one. `CopiesInv` and `LossInv` count: entries that differ less the one being
  written, clusters lost less the ones still held. `OpenDirectory` and `PlacesOK`
  carry what the directory walk finds: entries stand only in directories, so that
  zeroing a new cluster erases none. That the first free entry and the first slot
  exist is the least-number principle (`Smallest`), from well-founded inclusion
  of finite sets.

  `OtherFilesKept`, `SizesBacked` and `EchoAlwaysRead` follow chains, whose length
  has no bound. What the walk of a chain is (`NthIn`, a recursive function of the
  table) is had from `WalkExists`, and every induction along it is the least
  counterexample of `Smallest`. From the clusters owned once follows that a chain
  meets no cluster twice and no other chain (`NoRepeat`, `ApartOK`), so what a step
  writes for the open file is nowhere in another. `PlacesStay` says that a link once
  written stays where it is: the table changes only where chains end. `EchoInv` then
  says where echo stands: `SizesOK` that every size is backed by a chain, `ShapeOK`
  and `HopOK` that the cluster at hand is the one the offset calls for, `BackOK`
  that the units up to the offset have clusters, `TextOK` that they hold the text,
  and `DoneOK` that the last call of a `write` that found room wrote everything.

  `ReadersAlwaysSeeDisk` is about three loops, each written as a recursive function
  without a bound. `Recursion` gives that such a function exists, and an
  invariant of its rounds what it comes to: a read stands at the cluster its
  offset calls for and reads at least a unit a round (`ReadSoFar`,
  `ReadRound`, `ReadIs`), `cat` puts such pieces end to end (`CatIs`), and `ls`
  goes through the numbers of the entries, of which none is skipped (`RankIs` to
  `CountIs`, `LsIs`). Reading needs nothing but the types, on however
  damaged a volume; `ls` needs the invariant `Packed`: no entry is behind a slot that
  was never used, because an entry goes to the first slot that is none and
  `mkdir` zeroes a cluster before anything is in it.
* **MemoryProofs.** `TypeCorrect`, `NoFrameShared`, `CountIsExact`, `MemoryIsGiven`,
  `EverythingComesBack` and `LoadedIsSound`, for any number of frames, layout of
  tables and set of programs, and any memory map whose available entries lie within
  the blocks counted: holes, overlaps, entries that begin or end within a block.
  `FramesOwnedOnce` and `CountExact` are inductive together with the types, and only
  together: the count stays in `0 .. Blocks` because it is the number of bits, and
  the number of bits goes down by one in `vmm_unmap_page` because a mapped frame's
  bit is set. Boot is followed from region to region. The last two theorems are for
  runs in which no load has failed, and rest on `Tidy`: page tables come first and
  are kept (`TablesFirst`), what is in use is what the map does not offer, the
  kernel, the tables and the mapped frames (`Accounted`), what is mapped is what the
  process has on record, so that its cleanup finds all of it (`Recorded`), and every
  segment loaded so far is in its pages (`SegmentsIn`). Each is what one of the
  loops of `elf_load` and of `process_cleanup` preserves.
* **ATAProofs.** `DriverIsStore`: the driver implements `SectorStore`, for every
  sector size, register width and pair of drives; with it `UncleanExplained` and
  `ProbeIsRight` (the slave exactly if it has a boot sector and let it be read). The
  inductive invariant says what each side of the handshake knows of the other
  (`asked` while the driver waits out the delay, which request is open, how many
  words have gone through), and holds for clean calls only. `AddressedBack` is the
  arithmetic: four pieces of a sector number, each cut off by a division, make it up
  again.
* **SnakeProofs.** `WholeAlways`, `NoReversalAlways`, `ScreenAlways`, for every
  play area and array length. They need one invariant: the screen shows the
  snake only because the cells of its body are distinct, and they are distinct
  because the head enters no cell but the one the tail leaves. The text of the last
  screen is any set of cells.
* **ShellProofs.** On the terminal, `LineIsShown` and `PromptIsKept`, for every size of
  screen and line and every prompt. The invariant `CursorShown` says that the cursor is
  on the screen whenever the shell has it, the prompt being printed included,
  which is why `cmd_exec`'s `terminal_initialize` matters. What rows and
  columns have to do with positions is nonlinear arithmetic and kept in two
  lemmas (`RowColumn`, `OnScreenIndex`); that a line never scrolls off above its
  beginning is the assumption on `InputSize`.

  On paths, `CurrentDirOpens`, `CdGoes`, `MadeWhere` and `FailureIsTrue`, for every
  tree of directories, size of buffer and field, and every argument, by nothing but
  the named assumptions: a component is longer than a name with both of its fields,
  and a path has room for a slash. The invariant `PathsInv` says that the path is
  absolute, fits and opens a directory, and that the entries are a tree in the order
  they were made (`TreeOK`). The rest is what the operators on strings compute. As
  recursive functions of a string they are had from the set of their domain:
  `SplitExists` and `TrailExists` give the split into components and the walk, and
  each induction along them is the least counterexample (`Smallest`). `SplitAtSlash`
  says that after a slash a path goes on as if it began there, however slashes
  stand; with `PlaceJoin`, a walk that is one after another, the path that
  `path_resolve` puts together leads where its argument leads from the current
  directory (`StepsOf`, `WalkTaken`). `CutLeads` says that what a path leads through
  before a slash opens too, which is why `cd ..`, which stores what it cut without
  opening it, does no harm to `CurrentDirExists`. `PlaceKept` says that what was
  found stays found when an entry is added. `LastComponent`, `NamesAreShort` and
  `FoundInside` relate cutting at the last slash to the last component; a component
  so long that `vfs_open` cuts it is in no directory, because no name is as long.
  `RoundTrip` says that `format_name_83` and `format_83` bring a regular name back,
  `WrittenOut` that they bring back no other: what `format_83` writes has no spaces
  at its ends and a dot only before an extension. That needs that no name field in
  the tree has a dot in it (`Dotless`, an invariant of its own).

Model-checked only: liveness (`KillTakesEffect`, `SleepReturns`, `CallsEnd`) and
anything with ENABLED, which the prover does not do. Every safety invariant and
every refinement that a run checks is also proved.

## 6. Where the code and its documentation disagree

The first three are runs that TLC finds violated.

* `exec_stale_kill`. `kill_pending` is only cleared by a kill. Ctrl+C, then the
  program exits before the next tick: the tick after the next `exec` kills a
  program for which nobody pressed a key (`process.c:27`; `keyboard.c:49`,
  `process.h:40`).
* `exec_unwind`. `process_run` sets `current_process` before `enter_user_mode`
  saves the context. A stale kill taken in between unwinds along an older
  context (`process.c:67`; `process.c:11`).
* `exec_keys`. A kill leaves the timer interrupt without restoring the flags. The
  shell goes on with interrupts off and no key reaches it; the serial line, which is
  polled, still does (`cpu.asm:251`).

Met while modelling, in the models as the code has them, without a run of their
own. On the disk:

* A write that could not extend the chain still sets the size to offset + bytes
  written: with echo's second write at offset `len` the size is `len` with nothing
  behind it (`fat16.c:575`; `vfs.h:55`). `SizeBackedUntilFull` stops there.
* `touch` and `mkdir` do not look for the name; a second entry is made and the first
  one opened (`fat16.c:504`; `vfs.h:140`).
* `fat_alloc_cluster` takes table entries past the last cluster of the disk
  (`fat16.c:76`; line 71 says "Returns 0 if the disk is full"). A directory there
  keeps no entries: `mkdir` in it loses the new directory's cluster without any
  crash, which the proof of `LossBounded` brought to light and its condition
  excludes.
* A name that ends in a dot or a space, has a space before its dot or an extension
  that begins with one is made and reported as failed, and every `echo` to it makes
  another entry (`fat16.c:161`).
* With too little heap for a node an entry is written, not found again and reported
  as failed; `echo` to a file that is there makes a second entry of its name
  (`fat16.c:411`, `builtins.c:234`).
* A drive that answers after `ata_wait_drq` gave up serves the next call:
  another sector is read as the one asked for, or a sector is written with what was
  meant for another (`ata.c:76`, `ata.c:104`; line 77: "so callers get clean data").
* With no drive on the bus a floating 0xFF reads as busy for ever (`ata.c:41`); the
  model's missing drives read as not busy.

In the shell:

* After `cd a/` the path is `/a/`, and `cd ..` leads to `/a` (`builtins.c:188`;
  line 181: "go up one level"). After slashes in a row or dots likewise; and
  `path_parent_and_name` loses one of two slashes.
* Paths longer than 255 characters are cut without a word (`builtins.c:59`).
* A file that holds backspaces takes the cursor over the top of the screen when
  `cat` prints it; the prompt is then not shown (`vga.c:125`, `builtins.c:167`).

In memory and time:

* The base of an available entry is rounded down to a block, so that memory in front
  of it is given out too (`pmm.c:100`).
* Pages past `PROCESS_MAX_PAGES` are mapped and not recorded, and stay mapped
  (`elf.c:43`; `process.h:31`).
* `mmap_first_free` never finds the last `max_blocks % 32` frames (`pmm.c:72`).
* With no frame for a page table `vmm_map_page` returns silently, and
  `process_create` succeeds (`vmm.c:44`; `process.h:25` "Returns NULL on error").
* A segment that begins in the last page of the one before replaces that page
  (`elf.c:39`; `elf.h:44`).
* Sleeps of more than 42949672 ms, and those during which the tick count wraps,
  end early (`timer.c:65`, `timer.c:74`).
* `vfs.h:102` says subdirectories are not traversed; `vfs.c:58` does.

Of the keyboard: a program killed inside `keyboard_getchar` leaves its character
unread, for the shell's editor; if the ring filled up after its test, the shell
finds an empty ring instead (`keyboard.c:79`, `process.c:82`).

In the game: two turns between two moves reverse the snake into its neck
(`snake.c:178`); once the snake fills its array the cell its tail leaves is
not cleared when it eats (`snake.c:210`).

## 7. What is not modelled, and why

* Boot, GDT, IDT, TSS descriptors, PIC and PIT set-up: straight-line code run once with
  interrupts off. Their results are the initial states.
* Of the memory map: addresses above 4 GB, which `pmm_init_available_regions` cuts
  to 32 bits. Of the identity map: its page table entries, which do not change.
* String functions other than `strlcpy`, the number formats of `printf`, colours,
  the hardware cursor, `help`, `mem`: no state, or none that anything depends on.
* A sector of a table or a directory that cannot be read: `fat_set_entry` would write
  back zeros with one entry changed. `ATA` has the failing drive, `FAT16` a
  disk that works; together they would need the disk by sectors, and every
  property of `FAT16` fails at once.
* The mount table (only `/` is ever mounted), a wrong BPB, timestamps, volume
  labels, `kcalloc` and `vmm_create_directory` (never called).
* The commands' dispatch by name; `uart_output_mode`: output only.
* `yotos_terminal.py`: a client of the serial port, outside the kernel.
* `hello.c`: a few system calls in a row; `Exec` lets a program make any.

## 8. Plan

The order was: the process life cycle with its keyboard (the only real
concurrency), then heap, disk and memory, then the terminal; after these the
ATA driver under the file system, paths, the timer's arithmetic, boot, and the one
program that reads keys. Abstract specifications were written where callers rely on
a promise: `KeyQueue`, `Allocator`, `SectorStore`. What is left:

1. `FAT16` over `SectorStore`, with sectors that cannot be read.
2. The mount table.
