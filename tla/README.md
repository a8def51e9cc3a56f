# Generic kernel: TLA+ specifications, model checking and proofs

This directory specifies the parts of the Generic kernel that hold state, checks
them with TLC on small instances and proves the central invariants with TLAPS.
Every definition is written from the Rust source; `PROJECT.json` maps each one to
the lines it stands for, lists the runs, the mutants that show each property can
fail, the hazards of the code and the theorems.

## The system

Generic is a kernel for one x86-64 CPU. `kernel_main` brings up its parts in a
fixed order: memory, block device and file systems, interrupts and input, the
scheduler, then `/bin/init` and the graphical shell, and the text console if
there is none.

| Part | Source | Module | State |
|---|---|---|---|
| Scheduler, timer, entry to ring 3 | `kernel/src/task.rs`, `arch/timer.rs`, `arch/user.rs` | `Scheduler` | modelled, proved |
| Physical memory manager | `kernel-core/src/physical.rs` | `PhysicalMemory`, `RangeTable`, `PageAllocator` | modelled, proved |
| Kernel heap | `kernel/src/mm/heap.rs` | `KernelHeap`, `RangeTable` | modelled, proved |
| Page-table clone | `kernel-core/src/page_tables.rs` | `PageTables` | modelled |
| Address spaces | `kernel/src/arch/memory.rs`, `mm/mod.rs` | `AddressSpaces` | modelled, proved |
| Processes and system calls | `kernel/src/process.rs`, `arch/user.rs`, `main.rs` | `Processes` (extends `AddressSpaces`) | partly, proved |
| ELF loading | `kernel-core/src/elf.rs`, `process.rs` | `ElfLoader` | modelled, proved |
| Interrupt routing | `arch/acpi.rs`, `arch/apic.rs` | `Apic` | modelled |
| PS/2 start-up | `arch/ps2.rs` | `Ps2` | modelled |
| Start-up of the kernel | `arch/platform.rs`, `main.rs`, `process.rs` | `Boot` (composes `Apic`, `Ps2`, `PageTables`, `ElfLoader`) | partly, partly proved |
| Virtio block driver | `kernel/src/arch/virtio_blk.rs` | `VirtioBlk` | modelled, proved |
| GenericFS | `kernel-core/src/genericfs.rs` | `GenericFs` | modelled, proved |
| Boot of the file systems | `kernel/src/vfs.rs` | `Storage` (extends `GenericFs`) | partly, proved |
| VFS, mounts, RamFs | `kernel-core/src/vfs.rs`, `kernel/src/vfs.rs` | `Vfs`, `FileTree` | modelled |
| Keyboard and mouse | `arch/keyboard.rs`, `mouse.rs`, `input.rs`, `ps2.rs` | `Input`, `RingQueue` | partly, proved |
| Framebuffer console, display | `arch/framebuffer.rs`, `arch/display.rs` | `Console`, `Terminal` | modelled |
| PSF fonts | `kernel-core/src/psf.rs` | `Psf` | modelled |
| Kernel shell | `kernel/src/shell.rs` | `Console` (line editor) | partly |
| Frame allocator of the tests, serial log, PCI scan, descriptor tables, Recontrol probe, host tools, boot chain, x128 | see `PROJECT.json` | | not modelled, see the last section |

`MC...` modules hold the values of constants for TLC, `...Proofs` modules the
theorems. Operators whose names end in a suffix after an underscore and that
stand just before the definition they vary (`Lock_enabled` before `Lock`) are
plausible mistakes in that code; the mutants in `PROJECT.json` use them.

## How the modules correspond to the code

**Scheduler.** `state`, `left`, `ctx` are the task table, `current` is
`SCHEDULER.current`, `cpu` the stack the processor is on, `pc` the place of the
running code, `IF` the interrupt flag. A section under the scheduler lock with
interrupts off is one action; picking a task and switching to it are two, because
the code enables interrupts between them. The timer interrupt may fall between
any two steps while the flag is set. Wake ticks are kept as ticks left, and the
tick counter modulo the quantum, so time is unbounded.

**PhysicalMemory, KernelHeap, RangeTable.** Both allocators keep a sorted table
of disjoint free ranges; `RangeTable` has the table operations (insert, remove,
resize, carve, release) once. `new` reads the firmware map region by region;
`allocate_pages` and `free_pages` return every error of the code, arithmetic
overflow at the top of the address space included (`AddrMax`, and `USIZE_MAX` in
the heap). `PageAllocator`
is the abstract specification: a set of free frames.

**PageTables.** The recursion of `clone_root` and `release_tree` is a stack of
calls, one step for each table entry. Sources may share tables, be cyclic or
hold bad entries, and the frame allocator may run out at any call.

**AddressSpaces, Processes.** An address space is a root frame, frames for lower
tables (one table per `Span` pages stands for the three lower levels) and leaves.
The bootloader's own pages may be anywhere (`BootMaps`). The loops that map the
heap and the registers of a device take a step for each page.
`Processes` adds `kernel_main`'s order, the process table, `CURRENT_PID`, CR3
and the system calls with arbitrary arguments. Entering a process and leaving it
are three steps each, for its state, CR3 and `CURRENT_PID` change one by one, with
interrupts in between.

**ElfLoader.** Byte `o` of a file has the value `o + 1`, so memory shows where
each byte came from. All rejections of `parse` are there; sums wrap or are
refused as in the code (`U64`).

**Apic.** A firmware table is its length, whether its checksum is right, and the
addresses or MADT entries in it. The walk from the RSDP to the MADT is the code's,
with each of its rejections; then `apic::init` writes the redirection entries, and
a pin can deliver between any two of the writes.

**Ps2.** `init` is a sequence of calls, each of which polls the controller and may
give up. The controller, the keyboard and the mouse are external: they answer when
they like, keys are pressed meanwhile, and a mouse that firmware left reporting
sends packets. `late` and `noise` record that a wait gave up or that the mouse
spoke out of turn.

**Boot.** `platform::init`, the wait for three ticks and `init_probe` in the code's
order, over the four modules: an error of any of them is a panic.

**VirtioBlk.** Each store that the device can see is a step. The device is
external: it takes, performs and answers a request at any time, before or after
the driver has given up on it, or never. `gave_up` records the first time-out.

**GenericFs, Storage.** An operation is a list of sector writes still to be made;
the machine may stop before any of them and a write may fail (`Failures`). `hidden`
records that an I/O error during the search for a name let `create` go on.
`Storage` puts `vfs::init` on top: mount or format, then the persistent marker and
README, in each of any number of boots, with users at work in between on any name,
the kernel's own included. `cut` records that a stop or a failed write hit one of
the two moments of the first boot that the code does not repair, `touched` that a
user has changed the marker.

**Vfs.** Paths are sequences of components. Every `RamFs` operation, path
normalisation with its errors and longest-prefix routing are operators; an action
is a call under the VFS lock. The last step of `write_file` may be refused, as a file
system other than `RamFs` may do. `FileTree` is the abstract specification: one tree
for each mount, and every path belongs to the deepest mount above it; a call that
fails changes nothing, or has emptied the file it was to write.

**Input.** The controller has one output buffer for two devices and an
edge-triggered interrupt for each. Handlers read the buffer and push to a ring;
the reader is the shell (poll, then `hlt`) or the graphical shell (`input_poll`
system calls). Real scancodes and packets are decoded by the code's rules. What
is typed and moved is fixed at the start and sent byte by byte: `StrokeByte`, with
the prefix of an arrow before it (`prefixed`), and `MouseByte`. What it means is
said without the decoders: a shift lasts until its release, caps lock until it is
pressed again (`KeyAt`, `KeysOf`), and an event has the numbers of the motion
(`Reports`), of whose nine bits the code reads eight (`EightBits`).

**Console, Psf, Terminal.** The frame buffer is the set of the indices that are
lit. `Console` writes characters to it cell by cell, with the stride, the padding
and the rests at the edges of the screen; fonts are built in or parsed from PSF
files by `Psf`. The shell's line editor and `present` draw on it. `Terminal` is
the abstract specification: rows of cells, each with the glyphs put into it.

## What the runs check

| Run | Properties | Instance |
|---|---|---|
| `Scheduler` | `OneTaskRuns`, `ContextsResumable`, `NoEarlyReturn`, `PanicOnlyIfBootSleeps`, `RoundRobin`, `TasksRun` | 4 tasks that may call everything the module exports |
| `PhysicalMemory` | `FreeTableSound`, `Accounting`, `NewIsExact`, `ImplementsPageAllocator` | 76 firmware maps, a table of three slots, legal and malformed calls |
| `KernelHeap` | `EveryByteOnce`, `PanicOnlyIfFull`, `NullMeansNoRoom` | 8 bytes that end just below the top of the address space, 2 slots |
| `VirtioBlk` | `OkMeansDone`, `WritesGoHome`, `Returns` | 2 sectors, indices that wrap, a device that may be late or silent |
| `Processes` | `FramesOwnedOnce`, `CurrentRuns`, `KernelAndOwnPages`, `CopiesStayInUserPages` | RAM of 1 to 24 frames, four maps of the bootloader, six programs; includes `AddressSpaces` |
| `Boot` | `RoutedAsDescribed`, `MouseInStep`, `ClonedOrUndone`, `LoadedFaithfully`, `BootEnds` | 26 machines, 3 mice, any topology of three page tables, programs with one segment of any shape or with two |
| `Storage` | `VolumeSound`, `ReadBack`, `Isolation`, `BootsAgain` | 4 inodes, 4 data sectors, the kernel's two names and one more, users on all three, stops and device errors |
| `Vfs` | `NodesSound`, `NormalizeCancels`, `StoresExactly`, `ImplementsFileTree` | 3 file systems mounted in any order |
| `Input` | `HandlersNeverSpin`, `NoStall`, `KeysMatchTyped`, `EventsAreReal`, `AllRead` | 13 pieces of typing and motion, with and without a wheel, rings of 3 and 2 |
| `Console` | `LineOnScreen`, `ImplementsTerminal` | 13 x 10 pixels, three built-in fonts, 12 font files, lines of up to 8 characters |

The comment above each property says what it means and which code it is about.
A module's type invariant is a conjunct of one of its properties.

Two runs are expected to find a violation. Each checks one statement that the
repository makes and the code does not keep:

- `SchedulerHalt` / `HaltIsInterruptible`: the exit system call returns to the
  kernel through an interrupt gate and never sets the interrupt flag again, so
  the next `hlt` of the console cannot be woken.
- `GenericFsGrow` / `WritesKeepTheRest`: growing a file past its last sector may
  choose an extent that overlaps the old one and zeroes it before copying.

Some properties are stated up to an event past which the code does not keep them:

- `OkMeansDone` and `WritesGoHome` hold until the driver first gives up on a
  request. After that it uses its DMA page again although the device may still
  be working on it, and takes a late completion for that of the next request.
- `VolumeSound` asks for unique names until an I/O error has hidden an entry from
  `create`.
- `ReadBack` leaves out files that a failed write has touched, and files moved to
  an extent that overlaps the old one, which are the subject of `GenericFsGrow`.
- `BootsAgain` leaves out first boots that were cut between the superblock and
  the root directory, or between the marker's inode and its contents: `mount`
  then finds a volume without a root, or `vfs::init` a marker that is empty, and
  every later boot panics. It also leaves out volumes whose marker a user has
  changed: no call keeps users from `/mnt/.generic-persist` (the shell's `touch`,
  `write` and `rm` take any path), and the next boot panics if it is not whole.
- `MouseInStep` leaves out starts in which a wait gave up or a mouse that firmware
  left reporting was moved: an unexpected byte is then taken for an answer. Keys
  pressed at any time are covered.
- `RoutedAsDescribed` and `BootEnds` ask that the firmware gives the three
  interrupts different pins; `route_isa_irq` does not check it, and a pin routed
  twice keeps the last vector.
- `KeysMatchTyped` leaves out runs in which scancodes were dropped or drained,
  `EventsAreReal` those in which `drain` cut a packet. `EventsAreReal` compares
  motions to within their ninth bit: `push_byte` does not read the sign bits of a
  packet, so a motion of +200 is reported as -56.
- `AllRead` leaves out the text shell that starts with interrupts masked, which is
  the subject of `SchedulerHalt`.
- `StoresExactly` lets a `write_file` that fails leave its own file empty, as the
  truncation comes first; every other file is as it was.

The comment in `arch/user.rs` that the loader guarantees a mapped entry point is
not checked: `load_image` only compares the entry with `USER_LIMIT`.

## Bounds, and why they are enough

- Tables have two to four slots, so that they are full, empty and in between in
  the same run; the proofs cover every size.
- Address arithmetic keeps a width (`AddrMax`, `USIZE_MAX`, `U64`, `Indices`, `U8`) small
  enough that overflow happens: the heap ends at the top of the address space,
  ring indices wrap, and segment ends exceed 64 bits.
- RAM sizes in `Processes` are chosen so that every allocation of the boot is the
  one that fails in some behaviour. `Span` is 2 so that both a shared and a
  missing lower table occur. The bootloader's pages keep clear of everything, lie
  in userspace, on a guard page or in the heap.
- `Boot` varies the machine or the mouse first and then the source of the clone or
  the file, each while the others are usual: the parts meet only in the order of
  the stages. The machines include one for each kind of rejection and one more
  IOAPIC than `MAX_IO_APICS`. `WAIT_LIMIT` 2 lets every wait succeed
  early, late and not at all.
- GenericFS needs extents that must move (`SectorCount`), a partly filled last
  sector (`SECTOR_SIZE` 2) and several inodes in one sector. Users
  stop once one has changed the marker (`GoOn`): the boots that follow are checked,
  more changes to such a volume are not. The proofs have no such bound.
- The rings of `Input` are smaller than what is typed and moved, so both overflow.
- The screen of `Console` leaves a rest at the right and at the bottom, has a
  stride longer than its width, and a line of `MAX_LINE` characters wraps and
  scrolls. The bitmaps of a font share no pixel, so that a glyph can be read off
  the screen. Every font fits the screen at least once.
- `MaxSleep` 2 and a quantum of 2 let sleeps end before, at and after a quantum.
- Deadlock is checked except where the program really may stop: a panic or a
  masked `hlt` (`Scheduler`), a panic (`Processes`), no device (`VirtioBlk`), or
  operations that no caller need call again (the two allocators,
  `GenericFsGrow`), or the text shell in a masked `hlt` (`Input`).

## Fairness

- `Scheduler`: weak fairness of kernel steps (the CPU runs) and of the exit of a
  program; strong fairness of the timer, which the flag masks from time to time,
  and of giving up the CPU, which a cooperative scheduler needs its tasks to do.
  `TasksRun` rests on the last, and is stated for behaviours in which interrupts
  are enabled again and again.
- `VirtioBlk`: weak fairness of the driver only. The device may never act.
- `Boot`: weak fairness of the kernel and of the timer's ticks. Keyboard, mouse
  and controller may never act: every wait for them has a limit.
- `Input`: weak fairness of devices, timer, handlers and reader. Interrupts have
  strong fairness: the reader masks and unmasks them again and again, and the
  processor takes a pending one as soon as they are unmasked.

`Input` starts either shell with the flag clear or set. As the code stands the text
shell runs with the flag clear once `/bin/init` has exited, which is the first
finding above: its first `hlt` is then its last. The safety properties hold there
too; `AllRead` is about the other three starts.

## What is proved

The proofs hold for every value of the constants that satisfies the named
assumptions. These ask for natural numbers of the right sign and, in addition:

- `RolesAssumption` (`Scheduler`): roles are sets of tasks, and the boot task does
  not exit;
- `WidthAssumption` (`PhysicalMemory`): the size of the address space is a
  multiple of every alignment, a power of two times the page size, that fits into
  it. It is 2^64 and pages are 4096 bytes;
- `HeapAssumption` (`KernelHeap`): the size of the address space is a multiple of
  every alignment asked for. It is 2^64, and alignments are powers of two;
- `StorageAssumption`: the marker's and README's names are two names, and the
  volume has room for both files: `mount` refuses one with
  fewer than two data sectors, and each text is shorter than a sector;
- `AddressSpacesAssumption`: userspace, the heap with its guard pages and device
  memory follow one another, as the constants in `mm/mod.rs` and `process.rs` do;
- `ProcessesAssumption`: userspace ends before the addresses do (2^39 and 2^64);
- `InputAssumption`: the queues have room for an element, strokes have codes of
  scancode set 1 (the arrows are the keys with a prefix), and a motion fits the
  nine bits that a packet has for it;
- `BootAssumption`: the root of the source is one of its frames, which are not
  free, and userspace ends on a page boundary below 2^64;
- `SourcesAssumption` (`Boot`): an entry of the source leads to a frame in use or
  to frame 0. The bootloader maps free memory in large pages only;
- `FilesAssumption` (`Boot`): the fields of a program header are unsigned;
- `VirtioAssumption`: there is a value to store, and the device is never as many
  requests behind as the ring indices have values.

Each proof module states its inductive invariant first.

- `RuntimeProofs`, of the scheduler: `OneTaskRunsHolds`, `ContextsResumableHolds`,
  `NoEarlyReturnHolds`, `RoundRobinHolds`, `PanicOnlyIfBootSleepsHolds`. The
  invariant `Inv` adds to the properties the shape of the table (`TableShape`,
  `IndicesValid`), what state the task that is being left is in between pick and
  switch (`LeavingState`), and that a task becomes ready only when it is due
  (`DueWhenReady`). The last theorem needs in addition that the boot task never
  exits (`BootLives`); the kernel never lets it sleep.
  Of the block driver: `OkMeansDoneHolds`, `WritesGoHomeHolds`. From the store of the
  header to the end of the call the page describes the call (`PageOfCall`), and
  until a call is given up the device is at rest, with all indices equal, except
  while the driver polls, and then works on that request (`InStep`).
- `KernelHeapProofs`, of the tables of ranges: `CarveSound` and `ReleaseSound`.
  Taking out or putting back a range keeps a table sorted and coalesced, and
  changes exactly that range. Of the heap: `EveryByteOnceHolds`, `PanicOnlyIfFullHolds`,
  `NullMeansNoRoomHolds`. `Inv` says that
  the table is sound, that live blocks are disjoint from each other and from it,
  and that `heap_free_bytes` is the cardinality of the free set; the assertions of
  `deallocate` follow from it. A free run of bytes lies in one range, because
  ranges never touch, and rounding up in no range at or below it overflows; so
  null means that there is no such run.
- `PhysicalMemoryProofs`: `FreeTableSoundHolds`. `Inv` is what the loop of `new`
  has established so far (`BuildInv`: managed ranges lie below `previous_end`)
  and what calls keep (`FreeInv`). Ordering alone is not inductive: it needs
  page alignment and that free addresses are managed ones.
  `AccountingHolds`: `CountInv` says that the two counters are the cardinalities
  of the addresses that the tables cover. Each step adds or removes a block of
  consecutive addresses that was not, or was, covered before, so that the counter
  moves by its size.
  `ImplementsPageAllocatorHolds`: every step of the
  manager is a step of the set of free frames. A run of frames is free exactly if
  it lies in one range, because neighbouring ranges never touch; so the search of
  the table finds a run whenever there is one, and `None` means that there is
  none. `free_pages` compares the counter with the total after it has changed the
  table; that this last check never refuses follows from the accounting.
  `NewIsExactHolds`: `ExactInv` says that after each region the managed addresses
  are exactly those of the whole pages inside one of the regions seen so far.
- `InputProofs`: `HandlersNeverSpinHolds`, `NoStallHolds`, `KeysMatchTypedHolds`,
  `EventsAreRealHolds`, whatever is typed and moved and however large the rings
  are. The first two need where the reader holds a lock
  (`LockInv`), and that a handler that has read its byte is no longer the one
  that a byte in the controller waits for (`EdgeInv`). `PushEnqueues` and
  `PopDequeues`: the rings of keyboard and mouse are bounded queues that drop
  their oldest element, for every capacity.
  `MouseInv`: some number of motions has arrived whole, what the reader and the
  queue have are some of these in order (`Told`), and the packet holds the first
  bytes of the next one (`Begun`). A packet gives back the low eight bits of its numbers (`PacketEvent`), and
  its first byte has bit 3 (`FirstByte`), so no byte is skipped.
  `KeyInv`: the decoder is at one point of the typing and the keyboard at a later
  one, a point being a number of strokes and whether the next one's prefix is
  past; the bytes in the queue, in the handler and in the controller, in this
  order, lead from one to the other. At its point the decoder's flags are what
  shift, caps lock and prefix are there, and the reader has the keys of the strokes
  before it. Decoding one byte leads to the next point (`DecodeStep`).
- `StorageProofs`: three results, for every volume and wherever a stop or a failed
  write cuts an operation short. `ExtentsDisjointHolds` and `IsolationHolds` rest
  on `Inv`, which says of every write still to be made that it goes to a data
  sector that belongs to no other file, that the inode comes last and that its
  extent is the file's own (`Steps`, `TodoInv`); and that the inode table is erased
  only while it is empty, before the superblock is written (`MagicInv`).
  `VolumeSoundHolds`: an entry that is still to be written has its place in the
  tree (`Fits`): its parent is a directory, and it does not replace a directory
  that has entries. That there is no cycle is said of sets: every set of entries
  has one whose parent is outside, which survives the addition of a leaf.
- `ReadBackProofs`, two more results of `Storage`.
  `ReadBackHolds`: what is still to be written, taken together, leaves the bytes
  that the operation promises (`Promised`). Each byte is either written by one of
  the writes and by no later one, or already there; copies read sectors that no
  write of the operation changes (`SourcesKept`).
  `BootsAgainHolds`: `PhaseInv` says how far the marker and README have come in
  each phase of `vfs::init`. On a volume just formatted the marker takes the first
  sectors, so README finds room behind it. All this is said until a user changes
  the marker (`touched`, which stays). Later the first gap for README may lie in front of the marker or behind it.
- `ProcessesProofs`: `FramesOwnedOnceHolds`, `CurrentRunsHolds`,
  `KernelAndOwnPagesHolds`, `CopiesStayInUserPagesHolds`, for every size of RAM,
  map of the bootloader, program and argument of a system call. Counting frames is
  not inductive; `Owned` says frame by frame where each one is, and that the free
  ones are nowhere, and the frames that nobody has are at most as many as the calls
  of `map_user_page` that failed. `MMPhase` and `ProcPhase` say how far `mm::init`
  and `kernel_main` have come, and with it whose tables are active and who is
  current between any two steps of entering and leaving. `SpacesInv` says that the tables a process is cloned
  from hold no user page, and that what they map is mapped alike in every process:
  this is kept because nothing is mapped in the kernel's tables once there is a
  process. `GuardInv`: until the heap is mapped all tables are alike, so the check
  of the active ones is a check of all. The range check of a system call, page by
  page, is one of every byte (`AccessibleBytes`).

- `BootProofs`: `ProgramLoaded`, for every file. `ElfInv` says that the segments
  before the current one, and of the current one the bytes below the current page,
  are in memory as the headers say (`There`), that the mapped bytes are those of
  whole pages below the limit, and that a byte which is not zero is in the file's
  part of a segment. That a page is loaded once follows from its being refused if
  it is mapped.

Facts that only one theorem needs are named steps of its proof (`<0>Name`).

Induction is used in one form: a set of natural numbers that is not empty has a
least element (`Least`, from the library's theorem that `<` is well-founded).
`Upwards` and `Iterate` are made from it: a set that holds 0, and k with k - 1,
holds every number, and a sequence of values exists if each follows from the one
before. With these the list of the segments to load, a recursive function, is
reasoned about step by step. The library's induction theorems take an operator as
a parameter, which the installed provers cannot instantiate.

A leaf that names no prover is for SMT (`USE SMTT(60)`). The translation to SMT is
slow where a leaf sees much of an invariant: there the conjuncts that matter are
first taken out of it by Zenon, and the arithmetic follows from these alone
(`BY ONLY`).

Only model-checked:

- all liveness (`TasksRun`, `Returns`, `BootEnds`, `AllRead`): fairness is out of
  reach of the prover;
- `RoutedAsDescribed` and `MouseInStep` of `Boot`: their invariants must follow the
  walk through the firmware's tables, and each answer that a device may still
  give, and have not been worked out;
- `ClonedOrUndone` of `Boot`: its invariant must follow every frame of the copy
  through the calls of `clone_root` and `release_tree`, and which table of the source
  each one stands for;
- the properties of `Vfs`, with `ImplementsFileTree`: its operators join functions
  with `@@` and `:>` and filter sequences with `SelectSeq`, for which the prover has
  no facts;
- the properties of `Console`, with `ImplementsTerminal`: what a line of characters
  leaves on the screen is a fold over the characters, and so is what a font file
  says.

## Not modelled, and why

In the modelled parts these are left out, as nothing that is checked depends on
them: entry flags other than present, writable and user; TLB flushes; register
save and restore; the register handshake of the block driver's `probe`; ASCII
codes and key codes; colours and pixel formats; UTF-8 decoding in font tables
(an entry of a table is a character, or bytes that are none); log output; and
errors that come before anything changes: a sector beyond the end of the disk in
`read_sector` and `write_sector`, and in `present` a frame buffer smaller than its
own dimensions. A display of more than 2^32 pixels in a row or column counts as none.

Assumed of the machine: the base of an IOAPIC's interrupts plus their number does
not overflow 32 bits.

Parts of components that are listed as `partly`:

- `vfs::init` also makes directories, unpacks the initramfs and writes and removes
  a test file on the root ramfs: once, on an empty tree, by calls that are actions
  of `Vfs`. The helpers `write_file` and `touch` are sequences of such calls.
- The shell's commands call operations that are actions of `Vfs`, `Processes` and
  `Scheduler`. Splitting a line into words and the wording of messages hold no
  state.
- A second `Keyboard` decoder lives in the graphical shell's system call. The two
  are not used at the same time, and the text shell that would take over after it
  runs with interrupts masked, the first finding above.
- In `Processes` the switch of privilege is one step; the interrupt flag across it
  is in `Scheduler`. That `/bin/init` exits within the 128 yields that
  `init_probe` grants it is taken for granted.

Not modelled at all: the bootstrap frame allocator (used by tests only), the PCI
scan and the serial log (port accesses without state), descriptor tables and
exception handlers (set once; every exception stops the kernel), the Recontrol
probe (a call of a constant function), build scripts, disk images and x128 (host
tools), the El Torito boot chain (firmware calls before the kernel), and the
instructions of `/bin/init` (`Processes` lets a program make any system call).
