----------------------------- MODULE Processes -------------------------------
(***************************************************************************)
(* The life of the two processes that the kernel runs, /bin/init in a task *)
(* of its own and then the graphical shell (kernel/src/process.rs), with   *)
(* the system calls they may make (kernel/src/arch/user.rs), on the        *)
(* address spaces of AddressSpaces and in the order of kernel_main.        *)
(*                                                                         *)
(* Nothing preempts a process: the timer only counts, so a process leaves  *)
(* user mode by int 0x80 alone.  Its arguments are any numbers.            *)
(***************************************************************************)
EXTENDS AddressSpaces

CONSTANTS
    PAGE,             \* bytes of a page
    U64,              \* 2^64: addresses are 0 .. U64 - 1
    MAX_WRITE_BYTES, PACKET_BYTES, DISPLAY_INFO_BYTES, DisplayBytes,
    Addresses, Lengths, ExitCodes, \* arguments to try
    Images,           \* sequences of [page, writable]: segments, then the stack
    MaxEvents,        \* bound: input events that arrive
    MaxIoApics,       \* bound: I/O APICs that ACPI describes
    MmioPages,        \* pages that the registers of an APIC may touch
    RingPages         \* pages of DMA memory the disk's ring may take

\* Userspace ends before the addresses do.
ASSUME ProcessesAssumption ==
    /\ PAGE \in Nat \ {0} /\ U64 \in Nat /\ USER_LIMIT * PAGE <= U64
    /\ Addresses \subseteq Nat /\ Lengths \subseteq Nat
    /\ {PACKET_BYTES, DISPLAY_INFO_BYTES} \subseteq Nat
    /\ Images \subseteq Seq([page : Nat, writable : BOOLEAN])
    /\ MaxEvents \in Nat /\ RingPages \subseteq Nat /\ MmioPages \subseteq Nat \ {0}

VARIABLES
    pc,           \* where kernel_main, or the task of /bin/init, is
    who,          \* the program being loaded or run, "init" or "gui"
    image,        \* what is left to map of it
    space,        \* process_space of the program being loaded
    kernel_space, \* the address space to return to
    processes,    \* PROCESSES: pid is the index
    current,      \* CURRENT_PID
    exit_code,    \* GENERIC_USER_EXIT_CODE
    last_exit,    \* LAST_EXIT
    apics,        \* APICs whose registers are mapped
    events,       \* input events that are queued
    call          \* the latest system call: result and the bytes it touched

procVars == <<pc, who, image, space, kernel_space, processes, current, exit_code, last_exit,
              apics, events, call>>
loadVars == <<who, image, space, kernel_space>>
runVars == <<processes, current, exit_code, last_exit, apics>>
vars == <<mmVars, procVars>>

None == "none"
NoCall == [result |-> None, address |-> 0, length |-> 0, write |-> FALSE, copied |-> FALSE]

Init ==
    /\ MMInit
    /\ pc = "mm"
    /\ who = "init" /\ image = <<>> /\ space = 0 /\ kernel_space = 0
    /\ processes = <<>> /\ current = 0 /\ exit_code = 0 /\ last_exit = 0
    /\ apics = 0 /\ events = 0
    /\ call = NoCall

-----------------------------------------------------------------------------
(* kernel_main up to the first process *)

mm_init ==
    /\ pc = "mm"
    /\ verify_physical_memory \/ take_ownership \/ map_heap \/ map_heap_page \/ map_heap_done
    /\ pc' = CASE booted' = "ready" -> "disk" [] booted' = "panic" -> "panic" [] OTHER -> "mm"
    /\ UNCHANGED <<loadVars, runVars, events, call>>

\* VirtioBlock::probe takes the ring and then a page for the request; without
\* a device, or without the memory, there is no disk.
probe_disk ==
    /\ \/ pc = "disk" /\ pc' = "apic" /\ UNCHANGED mmVars
       \/ pc = "disk" /\ pc' = "request" /\ \E n \in RingPages : allocate_dma(n)
       \/ pc = "request" /\ pc' = "apic" /\ (allocate_dma(1) \/ (free = {} /\ UNCHANGED mmVars))
    /\ UNCHANGED <<loadVars, runVars, events, call>>

\* platform::init maps the registers of the local APIC and of each I/O APIC, a
\* page of bytes that need not start on a page, or panics.
init_apic ==
    /\ pc = "apic"
    /\ \/ \E n \in MmioPages : map_mmio(n) /\ UNCHANGED <<pc, apics>>
       \/ map_mmio_page(FALSE) /\ pc' = "panic" /\ UNCHANGED apics
       \/ /\ map_mmio_page(TRUE)
          /\ IF rest' # {} THEN UNCHANGED <<pc, apics>>
             ELSE /\ apics' = apics + 1
                  /\ \/ pc' = "apic" /\ apics < MaxIoApics
                     \/ pc' = "load" /\ apics > 0
    /\ UNCHANGED <<loadVars, processes, current, exit_code, last_exit, events, call>>

\* A key or a mouse packet arrives, once interrupts are on.
Input ==
    /\ pc \notin {"mm", "disk", "request", "apic", "panic"}
    /\ events < MaxEvents
    /\ events' = events + 1
    /\ UNCHANGED <<mmVars, pc, loadVars, runVars, call>>

-----------------------------------------------------------------------------
(* init_probe and launch_graphical_shell *)

\* init_probe expects success; kernel_main carries on without a graphical shell.
Failure == IF who = "init" THEN "panic" ELSE "shell"

\* The file is read and parsed, and its address space is created.
Begin ==
    /\ pc = "load" /\ space = 0
    /\ \/ \E i \in Images :
             /\ create_user_address_space
             /\ image' = i /\ kernel_space' = cr3
             /\ space' \in DOMAIN spaces' \ DOMAIN spaces
             /\ UNCHANGED <<pc, who>>
       \/ /\ ~CanCreate \/ who = "gui"    \* out of memory, or no such program
          /\ pc' = Failure
          /\ UNCHANGED <<mmVars, loadVars>>
    /\ UNCHANGED <<runVars, events, call>>

\* load_image and the stack, one page at a time; the first error ends it.
LoadPage ==
    /\ pc = "load" /\ space # 0 /\ image # <<>>
    /\ map_user_page(space, Head(image).page, Head(image).writable)
    /\ image' = Tail(image)
    /\ pc' = IF failures' = failures THEN "load" ELSE Failure
    /\ UNCHANGED <<who, space, kernel_space, runVars, events, call>>

Process(state, exit) == [state |-> state, cr3 |-> space, exit |-> exit]

\* The process of /bin/init waits for its task, run_init_process.
Register ==
    /\ pc = "load" /\ space # 0 /\ image = <<>>
    /\ processes' = Append(processes, Process("Ready", None))
    /\ pc' = "enter"
    /\ UNCHANGED <<mmVars, loadVars, current, exit_code, last_exit, apics, events, call>>

pid == Len(processes)

\* run_init_process, or the second half of launch_graphical_shell, which drops
\* the input that nobody has read.  An interrupt may come between any two of
\* these steps.
Enter ==
    /\ pc = "enter"
    /\ processes' = [processes EXCEPT ![pid].state = "Running"]
    /\ events' = IF who = "gui" THEN 0 ELSE events
    /\ kernel_space' = cr3
    /\ pc' = "switch"
    /\ UNCHANGED <<mmVars, who, image, space, current, exit_code, last_exit, apics, call>>

Switch ==
    /\ pc = "switch"
    /\ activate_address_space(space)
    /\ pc' = "name"
    /\ UNCHANGED <<loadVars, runVars, events, call>>

\* CURRENT_PID names the process, which then runs.
SetCurrent ==
    /\ pc = "name"
    /\ current' = pid
    /\ pc' = "user"
    /\ UNCHANGED <<mmVars, loadVars, processes, exit_code, last_exit, apics, events, call>>

\* CR3 is restored before CURRENT_PID
ClearCurrent_late ==
    /\ pc = "leave"
    /\ activate_address_space(kernel_space)
    /\ pc' = "restore"
    /\ UNCHANGED <<loadVars, runVars, events, call>>

\* What follows user::enter.
ClearCurrent ==
    /\ pc = "leave"
    /\ current' = 0
    /\ pc' = "restore"
    /\ UNCHANGED <<mmVars, loadVars, processes, exit_code, last_exit, apics, events, call>>

Restore ==
    /\ pc = "restore"
    /\ activate_address_space(kernel_space)
    /\ pc' = "exited"
    /\ UNCHANGED <<loadVars, runVars, events, call>>

ENOSYS == U64 - 2

\* init_probe asserts that /bin/init returned a number of ticks above zero.
Leave ==
    /\ pc = "exited"
    /\ processes' = [processes EXCEPT ![pid].state = "Exited", ![pid].exit = exit_code]
    /\ last_exit' = exit_code
    /\ space' = 0
    /\ who' = "gui"
    /\ pc' = IF who = "gui" THEN "shell" ELSE IF exit_code \in {0, ENOSYS} THEN "panic" ELSE "load"
    /\ UNCHANGED <<mmVars, image, kernel_space, current, exit_code, apics, events, call>>

-----------------------------------------------------------------------------
(* generic_syscall_dispatch *)

\* only the first page is looked up
Accessible_first(address, length, writable) ==
    \/ length = 0
    \/ /\ address < USER_LIMIT * PAGE
       /\ address \div PAGE \in DOMAIN spaces[cr3].map
       /\ spaces[cr3].map[address \div PAGE].kind = "user"
       /\ writable => spaces[cr3].map[address \div PAGE].writable

\* validate_user_range: the last byte must exist, and every page from the
\* first to the last must be present, accessible to userspace and, if asked,
\* writable in the active tables.
Accessible(address, length, writable) ==
    \/ length = 0
    \/ LET last == address + length - 1
       IN  /\ last < U64
           /\ address < USER_LIMIT * PAGE /\ last < USER_LIMIT * PAGE
           /\ \A p \in address \div PAGE .. last \div PAGE :
                 /\ p \in DOMAIN spaces[cr3].map
                 /\ spaces[cr3].map[p].kind = "user"
                 /\ writable => spaces[cr3].map[p].writable

Refuse(error) == [NoCall EXCEPT !.result = error]

\* copy_from_user, copy_to_user and the reads of present_xrgb8888.
Copy(address, length, write, done) ==
    [result |-> IF Accessible(address, length, write) THEN done ELSE "EFAULT",
     address |-> address, length |-> length, write |-> write,
     copied |-> Accessible(address, length, write)]

\* write_current_fd: descriptors 1 and 2 of the process that is running.
FdWritable(fd) == current # 0 /\ processes[current].state = "Running" /\ fd \in {1, 2}

SysWrite(fd, address, length) ==
    IF length > MAX_WRITE_BYTES THEN Refuse("E2BIG")
    ELSE Copy(address, length, FALSE, IF FdWritable(fd) THEN "written" ELSE "EBADF")

\* usable: there is a display (one whose width or height does not fit 32 bits is
\* refused too, as EINVAL).
SysDisplayInfo(address, length, usable) ==
    IF length < DISPLAY_INFO_BYTES THEN Refuse("EINVAL")
    ELSE IF ~usable THEN Refuse("ENODEV")
    ELSE Copy(address, DISPLAY_INFO_BYTES, TRUE, "done")

SysDisplayPresent(address, length, usable) ==
    IF ~usable \/ length # DisplayBytes THEN Refuse("EINVAL") ELSE Copy(address, length, FALSE, "done")

SysInputPoll(address, length) ==
    IF length < PACKET_BYTES THEN Refuse("EINVAL")
    ELSE IF events = 0 THEN Refuse("empty")
    ELSE Copy(address, PACKET_BYTES, TRUE, "event")

\* input::poll takes the event out of its queue before it is copied.
EventsAfter(length) == IF length >= PACKET_BYTES /\ events > 0 THEN events - 1 ELSE events

\* A system call that returns.
Syscall ==
    /\ pc = "user"
    /\ \E a \in Addresses, n \in Lengths :
          \/ \E fd \in {0, 1, 3} : call' = SysWrite(fd, a, n) /\ UNCHANGED events
          \/ \E usable \in BOOLEAN :
                /\ call' \in {SysDisplayInfo(a, n, usable), SysDisplayPresent(a, n, usable)}
                /\ UNCHANGED events
          \/ /\ call' = SysInputPoll(a, n)
             /\ events' = EventsAfter(n)
    /\ UNCHANGED <<mmVars, pc, loadVars, runVars>>

SysExit ==
    /\ pc = "user"
    /\ exit_code' \in ExitCodes
    /\ pc' = "leave"
    /\ call' = NoCall
    /\ UNCHANGED <<mmVars, loadVars, processes, current, last_exit, apics, events>>

-----------------------------------------------------------------------------

Next ==
    \/ mm_init \/ probe_disk \/ init_apic \/ Input
    \/ Begin \/ LoadPage \/ Register
    \/ Enter \/ Switch \/ SetCurrent \/ ClearCurrent \/ Restore \/ Leave
    \/ Syscall \/ SysExit

Spec == Init /\ [][Next]_vars

-----------------------------------------------------------------------------
(* Properties *)

\* Type invariant.
TypeOK ==
    /\ who \in {"init", "gui"}
    /\ space \in {0} \cup Roots
    /\ current \in 0 .. Len(processes)
    /\ Len(processes) <= 2
    /\ events \in 0 .. MaxEvents

\* The variables keep their types, and CURRENT_PID, CR3 and the table of
\* processes agree at every step of entering and leaving one: CURRENT_PID names
\* a process only while it is Running on its own tables, as it does whenever
\* user mode runs; the active tables are the kernel's or those of the process
\* that is Running; and when the next one is loaded, as a clone of the active
\* tables, those are the kernel's and none is Running.
CurrentRuns ==
    LET running == {p \in DOMAIN processes : processes[p].state = "Running"}
    IN  /\ TypeOK
        /\ current # 0 => running = {current} /\ cr3 = processes[current].cr3
        /\ pc = "user" => current # 0
        /\ kernel_space # 0 => cr3 \in {kernel_space} \cup {processes[p].cr3 : p \in running}
        /\ pc \in {"load", "shell"} => running = {} /\ kernel_space \in {0, cr3}

UserFrames(r) ==
    {spaces[r].map[v].frame : v \in {w \in DOMAIN spaces[r].map : spaces[r].map[w].kind = "user"}}

\* A page of one process is in no other address space, the kernel's included,
\* although every address space is a clone of the one that was active.
UserPagesPrivate ==
    \A r, s \in Roots : r # s => UserFrames(r) \cap UserFrames(s) = {}

\* In a process's address space the kernel is mapped as in its own, device
\* memory included: interrupts and system calls run on the process's tables.
\* This depends on the order of kernel_main, since nothing updates a clone.
\* Once the heap is mapped, the guard pages on both sides of it are mapped
\* nowhere, wherever the bootloader has put its own pages.
KernelStaysMapped ==
    /\ \A p \in DOMAIN processes : \A v \in DOMAIN spaces[kernel_space].map :
          /\ v \in DOMAIN spaces[processes[p].cr3].map
          /\ spaces[processes[p].cr3].map[v] = spaces[kernel_space].map[v]
    /\ booted = "ready" => \A r \in Roots : Guards \cap DOMAIN spaces[r].map = {}

\* A process's address space is the kernel's and pages of its own.
KernelAndOwnPages == UserPagesPrivate /\ KernelStaysMapped

\* Bytes of the active address space that userspace may read, or write.
MayAccess(write) ==
    {b \in 0 .. USER_LIMIT * PAGE - 1 :
        /\ b \div PAGE \in DOMAIN spaces[cr3].map
        /\ LET leaf == spaces[cr3].map[b \div PAGE]
           IN  leaf.kind = "user" /\ (write => leaf.writable)}

\* The kernel copies on behalf of a process only to and from bytes the process
\* could access itself, and refuses with EFAULT only when one is not: whatever
\* the address, the length, page boundaries and the end of the address space.
CopiesStayInUserPages ==
    LET bytes == call.address .. call.address + call.length - 1
    IN  /\ call.copied => bytes \subseteq MayAccess(call.write)
        /\ call.result = "EFAULT" => ~(bytes \subseteq MayAccess(call.write))
=============================================================================
