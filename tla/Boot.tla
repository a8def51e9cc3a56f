-------------------------------- MODULE Boot ---------------------------------
(***************************************************************************)
(* How kernel_main gets from the firmware to the first user program:       *)
(* platform::init finds and routes the interrupts (Apic), talks to the     *)
(* keyboard and the mouse (Ps2), enables interrupts and waits for three    *)
(* ticks of the timer; process::init_probe parses /bin/init (ElfLoader),   *)
(* clones the kernel's page tables (PageTables), loads the program, maps   *)
(* its stack and yields until it has exited.  Every error is a panic.      *)
(***************************************************************************)
EXTENDS Apic, Ps2

CONSTANTS
    Levels, Indices, LIMIT, SourceFrames, FreeFrames, Root, Sources,
    Files, PAGE_SIZE, USER_LIMIT, U64, HeaderBytes, PhBytes,
    USER_STACK_BASE,
    UsualMachine, UsualMouse, UsualSource, UsualFile,  \* the other inputs while one varies
    WAIT_TICKS,               \* 3
    PROBE_YIELDS              \* 128

ASSUME BootAssumption ==
    /\ Levels \in Nat \ {0} /\ Indices \in Nat \ {0} /\ LIMIT \in Nat
    /\ FreeFrames \subseteq Nat /\ SourceFrames \cap FreeFrames = {}
    /\ Root \in SourceFrames
    /\ PAGE_SIZE \in Nat \ {0} /\ U64 \in Nat /\ HeaderBytes \in Nat
    /\ USER_LIMIT \in 0 .. U64 - 1 /\ USER_LIMIT % PAGE_SIZE = 0
    /\ UsualMachine \in Machines /\ UsualMouse \in Mice
    /\ UsualSource \in Sources /\ UsualFile \in Files

\* A frame that holds a table of the source, or that one of its entries leads
\* to, is in use: the bootloader maps free memory in large pages only.
ASSUME SourcesAssumption ==
    Sources \subseteq
        [SourceFrames -> [0 .. Indices - 1 ->
            [kind : {"absent", "large", "large reserved"}]
            \cup [kind : {"frame"}, frame : SourceFrames \cup {0}]]]

\* The fields of a header are unsigned, and ident is "ok" or the error.
ASSUME FilesAssumption ==
    \A f \in Files :
        /\ f.len \in Nat /\ f.ident # "none"
        /\ f.headers \in Seq([load : BOOLEAN, offset : Nat, vaddr : Nat, filesz : Nat, memsz : Nat,
                              align : Nat, writable : BOOLEAN, executable : BOOLEAN])

VARIABLES
    stage,
    timer,       \* whether the timer's pin delivers TIMER_VECTOR
    ticks,       \* TICKS
    yields,      \* of init_probe, waiting for /bin/init
    source, tables, stack, count, reply, outcome, panicked,           \* PageTables
    file, loading, segments, todo, page, memory, flags, load_error    \* ElfLoader

cloneVars == <<source, tables, stack, count, reply, outcome, panicked>>
elfVars == <<file, loading, segments, todo, page, memory, flags, load_error>>
vars == <<stage, timer, ticks, yields, apicVars, ps2Vars, cloneVars, elfVars>>

Clone == INSTANCE PageTables
Elf == INSTANCE ElfLoader WITH pc <- loading, error <- load_error

Init ==
    /\ stage = "apic"
    /\ timer = FALSE
    /\ ticks = 0
    /\ yields = 0
    /\ ApicInit /\ Ps2Init
    /\ machine = UsualMachine \/ mouse = UsualMouse
    /\ source = UsualSource /\ Clone!Init
    /\ file = UsualFile /\ Elf!Init

-----------------------------------------------------------------------------
(* platform::init *)

FindInterrupts ==
    /\ stage = "apic"
    /\ ApicNext
    /\ UNCHANGED <<stage, timer, ticks, yields, ps2Vars, cloneVars, elfVars>>

TimerDelivers ==
    \E w \in PinOf(Said(0).gsi) : Correct(pins[w[1]][w[2]], 1)

\* Nothing looks at the firmware's tables or at the IOAPICs again.
ApicDone ==
    /\ stage = "apic" /\ pc = "ready"
    /\ stage' = "ps2"
    /\ timer' = TimerDelivers
    /\ machine' = UsualMachine
    /\ pc' = "over" /\ root' = [address |-> 0, size |-> 0] /\ at' = 1 /\ offset' = 0
    /\ info' = Info /\ lapic' = "enabled" /\ io_apics' = 0 /\ pins' = <<>>
    /\ UNCHANGED <<writes, routed, error, ticks, yields, ps2Vars, cloneVars, elfVars>>

InitPs2 ==
    /\ stage = "ps2"
    /\ Ps2Kernel
    /\ UNCHANGED <<stage, timer, ticks, yields, apicVars, cloneVars, elfVars>>

Devices ==
    /\ stage = "ps2"
    /\ Ps2Devices
    /\ UNCHANGED <<stage, timer, ticks, yields, apicVars, cloneVars, elfVars>>

\* Interrupts are enabled: from here on the handlers of module Input have the
\* controller and the devices.
EnableInterrupts ==
    /\ stage = "ps2" /\ Ps2Done
    /\ stage' = "ticks"
    /\ polls' = 0 /\ enabled' = {} /\ config' = 0 /\ status' = {} /\ packet_len' = 3
    /\ command_byte' = 0 /\ expects' = "keyboard" /\ out' = Empty
    /\ pending' = [d \in DOMAIN pending |-> <<>>]
    /\ mouse' = UsualMouse
    /\ busy' = 0 /\ typed' = 0 /\ moved' = 0 /\ late' = FALSE /\ noise' = TRUE
    /\ UNCHANGED <<step, timer, ticks, yields, apicVars, cloneVars, elfVars>>

\* timer::interrupt
Tick ==
    /\ stage = "ticks" /\ timer /\ ticks < WAIT_TICKS
    /\ ticks' = ticks + 1
    /\ UNCHANGED <<stage, timer, yields, apicVars, ps2Vars, cloneVars, elfVars>>

\* One of the inputs of init_probe is not the usual one.  It is chosen only now
\* because nothing before depends on it.
Contents ==
    /\ stage = "ticks" /\ ticks = 1
    /\ file = UsualFile /\ source = UsualSource
    /\ \/ file' \in Files /\ UNCHANGED source
       \/ source' \in Sources /\ UNCHANGED file
    /\ UNCHANGED <<stage, timer, ticks, yields, apicVars, ps2Vars, tables, stack, count, reply,
                   outcome, panicked, loading, segments, todo, page, memory, flags, load_error>>

\* wait_ticks returns.
TicksWaited ==
    /\ stage = "ticks" /\ ticks >= WAIT_TICKS
    /\ stage' = "parse"
    /\ UNCHANGED <<timer, ticks, yields, apicVars, ps2Vars, cloneVars, elfVars>>

-----------------------------------------------------------------------------
(* init_probe *)

ParseImage ==
    /\ stage = "parse"
    /\ Elf!parse
    /\ stage' = IF loading' = "failed" THEN "panicked" ELSE "clone"
    /\ UNCHANGED <<timer, ticks, yields, apicVars, ps2Vars, cloneVars>>

CloneTables ==
    /\ stage = "clone" /\ outcome.kind = "running"
    /\ Clone!clone_root
    /\ stage' = CASE outcome'.kind = "running" -> "clone"
                  [] outcome'.kind = "Err" -> "panicked"
                  [] outcome'.kind = "Ok" -> "load"
    /\ UNCHANGED <<timer, ticks, yields, apicVars, ps2Vars, elfVars>>

LoadImage ==
    /\ stage = "load" /\ loading \notin {"loaded", "failed"}
    /\ Elf!load_image
    /\ stage' = IF loading' = "failed" THEN "panicked" ELSE "load"
    /\ UNCHANGED <<timer, ticks, yields, apicVars, ps2Vars, cloneVars>>

\* The stack's page may be one that the program asked for.
MapStack ==
    /\ stage = "load" /\ loading = "loaded"
    /\ \/ stage' = "panicked"
       \/ USER_STACK_BASE \notin DOMAIN flags /\ stage' = "probe"
    /\ UNCHANGED <<timer, ticks, yields, apicVars, ps2Vars, cloneVars, elfVars>>

\* Each yield gives the program some time, in which it may exit or not.
Probe ==
    /\ stage = "probe"
    /\ \/ yields < PROBE_YIELDS /\ yields' = yields + 1 /\ stage' \in {"probe", "up", "panicked"}
       \/ yields = PROBE_YIELDS /\ stage' = "panicked" /\ UNCHANGED yields
    /\ UNCHANGED <<timer, ticks, apicVars, ps2Vars, cloneVars, elfVars>>

\* The expect of platform::init.
ApicFailed ==
    /\ stage = "apic" /\ pc = "failed"
    /\ stage' = "panicked"
    /\ UNCHANGED <<timer, ticks, yields, apicVars, ps2Vars, cloneVars, elfVars>>

\* hlt waits for a timer interrupt that never comes.
Halted == stage = "ticks" /\ ~timer /\ UNCHANGED vars

Ended == stage \in {"up", "panicked"} /\ UNCHANGED vars

Kernel ==
    \/ FindInterrupts \/ ApicDone \/ ApicFailed \/ InitPs2 \/ EnableInterrupts \/ TicksWaited
    \/ ParseImage \/ CloneTables \/ LoadImage \/ MapStack \/ Probe

Next == Kernel \/ Devices \/ Contents \/ Tick \/ Halted \/ Ended

\* The processor runs the kernel and the timer runs; the devices are free.
Spec == Init /\ [][Next]_vars /\ WF_vars(Kernel) /\ WF_vars(Tick)

-----------------------------------------------------------------------------
(* Properties *)

\* The page tables are cloned as a whole or not at all: a failed attempt frees
\* each of its frames once, and a clone that succeeds translates as the source
\* does, with tables of its own.
ClonedOrUndone == Clone!FailureFreesAll /\ Clone!SuccessIsFaithful

\* A program that loads is in memory byte for byte as its headers say.
LoadedFaithfully == Elf!LoadedFaithfully

\* Boot comes to an end: /bin/init has run or the kernel has panicked.  Every
\* wait of ps2::init gives up, and the wait for the timer ends because its
\* interrupt is routed, unless the firmware gives two interrupts one pin.
BootEnds ==
    <>(stage \in {"up", "panicked"} \/ (stage = "apic" /\ pc = "ready" /\ ~SeparateGsis))
=============================================================================
