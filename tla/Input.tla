-------------------------------- MODULE Input --------------------------------
(***************************************************************************)
(* Keyboard and mouse input: the i8042 controller with one output buffer,  *)
(* edge-triggered interrupts, the handlers of kernel/src/arch/             *)
(* interrupts.rs, the queues of keyboard.rs and mouse.rs, and one reader,  *)
(* the shell (read_key_blocking) or the graphical shell (input_poll).      *)
(*                                                                         *)
(* Scancodes and mouse packets are real bytes.  A character is the code of *)
(* its key and whether it is the shifted one; the ASCII table is left out. *)
(***************************************************************************)
EXTENDS Integers, Sequences, FiniteSets, FiniteSetsExt, RingQueue

CONSTANTS
    KEYS, EVENTS,     \* QUEUE_CAPACITY of keyboard.rs and of mouse.rs
    Inputs,           \* what may be typed, what the mouse may do, and its packet_len
    Starts            \* who may read, and the interrupt flag in the kernel then

\* A keyboard sends the codes of scancode set 1; a mouse packet has nine bits
\* for each motion, one of them in its first byte.
ASSUME InputAssumption ==
    /\ KEYS \in Nat \ {0} /\ EVENTS \in Nat \ {0}
    /\ Inputs \subseteq
          [typed : Seq([code : 1 .. 88, press : BOOLEAN]),
           moved : Seq([dx : -256 .. 255, dy : -255 .. 256, wheel : -8 .. 7,
                        buttons : 0 .. 7, overflow : BOOLEAN]),
           packet_len : {3, 4}]

VARIABLES
    typed, moved,     \* what the devices will send, fixed at the start
    packet_len,       \* 3, or 4 with a wheel, as ps2::init found it
    ksent, prefixed,  \* strokes that were sent, and that the next one's prefix was
    msent,            \* bytes that the mouse has sent
    obf,              \* output buffer of the controller
    irr,              \* interrupts latched in the local APIC
    IF_,              \* the interrupt flag
    handler,          \* the handler that is running
    scancodes, mouse, packet, \* SCANCODES, and the queue and packet of MOUSE
    locked,           \* which of the two locks the reader holds
    gui, flag,        \* the reader is the graphical shell; IF in kernel code
    pc,               \* where the reader is
    keyboard,         \* shift, caps_lock, extended
    keys, events,     \* history: what the reader got
    klost, torn       \* history: scancodes were dropped, a packet was cut

vars == <<typed, moved, packet_len, ksent, prefixed, msent, obf, irr, IF_, handler, scancodes, mouse, packet, locked,
          gui, flag, pc, keyboard, keys, events, klost, torn>>
deviceVars == <<typed, moved, packet_len, ksent, prefixed, msent>>
readerVars == <<gui, flag>>
queueVars == <<scancodes, mouse, packet>>
historyVars == <<keys, events, klost, torn>>

None == [src |-> "none"]
Sources == {"keyboard", "mouse"}

-----------------------------------------------------------------------------
(* Bytes *)

\* code & 0x80
IsRelease(code) == code >= 128
Letters == 16 .. 25 \cup 30 .. 38 \cup 44 .. 50
Pairs == 2 .. 13 \cup {26, 27, 39, 40, 41, 43, 51, 52, 53, 57}
Named == [Escape |-> 1, Tab |-> 15, Enter |-> 28, Backspace |-> 14, F12 |-> 88]
Arrows == [ArrowUp |-> 72, ArrowDown |-> 80, ArrowLeft |-> 75, ArrowRight |-> 77]

NoKey == [key |-> "none"]
Special(names, code) ==
    IF \E n \in DOMAIN names : names[n] = code
    THEN [key |-> CHOOSE n \in DOMAIN names : names[n] = code]
    ELSE NoKey
Char(code, shifted) == [key |-> "Char", code |-> code, shifted |-> shifted]

\* caps lock never undoes shift
scancode_to_ascii_or(k, code) ==
    CASE code \in Letters -> Char(code, k.shift \/ k.caps_lock)
      [] code \in Pairs -> Char(code, k.shift)
      [] OTHER -> NoKey

\* Shift and caps lock undo each other on letters; other keys know only shift.
scancode_to_ascii(k, code) ==
    CASE code \in Letters -> Char(code, k.shift # k.caps_lock)
      [] code \in Pairs -> Char(code, k.shift)
      [] OTHER -> NoKey

decode_scancode(k, code) ==
    CASE code = 224 -> [k |-> [k EXCEPT !.extended = TRUE], key |-> NoKey]
      [] code # 224 /\ k.extended ->
            [k |-> [k EXCEPT !.extended = FALSE],
             key |-> IF IsRelease(code) THEN NoKey ELSE Special(Arrows, code)]
      [] ~k.extended /\ code \in {42, 54} -> [k |-> [k EXCEPT !.shift = TRUE], key |-> NoKey]
      [] ~k.extended /\ code \in {170, 182} -> [k |-> [k EXCEPT !.shift = FALSE], key |-> NoKey]
      [] ~k.extended /\ code = 58 -> [k |-> [k EXCEPT !.caps_lock = ~@], key |-> NoKey]
      [] OTHER -> [k |-> k, key |-> IF Special(Named, code) # NoKey THEN Special(Named, code)
                                    ELSE IF IsRelease(code) THEN NoKey
                                    ELSE scancode_to_ascii(k, code)]

\* byte as i8; push_byte leaves the ninth bit in the first byte alone.
Signed(b) == IF b >= 128 THEN b - 256 ELSE b

\* takes the nibble for a number without a sign
Wheel_unsigned(b) == b % 16

\* The wheel is a signed nibble.
Wheel(b) == IF b % 16 >= 8 THEN (b % 16) - 16 ELSE b % 16

\* first & 0xc0 != 0
Overflowed(first) == first >= 64

\* push_byte: the event of a whole packet.
EventOf(p) ==
    [dx |-> Signed(p[2]), dy |-> -Signed(p[3]),
     wheel |-> IF packet_len = 4 THEN Wheel(p[4]) ELSE 0,
     buttons |-> p[1] % 8]

-----------------------------------------------------------------------------
(* Devices and controller (external) *)

\* A stroke presses or releases a key; keys of the extended set have a prefix.
Extended == {Arrows[n] : n \in DOMAIN Arrows}
PrefixDue == typed[ksent + 1].code \in Extended /\ ~prefixed
StrokeByte(s) == IF s.press THEN s.code ELSE s.code + 128

Byte8(n) == n % 256
Bit3 == 8
PacketBytes(e) ==
    <<Bit3 + e.buttons + (IF e.overflow THEN 64 ELSE 0) + (IF e.dx < 0 THEN 16 ELSE 0)
        + (IF e.dy > 0 THEN 32 ELSE 0),
      Byte8(e.dx), Byte8(-e.dy), Byte8(e.wheel)>>

\* The mouse sends the first packet_len of them.
MouseByte(n) == PacketBytes(moved[(n \div packet_len) + 1])[(n % packet_len) + 1]

\* A byte fills the buffer and raises the line of its device: an edge.
Send ==
    /\ obf = None
    /\ \/ /\ ksent < Len(typed)
          /\ obf' = [src |-> "keyboard",
                     byte |-> IF PrefixDue THEN 224 ELSE StrokeByte(typed[ksent + 1])]
          /\ ksent' = IF PrefixDue THEN ksent ELSE ksent + 1
          /\ prefixed' = PrefixDue
          /\ UNCHANGED msent
       \/ /\ msent < packet_len * Len(moved)
          /\ obf' = [src |-> "mouse", byte |-> MouseByte(msent)]
          /\ msent' = msent + 1
          /\ UNCHANGED <<ksent, prefixed>>
    /\ irr' = irr \cup {obf'.src}
    /\ UNCHANGED <<typed, moved, packet_len, IF_, handler, queueVars, locked, readerVars, pc, keyboard, historyVars>>

\* Interrupts left over from ps2::init may be pending; their bytes are gone.
Init ==
    /\ \E i \in Inputs : typed = i.typed /\ moved = i.moved /\ packet_len = i.packet_len
    /\ ksent = 0 /\ prefixed = FALSE /\ msent = 0
    /\ obf = None
    /\ irr \in SUBSET Sources
    /\ handler = None
    /\ scancodes = Empty(KEYS, 0)
    /\ mouse = Empty(EVENTS, [dx |-> 0, dy |-> 0, wheel |-> 0, buttons |-> 0]) /\ packet = <<>>
    /\ locked = {}
    /\ \E s \in Starts : gui = s.gui /\ flag = s.flag /\ IF_ = s.flag
    /\ pc = "drain keys"
    /\ keyboard = [shift |-> FALSE, caps_lock |-> FALSE, extended |-> FALSE]
    /\ keys = <<>> /\ events = <<>>
    /\ klost = FALSE /\ torn = FALSE

-----------------------------------------------------------------------------
(* Interrupts *)

\* hlt ends with any interrupt.
Woken == IF pc = "asleep" THEN "key" ELSE pc

\* both vectors have the handler of the keyboard
Interrupt_one_handler ==
    /\ IF_ /\ handler = None
    /\ \E src \in irr :
          /\ irr' = irr \ {src}
          /\ handler' = [src |-> "keyboard", step |-> "read"]
    /\ IF_' = FALSE
    /\ pc' = Woken
    /\ UNCHANGED <<deviceVars, obf, queueVars, locked, readerVars, keyboard, historyVars>>

\* An interrupt gate clears the flag until iretq.
Interrupt ==
    /\ IF_ /\ handler = None
    /\ \E src \in irr :
          /\ irr' = irr \ {src}
          /\ handler' = [src |-> src, step |-> "read"]
    /\ IF_' = FALSE
    /\ pc' = Woken
    /\ UNCHANGED <<deviceVars, obf, queueVars, locked, readerVars, keyboard, historyVars>>

\* wakes nobody
TimerInterrupt_masked ==
    /\ IF_ /\ handler = None
    /\ UNCHANGED vars

\* The timer only counts, and ends a hlt.
TimerInterrupt ==
    /\ IF_ /\ handler = None /\ pc = "asleep"
    /\ pc' = Woken
    /\ UNCHANGED <<deviceVars, obf, irr, IF_, handler, queueVars, locked, readerVars, keyboard, historyVars>>

\* leaves a byte of the other device alone; its own interrupt will come.
read_interrupt_data ==
    /\ handler # None /\ handler.step = "read"
    /\ IF obf.src = handler.src
       THEN /\ handler' = [src |-> handler.src, step |-> "push", byte |-> obf.byte]
            /\ obf' = None
            /\ UNCHANGED IF_
       ELSE /\ handler' = None
            /\ IF_' = TRUE
            /\ UNCHANGED obf
    /\ UNCHANGED <<deviceVars, irr, queueVars, locked, readerVars, pc, keyboard, historyVars>>

Iret == handler' = None /\ IF_' = TRUE

\* keyboard::interrupt; with the lock held it spins for ever.
PushScancode ==
    /\ handler # None /\ handler.step = "push" /\ handler.src = "keyboard"
    /\ "keyboard" \notin locked
    /\ scancodes' = Push(KEYS, scancodes, handler.byte)
    /\ klost' = (klost \/ scancodes.len = KEYS)
    /\ Iret
    /\ UNCHANGED <<deviceVars, obf, irr, mouse, packet, locked, readerVars, pc, keyboard, keys, events, torn>>

\* push_byte: the bit that marks a first byte is looked at only there, and a
\* packet with an overflow bit is dropped.
push_byte ==
    /\ handler # None /\ handler.step = "push" /\ handler.src = "mouse"
    /\ "mouse" \notin locked
    /\ LET b == handler.byte
           p == Append(packet, b)
       IN  IF packet = <<>> /\ (b \div 8) % 2 = 0 THEN UNCHANGED <<packet, mouse>>
           ELSE IF Len(p) < packet_len THEN packet' = p /\ UNCHANGED mouse
           ELSE /\ packet' = <<>>
                /\ mouse' = IF Overflowed(p[1]) THEN mouse ELSE Push(EVENTS, mouse, EventOf(p))
    /\ Iret
    /\ UNCHANGED <<deviceVars, obf, irr, scancodes, locked, readerVars, pc, keyboard, historyVars>>

-----------------------------------------------------------------------------
(* The reader.  It runs when no handler does; without_interrupts clears    *)
(* the flag and restores it; in a system call it is clear throughout.      *)

Reader(l) == handler = None /\ pc = l

\* only takes the lock
Lock_enabled(from, queue, to) ==
    /\ Reader(from)
    /\ locked' = locked \cup {queue}
    /\ pc' = to
    /\ UNCHANGED <<deviceVars, obf, irr, IF_, handler, queueVars, readerVars, keyboard, historyVars>>

Lock(from, queue, to) ==
    /\ Reader(from)
    /\ IF_' = FALSE
    /\ locked' = locked \cup {queue}
    /\ pc' = to
    /\ UNCHANGED <<deviceVars, obf, irr, handler, queueVars, readerVars, keyboard, historyVars>>

Unlock(queue, to) ==
    /\ locked' = locked \ {queue}
    /\ pc' = to
    /\ IF_' = IF gui THEN to = "user" ELSE flag

\* input::drain before the graphical shell; shell::run drains only the keys.
DrainKeys ==
    /\ Reader("drain keys held")
    /\ scancodes' = Clear(scancodes)
    /\ klost' = (klost \/ scancodes.len > 0)
    /\ locked' = {} /\ IF_' = flag
    /\ pc' = IF gui THEN "drain mouse" ELSE "key"
    /\ UNCHANGED <<deviceVars, obf, irr, handler, mouse, packet, readerVars, keyboard, keys, events, torn>>

DrainMouse ==
    /\ Reader("drain mouse held")
    /\ mouse' = Clear(mouse) /\ packet' = <<>>
    /\ torn' = (torn \/ packet # <<>>)
    /\ locked' = {} /\ IF_' = TRUE    \* user::enter sets it
    /\ pc' = "user"
    /\ UNCHANGED <<deviceVars, obf, irr, handler, scancodes, readerVars, keyboard, keys, events, klost>>

\* int 0x80: an interrupt gate.
InputPoll ==
    /\ Reader("user")
    /\ IF_' = FALSE
    /\ pc' = "key"
    /\ UNCHANGED <<deviceVars, obf, irr, handler, queueVars, locked, readerVars, keyboard, historyVars>>

\* One round of poll_key.  A scancode that is not yet a key asks for the next.
PopKey ==
    /\ Reader("key held")
    /\ IF scancodes.len = 0
       THEN /\ Unlock("keyboard", IF gui THEN "mouse" ELSE "hlt")
            /\ UNCHANGED <<scancodes, keyboard, keys>>
       ELSE LET d == decode_scancode(keyboard, Oldest(scancodes))
            IN  /\ scancodes' = Pop(KEYS, scancodes)
                /\ keyboard' = d.k
                /\ keys' = IF d.key = NoKey THEN keys ELSE Append(keys, d.key)
                /\ Unlock("keyboard", IF gui /\ d.key # NoKey THEN "user" ELSE "key")
    /\ UNCHANGED <<deviceVars, obf, irr, handler, mouse, packet, readerVars, events, klost, torn>>

\* mouse::poll_event, when there was no key.
PopEvent ==
    /\ Reader("mouse held")
    /\ IF mouse.len = 0
       THEN UNCHANGED <<mouse, events>>
       ELSE mouse' = Pop(EVENTS, mouse) /\ events' = Append(events, Oldest(mouse))
    /\ Unlock("mouse", "user")
    /\ UNCHANGED <<deviceVars, obf, irr, handler, scancodes, packet, readerVars, keyboard, keys, klost, torn>>

\* read_key_blocking found no key: a key that arrives before this step does
\* not keep the processor awake.  The tasks that checkpoint lets run take no
\* input; Scheduler has them.
Hlt ==
    /\ Reader("hlt")
    /\ pc' = "asleep"
    /\ UNCHANGED <<deviceVars, obf, irr, IF_, handler, queueVars, locked, readerVars, keyboard, historyVars>>

Read ==
    \/ Lock("drain keys", "keyboard", "drain keys held") \/ DrainKeys
    \/ Lock("drain mouse", "mouse", "drain mouse held") \/ DrainMouse
    \/ Lock("key", "keyboard", "key held") \/ PopKey
    \/ Lock("mouse", "mouse", "mouse held") \/ PopEvent
    \/ InputPoll \/ Hlt

Handle == read_interrupt_data \/ PushScancode \/ push_byte

Next == Send \/ Interrupt \/ TimerInterrupt \/ Handle \/ Read

\* The processor runs, the timer ticks and devices send.  A pending interrupt
\* is taken as soon as the flag is set, so it cannot be passed over for ever.
Spec ==
    /\ Init /\ [][Next]_vars
    /\ WF_vars(Send) /\ SF_vars(Interrupt) /\ WF_vars(TimerInterrupt)
    /\ WF_vars(Handle) /\ WF_vars(Read)

-----------------------------------------------------------------------------
(* Properties *)

\* Type invariant, a part of KeysMatchTyped: the rings are in order.
TypeOK ==
    /\ InOrder(KEYS, scancodes) /\ scancodes.len \in 0 .. KEYS
    /\ InOrder(EVENTS, mouse) /\ mouse.len \in 0 .. EVENTS
    /\ Len(packet) < packet_len
    /\ locked \subseteq Sources /\ irr \subseteq Sources

\* A handler never finds the lock of its queue taken: on the one processor it
\* would wait for code that cannot run before it returns.
HandlersNeverSpin == handler # None => locked = {}

\* A byte in the controller is on its way to its queue: no edge is lost, so
\* input cannot stop for good, although each handler leaves bytes of the other
\* device alone.
NoStall ==
    obf # None => obf.src \in irr \/ (handler # None /\ handler.src = obf.src)

\* What typing means: shift until it is released, caps lock until pressed again.
ShiftAt(i) ==
    LET shifts == {j \in 1 .. i - 1 : typed[j].code \in {42, 54}}
    IN  shifts # {} /\ typed[Max(shifts)].press
CapsAt(i) == Cardinality({j \in 1 .. i - 1 : typed[j].code = 58 /\ typed[j].press}) % 2 = 1
KeyAt(i) ==
    LET c == typed[i].code
    IN  CASE ~typed[i].press \/ c \in {42, 54, 58} -> NoKey
          [] c \in Letters /\ typed[i].press -> Char(c, ShiftAt(i) # CapsAt(i))
          [] c \in Pairs /\ typed[i].press -> Char(c, ShiftAt(i))
          [] c \in Extended /\ typed[i].press -> Special(Arrows, c)
          [] OTHER -> Special(Named, c)
\* The strokes among the first n that make a key, and that keys is what they make.
Keyed(n) == {i \in 1 .. n : KeyAt(i) # NoKey}
KeysOf(n) ==
    /\ Len(keys) = Cardinality(Keyed(n))
    /\ \A i \in Keyed(n) : keys[Cardinality(Keyed(i))] = KeyAt(i)
KeyboardIdle == ksent = Len(typed) /\ obf = None /\ handler = None /\ scancodes.len = 0

\* The reader gets the keys that were typed, in order and with the right shift,
\* and at rest all of them, unless scancodes were dropped because the queue was
\* full or drained.
KeysMatchTyped ==
    /\ TypeOK
    /\ ~klost => /\ \E n \in 0 .. Len(typed) : KeysOf(n)
                 /\ KeyboardIdle => KeysOf(Len(typed))

\* What eight of the nine bits say: a motion of 128 or more comes out as one the
\* other way.
EightBits(n) == IF n > 127 THEN n - 256 ELSE IF n < -128 THEN n + 256 ELSE n

\* e is what the kernel makes of the report m; a motion that overflows is dropped.
Reports(e, m) ==
    /\ ~m.overflow
    /\ e.dx = EightBits(m.dx) /\ e.dy = -EightBits(-m.dy) /\ e.buttons = m.buttons
    /\ e.wheel = IF packet_len = 4 THEN m.wheel ELSE 0

\* Every mouse event that the reader gets stands for one report of the mouse, in
\* order and at most once; a full queue loses whole events.  Its buttons and
\* wheel are those of the report, and so is its motion if it fits eight bits; a
\* longer one is off by exactly 256.  This needs drain not to fall inside a
\* packet.
EventsAreReal ==
    ~torn => \E f \in [DOMAIN events -> DOMAIN moved] :
                /\ \A i, j \in DOMAIN events : i < j => f[i] < f[j]
                /\ \A i \in DOMAIN events : Reports(events[i], moved[f[i]])

\* Everything typed is read in the end, although a key may arrive between the
\* last look at the queue and hlt: by the graphical shell always, by the text
\* shell if it runs with interrupts enabled.  After /bin/init it does not, and
\* its first hlt is its last (HaltIsInterruptible in Scheduler).
AllRead == gui \/ flag => <>[](ksent = Len(typed) /\ obf = None /\ scancodes.len = 0)
=============================================================================
