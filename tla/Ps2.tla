--------------------------------- MODULE Ps2 ---------------------------------
(***************************************************************************)
(* init of kernel/src/arch/ps2.rs: the kernel polls the i8042 controller,  *)
(* with interrupts off and a limit on every wait, and talks to a keyboard  *)
(* and a mouse that answer when they like, while keys are pressed and the  *)
(* mouse, if firmware left it reporting, is moved.                         *)
(***************************************************************************)
EXTENDS Integers, Sequences

CONSTANTS
    Mice,         \* the mice to try
    WAIT_LIMIT,   \* 200 000: polls before a wait gives up
    MaxBusy,      \* bound: how often the controller stays busy for a whole wait
    MaxKeys, MaxMoves  \* bounds: bytes typed and packets sent during init

VARIABLES
    step,         \* where init is
    polls,        \* iterations of the running read_data
    enabled,      \* keyboard_enabled and mouse_port_enabled
    config,       \* what read_config answered, 0 if nothing
    status,       \* Status
    packet_len,   \* of mouse.rs
    command_byte, \* the controller's configuration
    expects,      \* where the controller sends the next data byte
    out,          \* its output buffer
    pending,      \* bytes on their way to the buffer
    mouse,        \* the device
    busy, typed, moved, \* how much of the bounds is used up
    late,         \* history: a wait gave up
    noise         \* history: the mouse reported before it was told to

ps2Vars == <<step, polls, enabled, config, status, packet_len, command_byte, expects, out, pending,
             mouse, busy, typed, moved, late, noise>>
kernelVars == <<step, polls, enabled, config, status, packet_len, late>>
deviceVars == <<command_byte, expects, out, pending, mouse, busy, typed, moved, noise>>

ACK == 250
Empty == <<>>

\* The bits of the controller's configuration.
KEYBOARD_IRQ == 1
MOUSE_IRQ == 2
KEYBOARD_OFF == 16
MOUSE_OFF == 32
TRANSLATE == 64
Has(byte, bit) == (byte \div bit) % 2 = 1
With(byte, bit) == IF Has(byte, bit) THEN byte ELSE byte + bit
Without(byte, bit) == IF Has(byte, bit) THEN byte - bit ELSE byte

Ps2Init ==
    /\ step = <<"disable keyboard", 0>>
    /\ polls = 0
    /\ enabled = {}
    /\ config = 0
    /\ status = {}
    /\ packet_len = 3
    /\ command_byte = With(With(TRANSLATE, MOUSE_IRQ), KEYBOARD_IRQ)
    /\ expects = "keyboard"
    /\ \E stale \in {Empty, <<"keyboard", 30>>} : out = stale
    /\ pending = [d \in {"controller", "keyboard", "mouse"} |-> <<>>]
    /\ mouse \in Mice
    /\ busy = 0 /\ typed = 0 /\ moved = 0
    /\ late = FALSE /\ noise = FALSE

-----------------------------------------------------------------------------
(* Controller and devices (external) *)

Send(source, bytes) == pending' = [pending EXCEPT ![source] = @ \o bytes]

\* A byte of a device whose port is on, or of the controller, gets into the
\* buffer when that is free.
Deliver ==
    /\ out = Empty
    /\ \E d \in DOMAIN pending :
          /\ pending[d] # <<>>
          /\ d = "keyboard" => ~Has(command_byte, KEYBOARD_OFF)
          /\ d = "mouse" => ~Has(command_byte, MOUSE_OFF)
          /\ out' = <<d, Head(pending[d])>>
          /\ pending' = [pending EXCEPT ![d] = Tail(@)]
    /\ UNCHANGED <<kernelVars, command_byte, expects, mouse, busy, typed, moved, noise>>

PressKey ==
    /\ typed < MaxKeys
    /\ typed' = typed + 1
    /\ Send("keyboard", <<30>>)
    /\ UNCHANGED <<kernelVars, command_byte, expects, out, mouse, busy, moved, noise>>

\* A packet, one byte of which may look like an answer.
MoveMouse ==
    /\ moved < MaxMoves /\ mouse.reporting
    /\ moved' = moved + 1
    /\ Send("mouse", <<8, ACK, 0>> \o IF mouse.wheel THEN <<0>> ELSE <<>>)
    /\ noise' = (noise \/ step \notin {<<"ack", 9>>, <<"done", 0>>})
    /\ UNCHANGED <<kernelVars, command_byte, expects, out, mouse, busy, typed>>

\* A wheel mouse changes its packets when it sees three sample rates in a row.
Rated(rate) ==
    LET rates == SubSeq(Append(mouse.rates, rate), Len(mouse.rates) - 1, Len(mouse.rates) + 1)
    IN  [mouse EXCEPT !.armed = FALSE, !.rates = rates,
                      !.wheel = @ \/ (mouse.has_wheel /\ rates = <<200, 100, 80>>)]

MouseGets(byte) ==
    /\ mouse.present
    /\ mouse' =
          CASE mouse.armed /\ byte \in {200, 100, 80} -> Rated(byte)
            [] byte = 246 /\ ~mouse.armed -> [mouse EXCEPT !.reporting = FALSE]
            [] byte = 244 /\ ~mouse.armed -> [mouse EXCEPT !.reporting = TRUE]
            [] byte = 243 -> [mouse EXCEPT !.armed = TRUE]
            [] OTHER -> mouse
    /\ Send("mouse", IF byte = 242 THEN <<ACK, IF mouse.wheel THEN 3 ELSE 0>> ELSE <<ACK>>)

\* What a data byte does depends on the command before it.
DataWritten(byte) ==
    /\ \/ /\ expects = "config"
          /\ command_byte' = byte
          /\ UNCHANGED <<pending, mouse>>
       \/ /\ expects = "mouse" /\ MouseGets(byte)
          /\ UNCHANGED command_byte
       \/ /\ expects = "mouse" /\ ~mouse.present
          /\ UNCHANGED <<command_byte, pending, mouse>>
       \/ /\ expects = "keyboard"
          /\ Send("keyboard", <<ACK>>)
          /\ UNCHANGED <<command_byte, mouse>>
    /\ expects' = "keyboard"
    /\ UNCHANGED <<out, typed, moved, noise>>

CommandWritten(command) ==
    /\ command_byte' =
          CASE command = "disable keyboard" -> With(command_byte, KEYBOARD_OFF)
            [] command = "disable mouse" -> With(command_byte, MOUSE_OFF)
            [] command = "enable keyboard" -> Without(command_byte, KEYBOARD_OFF)
            [] command = "enable mouse" -> Without(command_byte, MOUSE_OFF)
            [] OTHER -> command_byte
    /\ expects' =
          CASE command = "write config" -> "config"
            [] command = "to mouse" -> "mouse"
            [] OTHER -> "keyboard"
    /\ IF command = "read config" THEN Send("controller", <<command_byte>>) ELSE UNCHANGED pending
    /\ UNCHANGED <<out, mouse, typed, moved, noise>>

-----------------------------------------------------------------------------
(* The program of init *)

\* The bytes for the mouse: set defaults, three sample rates, get id, report.
ToMouse == <<246, 243, 200, 243, 100, 243, 80, 242, 244>>

Commands == {"disable keyboard", "disable mouse", "read config", "write config",
             "enable keyboard", "enable mouse", "to mouse"}
quiet == With(Without(Without(config, KEYBOARD_IRQ), MOUSE_IRQ), TRANSLATE)
active ==
    LET lines == IF "mouse" \in enabled THEN With(quiet, MOUSE_IRQ) ELSE quiet
    IN  Without(Without(With(lines, KEYBOARD_IRQ), KEYBOARD_OFF), MOUSE_OFF)

StartMouse == IF "mouse" \in enabled THEN <<"to mouse", 1>> ELSE <<"done", 0>>
StartKeyboard == IF "keyboard" \in enabled THEN <<"scan", 0>> ELSE StartMouse

\* Where init goes on after byte k for the mouse was acknowledged or not.
AfterMouse(k, ok) ==
    CASE k = 1 /\ ~ok -> <<"done", 0>>
      [] k \in {2, 4, 6} /\ ~ok -> <<"to mouse", k + 2>>
      [] k = 8 /\ ok -> <<"id", 0>>
      [] k = 9 -> <<"done", 0>>
      [] OTHER -> <<"to mouse", k + 1>>

AfterConfig(k) == IF k = 1 THEN <<"enable keyboard", 0>> ELSE StartKeyboard

\* Where init goes on after a call that succeeded or not; k tells apart the
\* two write_config and the bytes for the mouse.
After(call, k, ok) ==
    CASE call = "disable keyboard" -> <<"disable mouse", 0>>
      [] call = "disable mouse" -> <<"flush", 0>>
      [] call = "flush" -> <<"read config", 0>>
      [] call = "read config" -> IF ok THEN <<"config", 0>> ELSE <<"write config", 1>>
      [] call = "config" -> <<"write config", 1>>
      [] call = "write config" -> IF ok THEN <<"write", k>> ELSE AfterConfig(k)
      [] call = "write" -> AfterConfig(k)
      [] call = "enable keyboard" -> <<"enable mouse", 0>>
      [] call = "enable mouse" -> <<"write config", 2>>
      [] call = "scan" -> IF ok THEN <<"scan ack", 0>> ELSE StartMouse
      [] call = "scan ack" -> StartMouse
      [] call = "to mouse" -> IF ok THEN <<"byte", k>> ELSE AfterMouse(k, FALSE)
      [] call = "byte" -> IF ok THEN <<"ack", k>> ELSE AfterMouse(k, FALSE)
      [] call = "ack" -> AfterMouse(k, ok)
      [] call = "id" -> <<"to mouse", 9>>

Call == step[1]
Here == step[2]

\* What the result of a call does to the status.
status_after(ok) ==
    CASE Call = "scan ack" /\ ok -> status \cup {"keyboard"}
      [] Call = "ack" /\ Here = 1 /\ ok -> status \cup {"mouse"}
      [] Call \in {"to mouse", "byte", "ack"} /\ Here = 9 /\ ~ok -> status \ {"mouse"}
      [] OTHER -> status

\* Called between the id and the last command for the mouse.
set_wheel_mode ==
    IF step' # <<"to mouse", 9>> THEN packet_len ELSE IF "wheel" \in status' THEN 4 ELSE 3

\* wait_input_clear: the controller may stay busy for the whole wait.
Waits(ok) ==
    \/ ok /\ UNCHANGED <<busy, late>>
    \/ ~ok /\ busy < MaxBusy /\ busy' = busy + 1 /\ late' = TRUE

\* command: one byte for the controller.
command ==
    /\ Call \in Commands
    /\ \E ok \in BOOLEAN :
          /\ Waits(ok)
          /\ IF ok THEN CommandWritten(Call)
             ELSE UNCHANGED <<command_byte, expects, out, pending, mouse, typed, moved, noise>>
          /\ enabled' = CASE Call = "enable keyboard" /\ ok -> enabled \cup {"keyboard"}
                          [] Call = "enable mouse" /\ ok -> enabled \cup {"mouse"}
                          [] OTHER -> enabled
          /\ step' = After(Call, Here, ok)
          /\ status' = status_after(ok)
    /\ packet_len' = set_wheel_mode
    /\ polls' = 0
    /\ UNCHANGED config

DataByte ==
    CASE Call = "write" /\ Here = 1 -> quiet
      [] Call = "write" /\ Here = 2 -> active
      [] Call = "scan" -> 244
      [] Call = "byte" -> ToMouse[Here]

\* write_data
write_data ==
    /\ Call \in {"write", "scan", "byte"}
    /\ \E ok \in BOOLEAN :
          /\ Waits(ok)
          /\ IF ok THEN DataWritten(DataByte)
             ELSE UNCHANGED <<command_byte, expects, out, pending, mouse, typed, moved, noise>>
          /\ step' = After(Call, Here, ok)
          /\ status' = status_after(ok)
    /\ packet_len' = set_wheel_mode
    /\ polls' = 0
    /\ UNCHANGED <<enabled, config>>

\* Up to 64 reads empty the buffer; a device that still has bytes fills it again.
flush_output ==
    /\ Call = "flush"
    /\ out' = Empty
    /\ step' = After("flush", 0, TRUE)
    /\ UNCHANGED <<polls, enabled, config, status, packet_len, late, command_byte, expects, pending,
                   mouse, busy, typed, moved, noise>>

Reads == {"config", "scan ack", "ack", "id"}
FromMouse == Call \in {"ack", "id"}
IsMouse(source) == source = "mouse"

\* What init does with an answer, or with none.
Answered(ok, byte) ==
    /\ config' = IF Call = "config" /\ ok THEN byte ELSE config
    /\ status' = IF Call = "id" /\ ok /\ byte \in {3, 4} THEN status \cup {"wheel"}
                 ELSE status_after(ok /\ byte = ACK)
    /\ step' = After(Call, Here, ok /\ (Call \in {"config", "id"} \/ byte = ACK))
    /\ packet_len' = set_wheel_mode
    /\ polls' = 0
    /\ UNCHANGED enabled

\* takes a byte of either device for the answer
read_data_any ==
    /\ Call \in Reads
    /\ \/ /\ polls < WAIT_LIMIT /\ out # Empty
          /\ out' = Empty
          /\ Answered(TRUE, out[2]) /\ UNCHANGED late
       \/ /\ polls < WAIT_LIMIT /\ out = Empty
          /\ polls' = polls + 1
          /\ UNCHANGED <<step, enabled, config, status, packet_len, late, out>>
       \/ /\ polls = WAIT_LIMIT
          /\ Answered(FALSE, 0) /\ late' = TRUE /\ UNCHANGED out
    /\ UNCHANGED <<command_byte, expects, pending, mouse, busy, typed, moved, noise>>

\* waits for the answer without a limit
read_data_spins ==
    /\ Call \in Reads
    /\ \/ /\ out # Empty /\ IsMouse(out[1]) = FromMouse
          /\ Answered(TRUE, out[2]) /\ UNCHANGED late
       \/ /\ out # Empty => IsMouse(out[1]) # FromMouse
          /\ UNCHANGED kernelVars
    /\ out' = Empty
    /\ UNCHANGED <<command_byte, expects, pending, mouse, busy, typed, moved, noise>>

\* One iteration of read_data: a byte of the other device is dropped, and any
\* byte of the right one is the answer.
read_data ==
    /\ Call \in Reads
    /\ \/ /\ polls < WAIT_LIMIT /\ out # Empty
          /\ out' = Empty
          /\ IF IsMouse(out[1]) = FromMouse
             THEN Answered(TRUE, out[2]) /\ UNCHANGED late
             ELSE polls' = polls + 1
                  /\ UNCHANGED <<step, enabled, config, status, packet_len, late>>
       \/ /\ polls < WAIT_LIMIT /\ out = Empty
          /\ polls' = polls + 1
          /\ UNCHANGED <<step, enabled, config, status, packet_len, late, out>>
       \/ /\ polls = WAIT_LIMIT
          /\ Answered(FALSE, 0) /\ late' = TRUE /\ UNCHANGED out
    /\ UNCHANGED <<command_byte, expects, pending, mouse, busy, typed, moved, noise>>

\* What init leaves behind if no wait gave up and the mouse kept quiet until it
\* was told to report: both interrupt lines on, the mouse reporting, the packet
\* length the handler will use is the one the mouse really sends, and every
\* byte of its packets still to be read, so that the handler starts in step.
MouseInStep ==
    Call = "done" /\ ~late /\ ~noise =>
        /\ "mouse" \in status /\ mouse.reporting
        /\ packet_len = IF mouse.wheel THEN 4 ELSE 3
        /\ Has(command_byte, KEYBOARD_IRQ) /\ Has(command_byte, MOUSE_IRQ)
        /\ ~Has(command_byte, KEYBOARD_OFF) /\ ~Has(command_byte, MOUSE_OFF)
        /\ Len(pending["mouse"]) + (IF out # Empty /\ out[1] = "mouse" THEN 1 ELSE 0)
              = moved * packet_len

Ps2Kernel == command \/ write_data \/ flush_output \/ read_data
Ps2Devices == Deliver \/ PressKey \/ MoveMouse
Ps2Done == Call = "done"
=============================================================================
