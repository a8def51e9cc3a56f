------------------------------ MODULE Scheduler ------------------------------
(***************************************************************************)
(* The cooperative round-robin scheduler of kernel/src/task.rs, the timer  *)
(* interrupt that feeds it (kernel/src/arch/timer.rs), the key-waiting     *)
(* loop of the console (kernel/src/arch/keyboard.rs) and the entry to and  *)
(* exit from ring 3 (kernel/src/arch/user.rs), on the one CPU.             *)
(*                                                                         *)
(* A section that runs with interrupts disabled and the scheduler locked   *)
(* is one step; the timer interrupt may fall between any two steps while   *)
(* the CPU's interrupt flag is set.  Picking the next task and switching   *)
(* to its stack are two steps, because interrupts are enabled between      *)
(* them.                                                                   *)
(*                                                                         *)
(* The code compares a wake tick only with the present tick, and the       *)
(* present tick only with multiples of the quantum.  The model therefore   *)
(* keeps the ticks left until the wake tick, and the tick count modulo the *)
(* quantum, so that time is unbounded and the state space is not.          *)
(***************************************************************************)
EXTENDS Integers, FiniteSets

CONSTANTS
    MaxTasks,     \* bound on the task table, a Vec that only grows
    MaxSleep,     \* bound on the argument of sleep_ticks
    Quantum,      \* QUANTUM_TICKS
    Sleepers,     \* tasks whose code calls sleep_ticks
    Exiters,      \* tasks whose entry function returns
    Idlers,       \* tasks whose code waits for a key
    UserTasks     \* tasks whose code enters ring 3

Slots == 0 .. MaxTasks - 1
Boot == 0
Worker == 1

ASSUME BoundsAssumption ==
    /\ MaxTasks \in Nat /\ MaxTasks >= 2
    /\ MaxSleep \in Nat
    /\ Quantum \in Nat \ {0}

\* The boot task runs kernel_main, which never returns.
ASSUME RolesAssumption ==
    /\ Sleepers \subseteq Slots
    /\ Exiters \subseteq Slots \ {Boot}
    /\ Idlers \subseteq Slots
    /\ UserTasks \subseteq Slots

VARIABLES
    len,       \* SCHEDULER.tasks.len(); INITIALIZED is len > 0
    state,     \* tasks[t].state, "Unused" for a slot not pushed yet
    left,      \* ticks until the wake tick of t's latest sleep_ticks, 0 when due
    ctx,       \* what the frame at tasks[t].rsp returns to, "None" if rsp is stale
    current,   \* SCHEDULER.current
    cpu,       \* the task whose stack the CPU is on
    pc,        \* where the code running on that stack is
    intr,      \* the CPU's interrupt flag
    resched,   \* RESCHEDULE_REQUESTED
    phase      \* TICKS % QUANTUM_TICKS

vars == <<len, state, left, ctx, current, cpu, pc, intr, resched, phase>>

States == {"Unused", "Running", "Ready", "Sleeping", "Exited"}
Frames == {"None", "Trampoline", "Call", "ExitCall"}
Points == {"body", "sleep", "switch", "exitSwitch", "trampoline", "wait",
           "waitHlt", "hlt", "idle", "user", "panic", "wild"}

initialized == len > 0
Tasks == {t \in Slots : t < len}

\* task::init is entered by the boot code after platform::init has enabled
\* interrupts; there are no tasks and the CPU is on the boot stack.
Init ==
    /\ len = 0
    /\ state = [t \in Slots |-> "Unused"]
    /\ left = [t \in Slots |-> 0]
    /\ ctx = [t \in Slots |-> "None"]
    /\ current = Boot
    /\ cpu = Boot
    /\ pc = "body"
    /\ intr = TRUE
    /\ resched = FALSE
    /\ phase \in 0 .. Quantum - 1

-----------------------------------------------------------------------------
(* The scheduler's own operations *)

\* Variants with a plausible fault, for testing the properties, precede the
\* definition they vary.

\* wakes a sleeper one tick early
wake_sleepers_early(t) ==
    IF state[t] = "Sleeping" /\ left[t] <= 1 THEN "Ready" ELSE state[t]

\* never wakes anyone
wake_sleepers_never(t) == state[t]

\* wake_sleepers: a sleeper whose wake tick has come is ready.
wake_sleepers(t) ==
    IF state[t] = "Sleeping" /\ left[t] = 0 THEN "Ready" ELSE state[t]

\* The table once the sleepers are woken and the caller is then marked s.
Marked(s) == [t \in Slots |-> IF t = current THEN s ELSE wake_sleepers(t)]

\* The offset in 1 .. len at which (current + offset) % len is i.
Offset(i) == IF i > current THEN i - current ELSE i + len - current

\* scans from current to the end of the table, without wrapping round
ReadyOthers_no_wrap(st) == {t \in Tasks : t > current /\ st[t] = "Ready"}

\* scans one task too many and comes back to current
ReadyOthers_whole_circle(st) == {t \in Tasks : st[t] = "Ready"}

ReadyOthers(st) == {t \in Tasks : t # current /\ st[t] = "Ready"}

\* scans from slot 0 instead of from current
next_ready_from_zero(st, i) ==
    /\ i \in ReadyOthers(st)
    /\ \A u \in ReadyOthers(st) : i <= u

\* next_ready returns i: the first ready task after current, never current.
next_ready(st, i) ==
    /\ i \in ReadyOthers(st)
    /\ \A u \in ReadyOthers(st) : Offset(i) <= Offset(u)

\* The tail of yield_now, sleep_ticks and exit_current once next_ready has
\* answered: the next task runs, and the switch to its stack is still to come.
Dispatch(st, point) ==
    \E next \in Tasks :
        /\ next_ready(st, next)
        /\ state' = [st EXCEPT ![next] = "Running"]
        /\ current' = next
        /\ pc' = point

\* task::init: the boot task and the kernel worker.
init ==
    /\ pc = "body" /\ cpu = Boot /\ ~initialized
    /\ len' = 2
    /\ state' = [state EXCEPT ![Boot] = "Running", ![Worker] = "Ready"]
    /\ ctx' = [ctx EXCEPT ![Worker] = "Trampoline"]
    /\ current' = Boot
    /\ UNCHANGED <<left, cpu, pc, intr, resched, phase>>

\* spawn: push a ready task whose stack holds a frame for task_trampoline.
spawn ==
    /\ pc = "body" /\ initialized
    /\ len < MaxTasks
    /\ len' = len + 1
    /\ state' = [state EXCEPT ![len] = "Ready"]
    /\ ctx' = [ctx EXCEPT ![len] = "Trampoline"]
    /\ UNCHANGED <<left, current, cpu, pc, intr, resched, phase>>

\* The section of yield_now between disabling and restoring interrupts.
\* The flag is restored on both ways out, so the section leaves it alone.
Yield ==
    LET own == wake_sleepers(current)
        st == Marked(IF own = "Running" THEN "Ready" ELSE own)
    IN  /\ \/ /\ ReadyOthers(st) = {}
              /\ state' = [st EXCEPT ![current] = "Running"]
              /\ pc' = "body"
              /\ UNCHANGED current
           \/ Dispatch(st, "switch")
        /\ UNCHANGED <<len, left, ctx, cpu, intr, phase>>

yield_now ==
    /\ pc = "body" /\ initialized
    /\ Yield
    /\ UNCHANGED resched

\* checkpoint: yield only if the timer has asked for it since the last time.
checkpoint ==
    /\ pc \in {"body", "idle"}
    /\ \/ /\ resched /\ initialized
          /\ resched' = FALSE
          /\ Yield
       \/ /\ ~resched
          /\ pc' = "body"
          /\ UNCHANGED <<len, state, left, ctx, current, cpu, intr, resched, phase>>

\* sleep_ticks up to the computation of the wake tick, which happens before
\* interrupts are disabled: a tick may pass before the task is put to sleep.
sleep_ticks(n) ==
    /\ pc = "body" /\ cpu \in Sleepers
    /\ n > 0                       \* sleep_ticks(0) is yield_now
    /\ left' = [left EXCEPT ![cpu] = n]
    /\ pc' = IF initialized THEN "sleep" ELSE "wait"
    /\ UNCHANGED <<len, state, ctx, current, cpu, intr, resched, phase>>

\* The rest of sleep_ticks: sleepers are woken first, then the caller sleeps.
\* With no other ready task the caller stays Running and waits by itself.
Sleep ==
    /\ pc = "sleep"
    /\ LET st == Marked("Sleeping")
       IN  \/ /\ ReadyOthers(st) = {}
              /\ state' = [st EXCEPT ![current] = "Running"]
              /\ pc' = "wait"
              /\ UNCHANGED current
           \/ Dispatch(st, "switch")
    /\ UNCHANGED <<len, left, ctx, cpu, intr, resched, phase>>

\* The loop of wait_ticks and of a lone sleeper: test the clock, else halt.
wait_ticks ==
    /\ pc = "wait"
    /\ pc' = IF left[cpu] = 0 THEN "body" ELSE "waitHlt"
    /\ UNCHANGED <<len, state, left, ctx, current, cpu, intr, resched, phase>>

\* exit_current: panics if no other task is ready.  A panic masks interrupts
\* and halts the CPU.
exit_current ==
    /\ pc = "body" /\ initialized /\ cpu \in Exiters
    /\ LET st == Marked("Exited")
       IN  \/ /\ ReadyOthers(st) = {}
              /\ state' = st
              /\ pc' = "panic"
              /\ intr' = FALSE
              /\ UNCHANGED current
           \/ Dispatch(st, "exitSwitch") /\ UNCHANGED intr
    /\ UNCHANGED <<len, left, ctx, cpu, resched, phase>>

\* generic_context_switch: save the frame of the stack the CPU is on, resume
\* from the frame of the task that was picked.  The interrupt flag is not
\* part of a frame.
generic_context_switch ==
    /\ pc \in {"switch", "exitSwitch"}
    /\ ctx' = [ctx EXCEPT ![cpu] = IF pc = "switch" THEN "Call" ELSE "ExitCall",
                          ![current] = "None"]
    /\ cpu' = current
    /\ pc' = CASE ctx[current] = "Trampoline" -> "trampoline"
               [] ctx[current] = "Call"       -> "body"
               [] ctx[current] = "ExitCall"   -> "panic"
               [] OTHER                       -> "wild"
    /\ UNCHANGED <<len, state, left, current, intr, resched, phase>>

\* task_trampoline: call the entry function of the scheduler's current task;
\* the boot task has none.
task_trampoline ==
    /\ pc = "trampoline"
    /\ pc' = IF current = Boot THEN "panic" ELSE "body"
    /\ intr' = IF current = Boot THEN FALSE ELSE intr
    /\ UNCHANGED <<len, state, left, ctx, current, cpu, resched, phase>>

-----------------------------------------------------------------------------
(* Task code around the scheduler, and interrupts *)

\* read_key_blocking with an empty queue, after its checkpoint: halt.
Halt ==
    /\ pc = "body" /\ initialized /\ cpu \in Idlers
    /\ pc' = "hlt"
    /\ UNCHANGED <<len, state, left, ctx, current, cpu, intr, resched, phase>>

\* user::enter: IRETQ to ring 3 with the interrupt flag forced on.
enter ==
    /\ pc = "body" /\ initialized /\ cpu \in UserTasks
    /\ pc' = "user"
    /\ intr' = TRUE
    /\ UNCHANGED <<len, state, left, ctx, current, cpu, resched, phase>>

\* SYS_EXIT: int 0x80 is an interrupt gate, which masks interrupts; the exit
\* path returns from user::enter without unmasking them.
SysExit ==
    /\ pc = "user"
    /\ pc' = "body"
    /\ intr' = FALSE
    /\ UNCHANGED <<len, state, left, ctx, current, cpu, resched, phase>>

\* An interrupt ends a HLT.
Resume == CASE pc = "waitHlt" -> "wait"
            [] pc = "hlt"     -> "idle"
            [] OTHER          -> pc

\* picks the next task itself, and leaves the switch to the next checkpoint
TimerInterrupt_preempts ==
    /\ intr
    /\ phase' = (phase + 1) % Quantum
    /\ left' = [t \in Slots |-> IF left[t] > 0 THEN left[t] - 1 ELSE 0]
    /\ resched' = TRUE
    /\ IF initialized /\ pc = "body" /\ ReadyOthers(Marked("Ready")) # {}
       THEN Dispatch(Marked("Ready"), pc)
       ELSE pc' = Resume /\ UNCHANGED <<state, current>>
    /\ UNCHANGED <<len, ctx, cpu, intr>>

\* The timer handler: count the tick, and ask for a reschedule every quantum.
TimerInterrupt ==
    /\ intr
    /\ phase' = (phase + 1) % Quantum
    /\ left' = [t \in Slots |-> IF left[t] > 0 THEN left[t] - 1 ELSE 0]
    /\ resched' = (resched \/ (initialized /\ phase' = 0))
    /\ pc' = Resume
    /\ UNCHANGED <<len, state, ctx, current, cpu, intr>>

\* A keyboard or mouse interrupt that ends a HLT early.
DeviceInterrupt ==
    /\ intr /\ pc \in {"waitHlt", "hlt"}
    /\ pc' = Resume
    /\ UNCHANGED <<len, state, left, ctx, current, cpu, intr, resched, phase>>

Next ==
    \/ init
    \/ spawn
    \/ yield_now
    \/ checkpoint
    \/ \E n \in 1 .. MaxSleep : sleep_ticks(n)
    \/ Sleep
    \/ wait_ticks
    \/ exit_current
    \/ generic_context_switch
    \/ task_trampoline
    \/ Halt
    \/ enter
    \/ SysExit
    \/ TimerInterrupt
    \/ DeviceInterrupt

Spec == Init /\ [][Next]_vars
-----------------------------------------------------------------------------
(* Properties *)

\* Type invariant.
TypeOK ==
    /\ len \in 0 .. MaxTasks
    /\ state \in [Slots -> States]
    /\ left \in [Slots -> 0 .. MaxSleep]
    /\ ctx \in [Slots -> Frames]
    /\ current \in Slots
    /\ cpu \in Slots
    /\ pc \in Points
    /\ intr \in BOOLEAN
    /\ resched \in BOOLEAN
    /\ phase \in 0 .. Quantum - 1

\* Whenever the scheduler's lock is free, exactly one task is marked Running
\* and it is SCHEDULER.current, whichever of yield_now, sleep_ticks,
\* exit_current and their early returns ran last.
OneRunning ==
    initialized /\ pc # "panic" =>
        \A t \in Slots : state[t] = "Running" <=> t = current

\* Between picking a task and switching to it the CPU is still on the old
\* task's stack with interrupts enabled; at every other point the code that
\* runs belongs to SCHEDULER.current, which is what task_trampoline,
\* yield_now, sleep_ticks and exit_current take for granted.
ExecutingIsCurrent ==
    pc \notin {"switch", "exitSwitch"} => cpu = current

\* One task runs: the variables keep their types, exactly one task is marked
\* Running, and it is the one whose stack the CPU is on, whatever calls and
\* interrupts come in whatever order.
OneTaskRuns == TypeOK /\ OneRunning /\ ExecutingIsCurrent

\* Every live task that is off the CPU has a frame to resume from, the task a
\* pending switch leads to included; an exited task's frame is never one of
\* them ("the exited context is retained but never scheduled again").
ContextsResumable ==
    /\ pc # "wild"
    /\ pc \in {"switch", "exitSwitch"} => current # cpu
    /\ \A t \in Tasks \ {cpu} :
          ctx[t] \in IF state[t] = "Exited" THEN {"ExitCall"}
                                           ELSE {"Trampoline", "Call"}

\* sleep_ticks never returns before its wake tick, by whichever way it
\* returns: woken by another task's call, or from the wait of a lone sleeper.
NoEarlyReturn ==
    pc = "body" => left[cpu] = 0

\* Round robin: a switch that leaves a ready task waiting brings the cursor
\* strictly closer to it, so no task overtakes a waiting one twice.
RoundRobin ==
    [][\A t \in Slots :
          state[t] = "Ready" /\ state'[t] = "Ready" /\ current' # current
              => Offset(t)' < Offset(t)]_vars

\* exit_current panics with "kernel task exited with no runnable successor"
\* only if the boot task is asleep, and the other two panics, a missing entry
\* point and an exited task resumed, are never reached.  No task of the kernel
\* but the worker sleeps, so there none of the three can happen.
PanicOnlyIfBootSleeps ==
    pc = "panic" => state[Boot] = "Sleeping"

\* The CPU halts only with interrupts enabled.  The console waits for a key
\* with HLT and is woken by the timer and the keyboard interrupt.
HaltIsInterruptible ==
    pc \in {"hlt", "waitHlt"} => intr

-----------------------------------------------------------------------------
(* Liveness *)

\* Steps the running code takes by itself.
KernelStep ==
    \/ init
    \/ Sleep
    \/ wait_ticks
    \/ generic_context_switch
    \/ task_trampoline
    \/ pc = "idle" /\ checkpoint

\* The cooperation every task owes the others: its code ends up in a call
\* that can give the CPU away.
Relinquish ==
    \/ yield_now
    \/ \E n \in 1 .. MaxSleep : sleep_ticks(n)
    \/ exit_current
    \/ Halt

\* Code keeps running and programs exit.  The two steps that masking, or a
\* visit to ring 3, disables for a while need strong fairness: the interrupt
\* controller holds a tick until interrupts are enabled, and a task gives the
\* CPU away again and again, whatever it does in between.
Fairness ==
    /\ WF_vars(KernelStep)
    /\ WF_vars(SysExit)
    /\ SF_vars(TimerInterrupt)
    /\ SF_vars(Relinquish)

FairSpec == Spec /\ Fairness

\* Unless interrupts stay masked forever, every ready task runs, however the
\* others yield, sleep and exit, and every sleep ends, although only the calls
\* of other tasks wake a sleeper and a lone sleeper's wait wakes nobody.
TasksRun ==
    []<>intr => \A t \in Slots :
                    state[t] \in {"Ready", "Sleeping"} ~> state[t] = "Running"
=============================================================================
