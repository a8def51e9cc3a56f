----------------------------- MODULE MCScheduler -----------------------------
(***************************************************************************)
(* Instances of the scheduler.  Task 0 is the boot task, task 1 kworker/0, *)
(* the others are spawned while the model runs.                            *)
(***************************************************************************)
EXTENDS Scheduler

All == 0 .. MaxTasks - 1

\* Who calls what in the kernel: only housekeeping_task sleeps, only spawned
\* tasks return, only the boot task waits for keys (shell), and the boot task
\* (graphical shell) and spawned tasks (process/init) enter ring 3.
KernelSleepers == {Worker}
KernelExiters == All \ {Boot, Worker}
KernelIdlers == {Boot}

\* Without a graphical shell the boot task stays in the kernel console.
ConsoleUserTasks == All \ {Boot, Worker}

\* Every task may call everything the module exports.
ApiExiters == All \ {Boot}
=============================================================================
