SPECIFICATION Spec
CONSTANTS
    MaxTasks = 4
    MaxSleep = 2
    Quantum = 2
    Sleepers <- KernelSleepers
    Exiters <- KernelExiters
    Idlers <- KernelIdlers
    UserTasks <- ConsoleUserTasks
INVARIANTS
    HaltIsInterruptible
CHECK_DEADLOCK FALSE
