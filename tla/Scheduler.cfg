SPECIFICATION FairSpec
CONSTANTS
    MaxTasks = 4
    MaxSleep = 2
    Quantum = 2
    Sleepers <- All
    Exiters <- ApiExiters
    Idlers <- All
    UserTasks <- All
INVARIANTS
    OneTaskRuns
    ContextsResumable
    NoEarlyReturn
    PanicOnlyIfBootSleeps
PROPERTIES
    RoundRobin
    TasksRun
\* A panic halts the machine.
CHECK_DEADLOCK FALSE
