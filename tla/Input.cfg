SPECIFICATION Spec
CONSTANTS
    KEYS = 3
    EVENTS = 2
    Inputs <- SomeInputs
    Starts <- AllStarts
INVARIANTS
    HandlersNeverSpin
    NoStall
    KeysMatchTyped
    EventsAreReal
PROPERTIES
    AllRead
CHECK_DEADLOCK FALSE
