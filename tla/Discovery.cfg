SPECIFICATION Spec
CONSTANTS
    Macs = {1, 2}
    Labels <- TwoRooms
    ControlGroup <- LivingRoom
    Nameless = {2}
    Cached = "anything"
    MayMove = TRUE
    Lossy = TRUE
    MaxInFlight = 2
INVARIANTS
    TypeOK
    OneGroup
    CallTargetKept
    NeverUndefined
PROPERTY
    StoredWhenSaved
CHECK_DEADLOCK FALSE
