SPECIFICATION FairSpec
CONSTANTS
    Macs = {1}
    Labels <- OneRoom
    ControlGroup <- LivingRoom
    Nameless = {}
    Cached = "nothing"
    MayMove = FALSE
    Lossy = FALSE
    MaxInFlight = 2
PROPERTY
    StoresEventually
CHECK_DEADLOCK FALSE
