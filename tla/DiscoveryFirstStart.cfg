SPECIFICATION Spec
CONSTANTS
    Macs = {1, 2}
    Labels <- TwoRooms
    ControlGroup <- LivingRoom
    Nameless = {}
    Cached = "nothing"
    MayMove = FALSE
    Lossy = TRUE
    MaxInFlight = 2
PROPERTY
    StartSurvives
CHECK_DEADLOCK FALSE
