SPECIFICATION Spec
CONSTANTS
    Brightness = {0, 1}
    PowerLevels = {0, 1}
    Targets <- OneTarget
    UserStates <- Full
    MaxRetries = 2
    AckModulus = 4
    MaxInFlight = 3
INVARIANT
    SavesEntryState
