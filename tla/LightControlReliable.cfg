SPECIFICATION Spec
CONSTANTS
    Devices = {1, 2}
    Specimen = 1
    Brightness = {0, 1, 2}
    PowerLevels = {0, 1}
    UserStates <- Full
    Configs <- Theater
    StartConfig = 1
    LightsStartOn = {TRUE, FALSE}
    StartState <- FullOn
    Reliable = TRUE
    Sessions = TRUE
INVARIANTS
    NeverSavesDimmed
    RestoredMeansRestored
PROPERTIES
    ImplementsBulbCall
    ImplementsLamp
