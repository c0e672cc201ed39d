SPECIFICATION FairSpec
CONSTANTS
    Devices = {1, 2}
    Specimen = 1
    Brightness = {0, 1, 2}
    PowerLevels = {0, 1}
    UserStates <- OneOff
    Configs <- Theater
    StartConfig = 1
    LightsStartOn = {TRUE, FALSE}
    StartState <- FullOn
    Reliable = TRUE
    Sessions = FALSE
PROPERTIES
    DimsForFilm
    NoBulbLeftDim
    ConfigZeroRestores
