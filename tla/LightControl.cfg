SPECIFICATION Spec
CONSTANTS
    Devices = {1, 2}
    Specimen = 2
    Brightness = {0, 1, 2}
    PowerLevels = {0, 1}
    UserStates <- Full
    Configs <- Theater
    StartConfig = 1
    LightsStartOn = {FALSE}
    StartState <- FullOn
    Reliable = FALSE
    Sessions = FALSE
INVARIANTS
    TypeOK
    NoChangeForgotten
PROPERTIES
    SnapshotKept
    SnapshotTaken
