SPECIFICATION FairSpec
CONSTANTS
    Brightness = {0, 1}
    PowerLevels = {0, 1}
    Targets <- OneTarget
    UserStates <- Full
    MaxRetries = 3
    AckModulus = 4
    MaxInFlight = 2
INVARIANTS
    TypeOK
    AckWindow
    QuietCallReachesBulb
    QuietCallSavesEntryState
PROPERTIES
    ImplementsBulbCall
    CallReturns
