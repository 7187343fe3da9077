SPECIFICATION FairSpec
CONSTANTS
    Resolution = 3
    CollectBound = 2
    Settings <- AllSettings
    MaxAge = 10
INVARIANTS
    TypeOK
    NoFalseAlarm
    FreshData
    HealthyMeansStored
PROPERTIES
    HangReported
    RecoversHealth
    StopEndsLoop
