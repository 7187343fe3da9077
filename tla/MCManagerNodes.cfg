SPECIFICATION Spec
CONSTANTS
    Resolution = 3
    CollectBound = 2
    Settings <- OwnSetting
    MaxAge = 10
INVARIANT HealthyMeansNodes
