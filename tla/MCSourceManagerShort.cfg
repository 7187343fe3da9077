SPECIFICATION Spec
CONSTANTS
    s1 = s1
    s2 = s2
    s3 = s3
    Sources <- MCSources
    ScrapeTimeout = 1
    BaseTimeout = 2
    DelayPerSource = 1
    MaxDelay = 4
INVARIANT OverallTimeoutPreserved
