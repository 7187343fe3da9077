SPECIFICATION FairSpec
CONSTANTS
    s1 = s1
    s2 = s2
    s3 = s3
    Sources <- MCSources
    ScrapeTimeout = 2
    BaseTimeout = 3
    DelayPerSource = 1
    MaxDelay = 2
INVARIANTS
    TypeOK
    NoSendAfterClose
    BatchReadyAfterErr
    NothingLost
    CollectBounded
PROPERTIES
    EventuallyReturns
    ImplementsGather
