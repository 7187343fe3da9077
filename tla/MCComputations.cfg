SPECIFICATION ComputationsSpec
CONSTANTS
    DefBuckets <- MCDefBuckets
    Timeouts <- MCTimeouts
    Width = 6
    Arrays <- MCArrays
    Lists <- MCLists
    Sizes <- MCSizes
    Bounds <- MCBounds
    Numbers <- MCNumbers
    Authorities <- MCAuthorities
    Configs <- MCConfigs
    Flags <- MCFlags
INVARIANTS
    Acceptable
    Pinpointed
    Sorted
    Enumerated
    NumbersExact
    KubeletTrust
