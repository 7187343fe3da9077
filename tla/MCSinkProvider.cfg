SPECIFICATION FairSpec
CONSTANTS
    r1 = r1
    r2 = r2
    n1 = n1
    n2 = n2
    p1 = p1
    p2 = p2
    Readers <- MCReaders
    Names <- MCNames
    Batches <- MCBatches
    Requests <- MCRequests
INVARIANTS
    TypeOK
    NoTornRead
PROPERTIES
    ImplementsSnapshotStore
    ReceiveCompletes
    ReadCompletes
