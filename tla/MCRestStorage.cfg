SPECIFICATION Spec
CONSTANTS
    c1 = c1
    n1 = n1
    n2 = n2
    p1 = p1
    p2 = p2
    Clients <- MCClients
    NodeNames <- MCNodes
    PodNames <- MCPods
    Batches <- MCBatches
    Requests <- MCRequests
    MaxMoments = 6
INVARIANTS
    TypeOK
    Explained
