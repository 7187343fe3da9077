SPECIFICATION FairSpec
CONSTANTS
    n1 = n1
    n2 = n2
    p1 = p1
    NodeNames <- MCNodes
    PodNames <- MCPods
    Requests <- MCRequests
    Fickle <- MCFickle
    MaxBorn <- MCMaxBorn
    MaxAgain = 1
INVARIANTS
    TypeOK
    NoGhosts
PROPERTIES
    OthersServed
    NeverBackwards
    NodesConverge
    PodsConverge
