SPECIFICATION Spec
CONSTANTS
    n1 = n1
    n2 = n2
    hostname = hostname
    internal = internal
    external = external
    a = a
    b = b
    NodeNames <- MCNames
    Types <- MCTypes
    Addresses <- MCAddresses
    Listings <- MCListings
    Priorities <- MCPriorities
INVARIANTS
    TypeOK
    BestAddress
    NodesAccounted
