SPECIFICATION Spec
CONSTANTS
    node = node
    p1 = p1
    p2 = p2
    p3 = p3
    MaxInt = 7
    NodeName = node
    Names <- MCNames
    NodeStats <- MCNodeStats
    PodStats <- MCPodStats
INVARIANT NodeDiscarded
