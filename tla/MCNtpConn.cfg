SPECIFICATION FairSpec
CONSTANTS
    c1 = c1
    c2 = c2
    c3 = c3
    p1 = p1
    p2 = p2
    ring_head = head
    None = None
    Conns <- MCConns
    Ports <- MCPorts
    conn_id <- MCconn_id
INVARIANTS
    MapHoldsLive
    WalkIsLive
PROPERTIES
    RemovesOnlyClosed
    ClosedAreFreed
