CONSTANTS
    t1 = t1
    t2 = t2
    p1 = p1
    r1 = r1
    p2 = p2
    w1 = w1
    w2 = w2
    None = None
    Tokens <- MCTokens
    Objects = {o1, o2, o3}
    Clients <- MCClients
    RawClients <- MCRawClients
    tokenOf <- MCTokenOf
    RawPorts <- MCRawPorts
    RawPortForToken <- MCDistinctPorts
SPECIFICATION Spec
SYMMETRY Symmetry
INVARIANTS InvalidatedIsSilent
