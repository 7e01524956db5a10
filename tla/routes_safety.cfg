SPECIFICATION Spec
CONSTANTS
    loop = loop
    helper = helper
    monitor = monitor
    r1 = r1
    r2 = r2
    g1 = g1
    g2 = g2
    Callers <- AllCallers
    Monitor = monitor
    Loop = loop
    Ips <- TwoIps
    Gateways <- OneGateway
    None = None
    Faults <- FileLost
SYMMETRY IpSymmetry
INVARIANTS TypeOK NoOrphan
PROPERTY ImplementsRouteSet
