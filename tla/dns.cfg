SPECIFICATION FairSpec
CONSTANTS
    Main = Main
    Loop = Loop
    s1 = s1
    s2 = s2
    Servers <- TwoServers
    Pushes <- OneOrNone
    DisturbancesMax = 2
INVARIANT TypeOK
PROPERTIES DnsComesBack DnsSettles RepairsEnd
