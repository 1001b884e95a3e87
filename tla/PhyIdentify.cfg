SPECIFICATION IdSpec
CONSTANTS
    Addrs <- MCAddrs
    Offsets <- MCOffsets
    Locations <- MCLocations
    PowerUp <- MCPowerUp
    ReadOnly <- Id
    Pages <- MCPages
    Values = {"a", "b", "none", "junk", "igp_3", "ife", "bm", "m88"}
    Written = {"a", "b"}
    E1000_MAX_PHY_ADDR = 3
    Tries = 2
    Rereads = 2
INVARIANTS IdInv RightRegister RightPhy FoundUnlessMissed
PROPERTY ImplementsMemory
CONSTRAINT Explored
