SPECIFICATION DevicesSpec
CONSTANTS
    LongBits = 32
    Buses = 2
    Slots = 3
    MaxEntries = 2
    Tables <- MCTables
    Hardware <- MCHardware
    NoDev = NoDev
    IdeId = IdeId
    ETH_MAX_IFS = 3
    NET_MAX_IFS = 3
    Null = Null
INVARIANTS
    IdeControllersProbed
    InterruptsRouted
    InterfacesComplete
    PrintedReadsBack
PROPERTY DiscoveryAdvances
