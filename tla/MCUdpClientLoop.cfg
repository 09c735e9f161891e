CONSTANTS
    IPs <- MCIPs
    Ports <- MCPorts
    ZeroIP = "zero"
    NoAddr = NoAddr
    NoTid = NoTid
    ForeignTid = ForeignTid
    Configs <- AllModes
    ClockModulus = 5
    TicksPerSecond = 2
    DefaultTimeout = 1
    DefaultAttempts = 2
    ServerIP = "server"
    AlternateIP = "alternate"
    NatIP = "nat"
    LocalIP = "local"
    LocalPorts = {1}
    Nats <- NineNats
    Servers <- AllServers
    ClockStarts <- LateStart
    Clocks <- BothClocks
    Networks = {TRUE, FALSE}
SPECIFICATION MCSpec
INVARIANTS
    MappingSound
    FilteringSound
    ExactDiagnosis
    DumpMatchesResults
PROPERTIES
    NoEarlyGiveUp
    Terminates
