CONSTANTS
    IPs <- MCIPs
    Ports <- MCPorts
    ZeroIP = "zero"
    NoAddr = NoAddr
    NoTid = NoTid
    ForeignTid = ForeignTid
    Configs <- AllModes
    ClockModulus = 3
    TicksPerSecond = 1
    DefaultTimeout = 1
    DefaultAttempts = 2
    ServerIP = "server"
    AlternateIP = "alternate"
    NatIP = "nat"
    LocalIP = "local"
    Nats <- MCNats
    Servers <- MCServers
    LocalPorts <- MCLocalPorts
    LocalPortOptions <- MCOptions
SPECIFICATION TcpSpec
INVARIANTS
    TcpMappingSound
    DirectIsDirect
    ResultsUnlessFailure
PROPERTY Terminates
