CONSTANTS
    IPs <- MCIPs
    Ports <- MCPorts
    ZeroIP = "zero"
    NoAddr = NoAddr
    NoTid = NoTid
    ForeignTid = ForeignTid
    Configs <- FullMode
    ClockModulus = 5
    TicksPerSecond = 2
    DefaultTimeout = 1
    DefaultAttempts = 2
    ServerIP = "server"
    AlternateIP = "alternate"
    NatIP = "nat"
    LocalIP = "local"
    LocalPorts = {1}
    Nats <- TranslatingNats
    Servers <- AllServers
    ClockStarts <- LateStart
    Clocks = {"steady"}
    Networks = {TRUE}
SPECIFICATION UdpSpec
INVARIANT FilteringNeverLooser
