CONSTANTS
    IPs <- MCIPs
    Ports <- MCPorts
    ZeroIP = "zero"
    NoAddr = NoAddr
    NoTid = NoTid
    ForeignTid = ForeignTid
    Configs <- MCConfigs
    ClockModulus = 2
    TicksPerSecond = 1
    DefaultTimeout = 1
    DefaultAttempts = 2
SPECIFICATION FairSpec
INVARIANTS
    TypeOK
    RetryBudget
    BehaviorEvidence
    FilteringEvidence
    ConclusiveAtEnd
PROPERTIES
    VerdictsStand
    CallReturns
