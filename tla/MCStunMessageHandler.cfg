CONSTANTS
    IPs <- MCIPs
    Ports <- MCPorts
    ZeroIP = "zero"
    NoAddr = NoAddr
    Clients <- MCClients
    Messages <- MCMessages
    AuthResponses <- MCAuthResponses
    AddressSets <- MCAddressSets
    Byte = {1, 2}
    Junk = 0
    Objects = {o1, o2, o3}
    NULL = NULL
    Strings <- MCStrings
    Sizes = {1, 4}
    Offsets <- MCOffsets
    Pokes <- MCPokes
    SizeModulus = 16
    MaxAllocation = 4
SYMMETRY Alike
SPECIFICATION MCSpec
INVARIANTS
    SuccessIsAuthorised
    OtherAddressUsable
    StreamTypeOK
    OnlyWrittenBytes
    CallersBufferCurrent
PROPERTIES
    ImplementsService
    ImplementsByteStream
