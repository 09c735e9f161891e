CONSTANTS
    Tids <- MCTids
    STUN_COOKIE = 1
    Addrs <- MCAddrs
    Classes = {"Request", "SuccessResponse"}
    Keys = {"k1", "k2"}
    MaxAttributes = 3
    MAX_NUM_ATTRIBUTES = 3
    MAX_STUN_ATTRIBUTE_SIZE = 20
    MAX_STUN_MESSAGE_SIZE = 68
    Pieces = {7}
    Following = 20
    ForeignWires <- MCForeignWires
SPECIFICATION ExchangeSpec
INVARIANTS
    StateIsFunctionOfBytes
    ReadsOneMessage
    ReadsBackWhatWasBuilt
    SignedMessagesVerify
    IntegrityCoversMessage
    FingerprintProtects
CHECK_DEADLOCK FALSE
