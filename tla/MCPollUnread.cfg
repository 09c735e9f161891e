CONSTANTS
    Key <- MCKeys
    Val <- MCVals
    fsize = 3
    Sockets <- MCKeys
    maxSockets = 2
    tsize = 2
    Flags = {"READ"}
SPECIFICATION MCSpec
INVARIANT NothingUnreadAtPoll
