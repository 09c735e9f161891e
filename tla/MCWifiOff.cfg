CONSTANTS
    Clients = 1
    MaxRuns = 1
    MaxActivities = 1
SPECIFICATION Spec
INVARIANT WifiOffDuringTests
CHECK_DEADLOCK FALSE
