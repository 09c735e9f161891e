CONSTANTS
    Clients = 2
    MaxRuns = 2
    MaxActivities = 2
SPECIFICATION Spec
INVARIANTS
    StopMeansRunning
    CannotStartTwice
    ShownInOrder
    MailsOwnReport
PROPERTY TestEnds
CHECK_DEADLOCK FALSE
