CONSTANTS
    Processes = {"hub", "peer"}
    Self = "hub"
    FirstGenerated = 10
    Configurations <- MCConfigurations
    Kinds = {"fence_event"}
    Requests = {"request", "socket"}
    Sockets = {"socket"}
    MaxStarts = 2
    MaxEvents = 2
SPECIFICATION FairSpec
INVARIANTS
    PublisherBeforeClose
    CleanExit
    RightIdentity
PROPERTIES
    Exits
CHECK_DEADLOCK FALSE
