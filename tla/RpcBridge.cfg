SPECIFICATION FairSpec
CONSTANTS
    Registrations <- MCRegistrations
    Listeners = {"announce"}
    MaxLosses = 1
    CallOrder <- MCCallOrder
    Requests <- MCRequests
    Methods = {"ping", "echo"}
    Local = {"ping"}
    Xcmd = "ping"
    Adapter = TRUE
    Handlers = {"hub", "h1", "echo"}
    Hub = "hub"
    Serves <- MCServes
    Notices <- MCNotices
    CallerIds = {"app"}
    PendingCap = 1
    MaxCopies = 2
    Budget = 3
INVARIANTS
    PendingExact
    OwnResponses
    RoutedRight
    RegistrationsCarried
PROPERTIES
    Answered
    Relisted
CHECK_DEADLOCK FALSE
