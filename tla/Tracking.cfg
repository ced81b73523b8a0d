CONSTANTS
    Feeds = {"proximity", "location"}
    Tags = {"tag"}
    Zones = {"a", "b", "c", "d"}
    Versions <- MCVersions
    PolicyDefaults <- MCPolicyDefaults
    Callers = {1, 2}
    MaxProximities = 3
    MaxEdits = 1
    Trackables = {1, 2}
    Positions = {"p", "q", "r", "s"}
    Relation <- MCRelation
    Deciders = {1, 2}
    Locations <- MCLocations
    FilterEnabled = {TRUE, FALSE}
    EmitInterval = 2
    MaxAge = 2
    MaxPoints = 2
    TrackTTL = 3
    Debounce = 2
    CollisionTTL = 3
    CollisionBuffer = 1
    MaxLocations <- MCMaxLocations
    MaxNow = 3
SPECIFICATION TrackingSpec
INVARIANTS
    StickyBounded
    EveryPointDecides
PROPERTIES
    DwellHonoured
    Throttled
    PairEvents
CHECK_DEADLOCK FALSE
