SPECIFICATION FairSpec
CONSTANTS
    Slots = {1, 2}
    Requests <- MCRequests
    Tokens <- MCTokens
    Policy <- MCPolicy
    Rank <- MCRank
    AuthMode = "hybrid"
    Audiences <- MCAudiences
    Kinds = {"providers", "zones"}
    Ids = {"1", "2"}
    Uuids = {"1", "2"}
    Catalogues <- MCCatalogues
    MaxExpiries = 1
    MaxChanges = 3
    MaxFailures = 1
INVARIANTS
    OnlyGranted
    VerifierShared
    AnswersTruthful
PROPERTIES
    NoRevival
    Served
CHECK_DEADLOCK FALSE
