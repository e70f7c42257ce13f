SPECIFICATION AllSpec
CONSTANTS
    Events <- OneEvent
    Requests <- AllRequests
    Carries <- CarriesOf
    MessageTurns <- TwoTurns
    ProfileOf <- Profiles
    DefaultProfile = "startup"
    MaxRounds = 2
    MaxCrashes = 1
    MaxFaults = 1
    MessageIds = {"m1", "m2", "m3"}
    Owners = {"o1"}
    MaxContexts = 3
    MaxTreeFaults = 1
    MaxTransports = 3
    MaxFailures = 1
    RecordIds = {1, 2}
    Transactors = {"w1", "w2"}
    Principals = {"u", "v"}
    Admin = "a"
    Limit = 1
    MaxHold = 1
    MaxPass = 0
    Overlap = 2
    MaxTime = 2
    MaxVersions = 2
CONSTRAINT OneStory
INVARIANTS OnceOnly  SocketSafety FeedSafety
PROPERTIES FollowUpHasNews PromiseKept
CHECK_DEADLOCK FALSE
