SPECIFICATION AllSpec
CONSTANTS
    Calls <- ThreeCalls
    Requests <- AllRequests
    Kind <- KindOf
    CallOf <- Answers
    Batches <- BatchThenOne
    Place <- InOrderOfNames
    MaxCrashes = 1
    MaxFaults = 2
    Sessions = {"s1", "s2"}
    Tools = {"read", "write", "run_subagent"}
    Idempotent = {"read"}
    Scope = {"read", "run_subagent"}
    HostTools = {"open"}
    Hosts <- HostOffers
    Configs <- Settings
    FrozenTurns = 2
    DefinitionTurns = 3
    OverlayTurns = {1}
    RequestModels = {"m"}
    HostModel = "h"
    SubagentTurns = 2
    MaxTurns = 2
    MaxOverlays = 1
    Askers = {"a1", "a2"}
    MaxMcpCalls = 4
    Budget = 5
    RetainRecent = 2
    ProtectResults = 1
    MaxMessages = 11
    MaxForks = 2
    MaxMade = 3
    MaxRequests = 4
    MaxContinued = 1
    MaxStreamed = 8
    MaxTurnFaults = 1
    MaxRuns = 3
    MaxCalls = 3
    MaxEvents = 1
    Videos = {1, 2, 3}
    Images = {1, 2, 3}
    MaxJobs = 2
    MaxItems = 2
    Builds = {"b1"}
    Order <- Declared2
    Include <- Includes
    Documents <- Collections
    Subjects = {"s", "t"}
    ViewsKept = 1
    LeftOver <- FormerTexts
    MaxTextWrites = 2
CONSTRAINT OneStory
INVARIANTS CacheIsDurable CallsKept  PromptSafety  RunSafety AgUiRunsHold
PROPERTIES OutcomesStand MediaHolds
CHECK_DEADLOCK FALSE
