SPECIFICATION AllSpec
CONSTANTS
    Procs <- AllProcs
    Kind <- AllKinds
    Actor <- AllActors
    LeaseOf <- AllLeases
    Principals <- People
    Admins <- Administrators
    Processes = {"p1", "p2"}
    Clients = {"c1", "c2"}
    Fields = {"f", "g"}
    Values = {1}
    MaxStarts = 3
    MaxStartFaults = 1
    MaxUpdates = 2
    Callers = {c1}
    MaxTokens = 3
    MaxStops = 1
    Providers = {"openai", "anthropic"}
    Secrets = {"k1"}
    Models <- KnownModels
    DefaultModel <- Defaults
    Configs <- Settings
    KeyRequests = {r1, r2}
    MaxChanges = 2
    ArtifactKeys <- TwoArtifacts
    Declared <- TwoArtifacts
    Contents = {"x", "y"}
    Rules <- TwoRules
    Retained = 1
    ProposalPage = 1
    MaxId = 3
CONSTRAINT OneStory
INVARIANTS OneTurnAtATime VoiceExclusive PinsBalanced CancelHonoured CallerMayAct StopQuiescent RuntimeWhole LoginSafe AccessHolds 
CHECK_DEADLOCK FALSE
