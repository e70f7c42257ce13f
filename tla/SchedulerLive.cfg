SPECIFICATION FairSpec
CONSTANTS
    Jobs <- MessageJobs
    AgentOf <- LiveAgentOf
    SubjectOf <- NoSubject
    Subjects <- Nothing
    Agents <- AgentNames
    Sessions <- AgentSessions
    Home <- AgentHouses
    IdentityOf <- Names
    Identities <- AgentNames
    Ops <- ConfigureOps
    OpKind <- Kinds
    Target <- Targets
    Goal <- ToThird
    MaxConcurrent = 1
    MaxWaiting = 2
    MaxCrashes = 0
    MaxOthers = 0
    MaxFaults = 0
PROPERTY NobodyIsStuck
CHECK_DEADLOCK FALSE
