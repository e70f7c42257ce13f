SPECIFICATION Spec
CONSTANTS
    Jobs <- OneJob
    AgentOf <- NoAgents
    SubjectOf <- TaskSubject
    Subjects <- TaskSubjects
    Agents <- Nothing
    Sessions <- AgentSessions
    Home <- AgentHouses
    IdentityOf <- Names
    Identities <- AgentNames
    Ops <- TwoCancels
    OpKind <- Kinds
    Target <- Targets
    Goal <- ToThird
    MaxConcurrent = 1
    MaxWaiting = 1
    MaxCrashes = 0
    MaxOthers = 0
    MaxFaults = 0
INVARIANTS CancelRecorded
CHECK_DEADLOCK FALSE
