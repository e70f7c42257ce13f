SPECIFICATION Spec
CONSTANTS
    Jobs <- AllJobs
    AgentOf <- AllAgentOf
    SubjectOf <- TaskSubject
    Subjects <- TaskSubjects
    Agents <- AgentNames
    Sessions <- AgentSessions
    Home <- AgentHouses
    IdentityOf <- Names
    Identities <- AgentNames
    Ops <- AllOps
    OpKind <- Kinds
    Target <- Targets
    Goal <- ToThird
    MaxConcurrent = 2
    MaxWaiting = 3
    MaxCrashes = 1
    MaxOthers = 1
    MaxFaults = 1
CONSTRAINT OneScenario
INVARIANTS CapacityKept TurnsInOrder AgentsObeyed
PROPERTIES KeepsItsPromise
CHECK_DEADLOCK FALSE
