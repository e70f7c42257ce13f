SPECIFICATION AllSpec
CONSTANTS
    Delegations = {"d1", "d2", "d3"}
    Results = {"r1", "r2"}
    AnswerTo <- AnswersTo
    Cancels = {"c1", "c2"}
    QueueSize = 2
    MaxAsks = 2
    Threads = {"t1", "t2"}
    MaxServers = 2
    MaxNotes = 2
    Folders = {"root", "work"}
    Workers = {"w1", "w2"}
    MaxFiles = 3
    MaxTexts = 3
    MaxFailures = 1
CONSTRAINT OneStory
INVARIANTS CallKept ReportsTrue  NoNoteLost
PROPERTIES FinalStays CallReturns
CHECK_DEADLOCK FALSE
