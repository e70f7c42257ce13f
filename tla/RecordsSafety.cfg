SPECIFICATION Spec
CONSTANTS
    Hosts = {h1, h2}
    Keys = {k1, k2}
    MaxWrites = 4
    Requests = {r1, r2, r3, r4}
    Actions = {1}
    Confirmations = {c1, c2}
    Statuses = {"proposed", "sent"}
    Recipients = {x1}
    Readers = {d1}
    PageSize = 1
    Writers = {w1, w2}
    Texts = {"t1", "t2"}
    Policies <- TwoPolicies
    Keep = 1
    Views = {v1, v2}
    Prompts = {p1, p2}
    MaxVersion = 3
    MaxCommits = 3
    MaxStarts = 2
CONSTRAINT OneScenario
SYMMETRY Symmetric
INVARIANTS HostStateHolds
PROPERTIES ActionsHold ArtifactsHold
CHECK_DEADLOCK FALSE
