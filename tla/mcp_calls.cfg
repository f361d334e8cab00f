SPECIFICATION FairSpec
CONSTANTS
    p1 = p1
    p2 = p2
    s1 = s1
    s2 = s2
    a1 = a1
    a2 = a2
    srv = srv
    tool = tool
    old = old
    Profiles = {p1, p2}
    Secrets = {s1, s2}
    Encoded = {s2}
    Leeway = 1
    Unlisted = Unlisted
    Public = Public
    Calls = {c1}
    Servers = {srv}
    Tools = {tool, old}
    Actions = {a1, a2}
    Stores <- StoresOne
    Requests <- RequestsOne
    MaxDeploys = 2
    MaxTime = 2
INVARIANTS
    TypeOK
    ExecutedOnlyIfAllowed
    InputValidated
    RejectedNeverRuns
    RunsAtMostOnce
PROPERTIES
    CallsAreAnswered
    PromiseKept
CHECK_DEADLOCK FALSE
