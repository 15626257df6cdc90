\* Two runs of one dataset that overlap.
CONSTANTS
    Docs = {"d1", "d2"}
    Files = {"f1", "f2"}
    Workers = {i1, i2}
    Clients = {"c1"}
    None = None
    Backend = "pgvector"
    RetryFrom <- RestingRetries
    MaxRequests = 4
    MaxRestarts = 1
    MaxDbFaults = 1
    Pages = {"evalruns"}
    Ids = {i1, i2}
    AccountRequests = {"r1", "r2"}
    AdminClients = {"r1"}
    AccountCalls = 5
    AccountStarts = 2
    ValueChanges = 1
    ValueTime = 2
    ResourceKeys = {"k1", "k2", "k3"}
    Nodes <- Steps
    Ins <- Ports
    Required <- Ports
    Many <- Variadic
    Emissions <- Outcomes
    Definitions <- Wirings
    EvalOverlap = TRUE
    EvalQueries = {"q1"}
    EvalCalls = 0
SPECIFICATION MCSpec
INVARIANTS
    OwnPipeline
CHECK_DEADLOCK FALSE
