\* Two retries of one failed document, as the file browser offers them.
CONSTANTS
    Docs = {d1}
    Files = {f1}
    Workers = {w1, w2}
    Clients = {c1, c2}
    None = None
    Backend = "pgvector"
    RetryFrom <- UiRetries
    MaxRequests = 3
    MaxRestarts = 0
    MaxDbFaults = 0
    Pages = {"ingestion"}
    Ids = {i1, i2}
    AccountRequests = {"r1", "r2"}
    AdminClients = {"r1"}
    AccountCalls = 5
    AccountStarts = 2
    ValueChanges = 1
    ValueTime = 2
    ResourceKeys = {"k1", "k2", "k3"}
    Nodes <- Steps
    Ins <- Ports
    Required <- Ports
    Many <- Variadic
    Emissions <- Outcomes
    Definitions <- Wirings
    EvalOverlap = FALSE
    EvalQueries = {"q1", "q2"}
    EvalCalls = 2
SPECIFICATION MCSpec
SYMMETRY WorkerClientSymmetry
INVARIANTS
    OneWorkerPerDocument
CHECK_DEADLOCK FALSE
