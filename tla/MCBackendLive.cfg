\* The services with a liveness property, one at a time, each under the
\* fairness it states.
CONSTANTS
    Docs = {"d1", "d2"}
    Files = {"f1", "f2"}
    Workers = {i1, i2}
    Clients = {"c1"}
    None = None
    Backend = "pgvector"
    RetryFrom <- RestingRetries
    MaxRequests = 4
    MaxRestarts = 1
    MaxDbFaults = 1
    Pages = {"values", "resources", "executor", "evalruns"}
    Ids = {i1}
    AccountRequests = {"r1", "r2"}
    AdminClients = {"r1"}
    AccountCalls = 5
    AccountStarts = 2
    ValueChanges = 0
    ValueTime = 1
    ResourceKeys = {"k1", "k2"}
    Nodes <- Steps
    Ins <- Ports
    Required <- Ports
    Many <- Variadic
    Emissions <- Outcomes
    Definitions <- StraightWirings
    EvalOverlap = FALSE
    EvalQueries = {"q1"}
    EvalCalls = 1
SPECIFICATION ServicesSpec
PROPERTIES
    CallsEnd RunsEnd
CHECK_DEADLOCK FALSE
