\* Two workers and two requests on one file with every retry the API accepts, a
\* restart and a database fault; vectors in Pinecone.
CONSTANTS
    Docs = {d1}
    Files = {f1}
    Workers = {w1, w2}
    Clients = {c1, c2}
    None = None
    Backend = "pinecone"
    RetryFrom <- ApiRetries
    MaxRequests = 3
    MaxRestarts = 1
    MaxDbFaults = 1
    Pages = {"ingestion"}
    Ids = {i1, i2}
    AccountRequests = {"r1", "r2"}
    AdminClients = {"r1"}
    AccountCalls = 5
    AccountStarts = 2
    ValueChanges = 1
    ValueTime = 2
    ResourceKeys = {"k1", "k2", "k3"}
    Nodes <- Steps
    Ins <- Ports
    Required <- Ports
    Many <- Variadic
    Emissions <- Outcomes
    Definitions <- Wirings
    EvalOverlap = FALSE
    EvalQueries = {"q1", "q2"}
    EvalCalls = 2
SPECIFICATION RetriesSpec
INVARIANTS
    TypeOK NoStranded OneWriter
PROPERTIES
    Settles
CHECK_DEADLOCK FALSE
