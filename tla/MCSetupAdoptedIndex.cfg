\* An index with the wizard's name may exist, with one of two dimensions or
\* none.
CONSTANTS
    Keys = {a, b}
    None = None
    MaxFetches = 4
    MaxVersion = 1
    Pages = {"setup"}
    SetupModels = {"small", "large"}
    Names = {"ragworks"}
    Backends = {"pgvector", "pinecone"}
    Dim <- TwoDims
    Reported = {"large"}
    Configured = {"pgvector", "pinecone"}
    Cap <- TwoCaps
    Found <- SomeDims
    MaxCollections = 2
    Texts = {"hi"}
    MaxRows = 5
    MaxTurns = 2
    HistoryLimit = 50
    Models = {"m1", "m2"}
    ServedBy <- TwoServed
    Sessions = {"a", "b"}
    Collections = {"k"}
    MaxEdits = 2
    PromptTools = {"k1", "k2"}
    MaxTexts = 1
    SectionKeys <- DefaultOrder
    Routes = {"a"}
    MaxDrags = 2
    MaxPushes = 3
    ProviderTypes = {"pinecone", "tei"}
    Limit <- Limits
    Potential <- Kinds
    Serves <- Live
    Secrets = {"k"}
    Values = {"a"}
    Elsewhere = {"b"}
    MaxIds = 2
SPECIFICATION MCSpec
INVARIANTS
    AdoptedMatches
CHECK_DEADLOCK FALSE
