\* The console around the pipelines, one behaviour at a time; the hook reads
\* two keys of two versions.
CONSTANTS
    Keys = {a, b}
    None = None
    MaxFetches = 4
    MaxVersion = 1
    Pages = {"query", "setup", "connections", "collections", "overview", "search",
      "files", "preview", "filesearch", "stream", "history", "settings", "prompt",
      "panels"}
    SetupModels = {"small", "large"}
    Names = {"ragworks"}
    Backends = {"pgvector", "pinecone"}
    Dim <- TwoDims
    Reported = {"large"}
    Configured = {"pgvector", "pinecone"}
    Cap <- TwoCaps
    Found <- SomeDims
    MaxCollections = 2
    Texts = {"hi"}
    MaxRows = 5
    MaxTurns = 2
    HistoryLimit = 50
    Models = {"m1", "m2"}
    ServedBy <- TwoServed
    Sessions = {"a", "b"}
    Collections = {"k"}
    MaxEdits = 2
    PromptTools = {"k1", "k2"}
    MaxTexts = 1
    SectionKeys <- DefaultOrder
    Routes = {"a"}
    MaxDrags = 2
    MaxPushes = 3
    ProviderTypes = {"pinecone", "tei"}
    Limit <- Limits
    Potential <- Kinds
    Serves <- Live
    Secrets = {"k"}
    Values = {"a"}
    Elsewhere = {"b"}
    MaxIds = 2
SPECIFICATION MCSpec
INVARIANTS
    LoadingIsCurrent   FilesHold 
    
PROPERTIES
    ContractSpec SwitchReplacesThePrimary ReasoningKept
CHECK_DEADLOCK FALSE
