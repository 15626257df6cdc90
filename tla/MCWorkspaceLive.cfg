\* The pages with a liveness property, one at a time, each under the fairness
\* it states.
CONSTANTS
    None = None
    Pages = {"landing", "run", "playback", "session", "catalogs", "turns"}
    Slots = {"bench"}
    Benchmark = "bench"
    Runs = {"run"}
    MaxActions = 1
    Corpora <- TwoCorpora
    MatchingPages <- TwoCorporaPages
    Searches = {"", "x"}
    Questions <- ThreeQuestions
    PageSize = 2
    MaxEdits = 1
    Evaluated = 2
    Datasets <- SizesOf
    Ingestion = {"ing"}
    Limit <- Bounds
    ServerKnows = {"broad", "narrow"}
    NodeCap <- Caps
    Cutoffs = {1, 4}
    Typed = {1, 9}
    Overfetch = 2
    MaxTopK = 6
    Collections = {"docs", "wiki"}
    Models = {"json", "plain"}
    Structured = {"json"}
    QuestionKinds = {"fact", "multi"}
    Numbers = {0, 1, 9}
    MaxQuestions = 5
    MaxExamples = 2
    Chunks = {"a1", "a2", "b"}
    Document <- DocumentOf
    Index <- PlaceOf
    RankedLists <- ListsOf
    Pipeline <- PipelineOf
    Nodes <- NodesOf
    MaxMoves = 1
    Registration = {FALSE}
    Keys = {"u_chat", "v_chat"}
    UserOf <- HookUsers
    Users = {"u", "v"}
    Hooks = {"a", "b", "c"}
    KeyOf <- HookKeys
    MaxVersion = 1
    MaxFlights = 2
    Saved = {}
    Fresh = {"m"}
    MaxTurns = 2
SPECIFICATION FairSpec
PROPERTIES
    WaitsEnd PlaysEnd SpinnerGivesWay
CHECK_DEADLOCK FALSE
