-------------------------------- MODULE MCData ---------------------------------
(***************************************************************************)
(* The console's set-up, connections, collections, files and chat for TLC, *)
(* and the hook its pages read the server through, one at a time. The hook *)
(* is the extended module; while another page moves it stays in its        *)
(* initial state.                                                          *)
(***************************************************************************)
EXTENDS ApiQuery, Integers, Sequences, FiniteSetTheorems, TLC, TLAPS

CONSTANTS
    Pages,         \* the pages among which one moves
    SetupModels, Names, Backends, Dim, Reported, Configured, Cap, Found,
    MaxCollections,                                        \* the set-up
    Texts, MaxRows, MaxTurns, HistoryLimit,                \* the chat's messages
    Models, ServedBy, Sessions, Collections, MaxEdits,     \* the chat's settings
    PromptTools, MaxTexts,                                 \* the prompt editor
    SectionKeys, Routes, MaxDrags, MaxPushes,              \* its panels and route
    ProviderTypes, Limit, Potential, Serves, Secrets, Values, Elsewhere, MaxIds   \* connections

\* The wizard's first choices are among those it offers.
ASSUME SetupAssumption ==
    None \notin SetupModels /\ "pgvector" \in Backends /\ "ragworks" \in Names
        /\ "" \notin Names /\ MaxCollections \in Nat

\* A chat has a model to pick and sessions of their own; every section of the
\* run settings occurs once in the default order.
ASSUME ChatAssumption ==
    Models # {} /\ "nobody" \notin Sessions /\ MaxTexts \in Nat /\ HistoryLimit \in Nat
ASSUME PanelsAssumption ==
    SectionKeys \in Seq({SectionKeys[i] : i \in DOMAIN SectionKeys}) /\ SectionKeys # <<>>
        /\ \A i, j \in DOMAIN SectionKeys : SectionKeys[i] = SectionKeys[j] => i = j

VARIABLES
    page,      \* what the behaviour is about: the page that is open
    setupStep, choices, offered, covered, ensuring, booting, leaving, completed,
    setupKnown, setupPage, indexes, installed, lost,
    providersStored, issued, meant, connections, fresh, catalogsOld, adding,
    providersCreating, probing, editing, saving, pendingRemoval, removing,
    installingStored, installingBorn, listed, counted, loads, fetched, wizard,
    installingCreating, target, installingDeleting,
    bindings, ingest, overviewBorn, calls, provided, updated, choice, apply, rows,
    pipelineToAdd, busy, overviewFailed, overviewActs,
    bound, sets, searchListing, searchQuery, topK, selectedToolId, seededToolId,
    argumentValues, result, searchFailed, running, orphans, recentQueries, searchActs,
    touched, lastResult, recent,
    tree, browserBorn, browserRequests, browserListing, path, selected, clipboard,
    newFolder, renaming, browserDeleting, panel, tray, dragged, ops, uses,
    version, chunked, shown, key, previewLoaded, previewFetches, urls, expanded, chunks,
    findQuery, modes, focused, filtersOpen, waiting, sent, count, contentResult,
    st, segsRef, allRef, phaseRef, streamingRef, uncommitted, streamTurn, phase,
    cumulative, emitted, streamPersisted,
    historyStored, rowCount, screen, ghosts, historyOrder, nextOrder, reasoned, poll,
    historyTurn, turnCount, historyLoaded,
    storedSettings, list, chat, cur, previousModel, dirtyTools, settingsListing, asked,
    validIds, edits, carried,
    template, selectedTools, details, drafts, reads, saves, broken, editorOpen,
    activeSection, typed, ownText,
    historyOpen, telemetryOpen, narrow, panelsPersisted, hydrated, panelsOrder,
    lastSaved, serverOrder, saveTimer, puts, profiles, drags, panelsFailed, active,
    param, pending, pushes, pushCount

\* Folders a and c; in a a file b whose ingestion failed.
TwoFolders ==
    1 :> [parent |-> 0, kind |-> "folder", name |-> [base |-> "a", copy |-> 0], status |-> "none"] @@
    2 :> [parent |-> 0, kind |-> "folder", name |-> [base |-> "c", copy |-> 0], status |-> "none"] @@
    3 :> [parent |-> 1, kind |-> "file", name |-> [base |-> "b", copy |-> 0], status |-> "failed"]

\* A note, a scan that only its name tells to be a PDF, a log over the limit.
SomeFiles ==
    [note |-> [type |-> "text/markdown", ext |-> "md", large |-> FALSE],
     scan |-> [type |-> "application/octet-stream", ext |-> "pdf", large |-> TRUE],
     log  |-> [type |-> "text/plain", ext |-> "log", large |-> TRUE]]

\* What is named like a query, of a folder and a file in it.
NamedIn == [q \in {"", "r", "re", "rep"} |-> [folder |-> q = "re", name |-> q \in {"re", "rep"}]]

\* The tools' arguments, and those with a default.
Arguments == [t1 |-> {"k"}, t2 |-> {"k", "m"}, t3 |-> {}]
Seeds == [t1 |-> {"k"}, t2 |-> {"k"}, t3 |-> {}]

\* A type of which one connection is allowed, and one that learns what it
\* serves by asking.
Limits == [pinecone |-> 1, tei |-> None]
Kinds == [pinecone |-> {"vector_store"}, tei |-> {"embedding", "reranking"}]
Live == [pinecone |-> {{"vector_store"}}, tei |-> {{"embedding"}}]

TwoServed == [m \in {"m1", "m2"} |-> IF m = "m1" THEN "c1" ELSE "c2"]

TwoDims == [small |-> 1, large |-> 3]
TwoCaps == [pgvector |-> 2, pinecone |-> 4]
SomeDims == {1, 2, None}

Setup == INSTANCE SetupWizard WITH
    Models <- SetupModels, Overlap <- FALSE, page <- setupPage
Providers == INSTANCE Connections WITH
    Types <- ProviderTypes, Overlap <- FALSE, stored <- providersStored,
    creating <- providersCreating

\* A type allows at least one connection, no server of it serves what its
\* descriptor does not name, and a request is not taken for none.
ASSUME ConnectionsAssumption ==
    /\ \A t \in ProviderTypes : Limit[t] = None \/ (Limit[t] \in Nat /\ Limit[t] >= 1)
    /\ \A t \in ProviderTypes : \A k \in Serves[t] : k \subseteq Potential[t]
    /\ None \notin Providers!Creations /\ None \notin Providers!Updates
    /\ None \notin Providers!Removals
Installing == INSTANCE CollectionsPage WITH
    Ingestion <- {"i1", "i2"}, Retrieval <- {"r1"},
    Default <- [ingestion |-> "i1", retrieval |-> "r1"], Fields <- {"a", "b"},
    Overlap <- FALSE, Edited <- {"ingestion"}, MaxBorn <- 1, stored <- installingStored,
    born <- installingBorn, creating <- installingCreating,
    deleting <- installingDeleting
Overview == INSTANCE CollectionOverview WITH
    ToolPipelines <- {"r1", "r2", "r3"}, IngestPipelines <- {"i1", "i2"},
    Starts <- {<<>>, <<"r1", "r2">>}, Cards <- {"pipelines", "tools"}, Overlap <- FALSE,
    MaxBindings <- 4, DefaultIngest <- "i1", DefaultTool <- "r1", MaxActs <- 3,
    born <- overviewBorn, failed <- overviewFailed, acts <- overviewActs
Search == INSTANCE CollectionSearch WITH
    Tools <- DOMAIN Arguments, Primary <- "t1", Declared <- Arguments,
    Defaulted <- Seeds, Texts <- {"", "p", "q"}, Depths <- {9}, RECENT_LIMIT <- 2,
    MaxOut <- 1, MaxSets <- 1, MaxActs <- 5, listing <- searchListing,
    query <- searchQuery, failed <- searchFailed, acts <- searchActs
Browser == INSTANCE FilesPage WITH
    Start <- TwoFolders, MaxNodes <- 4, Bases <- {"b"}, Overlap <- FALSE,
    MaxFlights <- 2, MaxOps <- 2,
    Uses <- {{"dialogs"}, {"drags"}, {"clipboard"}, {"uploads"}}, born <- browserBorn,
    requests <- browserRequests, listing <- browserListing, deleting <- browserDeleting
Preview == INSTANCE FilePreview WITH
    Files <- SomeFiles, MaxVersions <- 2, loaded <- previewLoaded,
    fetches <- previewFetches
Find == INSTANCE FileSearch WITH
    Queries <- DOMAIN NamedIn, Short <- {"r"}, Named <- NamedIn, MaxRequests <- 3,
    query <- findQuery
Stream == INSTANCE ChatStream WITH
    Tools <- {"t1", "t2"}, MaxSegments <- 3, MaxTokens <- 1, MaxTurns <- 2,
    EventsPerChunk <- 1, turn <- streamTurn, persisted <- streamPersisted
History == INSTANCE ChatHistory WITH
    stored <- historyStored, order <- historyOrder, turn <- historyTurn,
    loaded <- historyLoaded
Settings == INSTANCE ChatSettings WITH
    Chats <- Sessions, NoConn <- "noconn", Nobody <- "nobody", listing <- settingsListing
Prompt == INSTANCE PromptEditor WITH
    Tools <- PromptTools
DefaultOrder == <<"models", "prompt", "tools">>
Panels == INSTANCE ChatPanels WITH
    Chats <- Routes, NewChat <- "new", persisted <- panelsPersisted, order <- panelsOrder,
    failed <- panelsFailed

setupVars == <<setupStep, choices, offered, covered, ensuring, booting, leaving,
    completed, setupKnown, setupPage, indexes, installed, lost>>
providersVars == <<providersStored, issued, meant, connections, fresh, catalogsOld,
    adding, providersCreating, probing, editing, saving, pendingRemoval, removing>>
installingVars == <<installingStored, installingBorn, listed, counted, loads, fetched,
    wizard, installingCreating, target, installingDeleting>>
overviewVars == <<bindings, ingest, overviewBorn, calls, provided, updated, choice,
    apply, rows, pipelineToAdd, busy, overviewFailed, overviewActs>>
searchVars == <<bound, sets, searchListing, searchQuery, topK, selectedToolId,
    seededToolId, argumentValues, result, searchFailed, running, orphans,
    recentQueries, searchActs, touched, lastResult, recent>>
browserVars == <<tree, browserBorn, browserRequests, browserListing, path, selected,
    clipboard, newFolder, renaming, browserDeleting, panel, tray, dragged, ops, uses>>
previewVars == <<version, chunked, shown, key, previewLoaded, previewFetches, urls,
    expanded, chunks>>
findVars == <<findQuery, modes, focused, filtersOpen, waiting, sent, count,
    contentResult>>
streamVars == <<st, segsRef, allRef, phaseRef, streamingRef, uncommitted, streamTurn,
    phase, cumulative, emitted, streamPersisted>>
historyVars == <<historyStored, rowCount, screen, ghosts, historyOrder, nextOrder,
    reasoned, poll, historyTurn, turnCount, historyLoaded>>
settingsVars == <<storedSettings, list, chat, cur, previousModel, dirtyTools,
    settingsListing, asked, validIds, edits, carried>>
promptVars == <<template, selectedTools, details, drafts, reads, saves, broken,
    editorOpen, activeSection, typed, ownText>>
panelsVars == <<historyOpen, telemetryOpen, narrow, panelsPersisted, hydrated,
    panelsOrder, lastSaved, serverOrder, saveTimer, puts, profiles, drags,
    panelsFailed, active, param, pending, pushes, pushCount>>

MCVars == <<page, vars, setupVars, providersVars, installingVars, overviewVars, searchVars,
          browserVars, previewVars, findVars, streamVars, historyVars,
          settingsVars, promptVars, panelsVars>>

\* What moves starts as it does alone.
MCInit ==
    /\ page \in Pages
    /\ Init
    /\ IF page = "setup" THEN Setup!Init
       ELSE /\ setupStep = None /\ choices = None /\ offered = None /\ covered = None
            /\ ensuring = None /\ booting = None /\ leaving = None /\ completed = None
            /\ setupKnown = None /\ setupPage = None /\ indexes = None
            /\ installed = None /\ lost = None
    /\ IF page = "connections" THEN Providers!Init
       ELSE /\ providersStored = None /\ issued = None /\ meant = None
            /\ connections = None /\ fresh = None /\ catalogsOld = None
            /\ adding = None /\ providersCreating = None /\ probing = None
            /\ editing = None /\ saving = None /\ pendingRemoval = None
            /\ removing = None
    /\ IF page = "collections" THEN Installing!Init
       ELSE /\ installingStored = None /\ installingBorn = None /\ listed = None
            /\ counted = None /\ loads = None /\ fetched = None /\ wizard = None
            /\ installingCreating = None /\ target = None /\ installingDeleting = None
    /\ IF page = "overview" THEN Overview!Init
       ELSE /\ bindings = None /\ ingest = None /\ overviewBorn = None /\ calls = None
            /\ provided = None /\ updated = None /\ choice = None /\ apply = None
            /\ rows = None /\ pipelineToAdd = None /\ busy = None
            /\ overviewFailed = None /\ overviewActs = None
    /\ IF page = "search" THEN Search!Init
       ELSE /\ bound = None /\ sets = None /\ searchListing = None
            /\ searchQuery = None /\ topK = None /\ selectedToolId = None
            /\ seededToolId = None /\ argumentValues = None /\ result = None
            /\ searchFailed = None /\ running = None /\ orphans = None
            /\ recentQueries = None /\ searchActs = None /\ touched = None
            /\ lastResult = None /\ recent = None
    /\ IF page = "files" THEN Browser!Init
       ELSE /\ tree = None /\ browserBorn = None /\ browserRequests = None
            /\ browserListing = None /\ path = None /\ selected = None
            /\ clipboard = None /\ newFolder = None /\ renaming = None
            /\ browserDeleting = None /\ panel = None /\ tray = None /\ dragged = None
            /\ ops = None /\ uses = None
    /\ IF page = "preview" THEN Preview!Init
       ELSE /\ version = None /\ chunked = None /\ shown = None /\ key = None
            /\ previewLoaded = None /\ previewFetches = None /\ urls = None
            /\ expanded = None /\ chunks = None
    /\ IF page = "filesearch" THEN Find!Init
       ELSE /\ findQuery = None /\ modes = None /\ focused = None /\ filtersOpen = None
            /\ waiting = None /\ sent = None /\ count = None /\ contentResult = None
    /\ IF page = "stream" THEN Stream!Init
       ELSE /\ st = None /\ segsRef = None /\ allRef = None /\ phaseRef = None
            /\ streamingRef = None /\ uncommitted = None /\ streamTurn = None
            /\ phase = None /\ cumulative = None /\ emitted = None
            /\ streamPersisted = None
    /\ IF page = "history" THEN History!Init
       ELSE /\ historyStored = None /\ rowCount = None /\ screen = None
            /\ ghosts = None /\ historyOrder = None /\ nextOrder = None
            /\ reasoned = None /\ poll = None /\ historyTurn = None /\ turnCount = None
            /\ historyLoaded = None
    /\ IF page = "settings" THEN Settings!Init
       ELSE /\ storedSettings = None /\ list = None /\ chat = None /\ cur = None
            /\ previousModel = None /\ dirtyTools = None /\ settingsListing = None
            /\ asked = None /\ validIds = None /\ edits = None /\ carried = None
    /\ IF page = "prompt" THEN Prompt!Init
       ELSE /\ template = None /\ selectedTools = None /\ details = None
            /\ drafts = None /\ reads = None /\ saves = None /\ broken = None
            /\ editorOpen = None /\ activeSection = None /\ typed = None
            /\ ownText = None
    /\ IF page = "panels" THEN Panels!Init
       ELSE /\ historyOpen = None /\ telemetryOpen = None /\ narrow = None
            /\ panelsPersisted = None /\ hydrated = None /\ panelsOrder = None
            /\ lastSaved = None /\ serverOrder = None /\ saveTimer = None
            /\ puts = None /\ profiles = None /\ drags = None /\ panelsFailed = None
            /\ active = None /\ param = None /\ pending = None /\ pushes = None
            /\ pushCount = None

MCNext ==
    \/ page = "query" /\ Next
         /\ UNCHANGED <<page, setupVars, providersVars, installingVars, overviewVars, searchVars,
                      browserVars, previewVars, findVars, streamVars,
                      historyVars, settingsVars, promptVars, panelsVars>>
    \/ page = "setup" /\ Setup!Next
         /\ UNCHANGED <<page, vars, providersVars, installingVars, overviewVars, searchVars,
                      browserVars, previewVars, findVars, streamVars,
                      historyVars, settingsVars, promptVars, panelsVars>>
    \/ page = "connections" /\ Providers!Next
         /\ UNCHANGED <<page, vars, setupVars, installingVars, overviewVars, searchVars, browserVars,
                      previewVars, findVars, streamVars, historyVars,
                      settingsVars, promptVars, panelsVars>>
    \/ page = "collections" /\ Installing!Next
         /\ UNCHANGED <<page, vars, setupVars, providersVars, overviewVars, searchVars, browserVars,
                      previewVars, findVars, streamVars, historyVars,
                      settingsVars, promptVars, panelsVars>>
    \/ page = "overview" /\ Overview!Next
         /\ UNCHANGED <<page, vars, setupVars, providersVars, installingVars, searchVars, browserVars,
                      previewVars, findVars, streamVars, historyVars,
                      settingsVars, promptVars, panelsVars>>
    \/ page = "search" /\ Search!Next
         /\ UNCHANGED <<page, vars, setupVars, providersVars, installingVars, overviewVars, browserVars,
                      previewVars, findVars, streamVars, historyVars,
                      settingsVars, promptVars, panelsVars>>
    \/ page = "files" /\ Browser!Next
         /\ UNCHANGED <<page, vars, setupVars, providersVars, installingVars, overviewVars, searchVars,
                      previewVars, findVars, streamVars, historyVars,
                      settingsVars, promptVars, panelsVars>>
    \/ page = "preview" /\ Preview!Next
         /\ UNCHANGED <<page, vars, setupVars, providersVars, installingVars, overviewVars, searchVars,
                      browserVars, findVars, streamVars, historyVars,
                      settingsVars, promptVars, panelsVars>>
    \/ page = "filesearch" /\ Find!Next
         /\ UNCHANGED <<page, vars, setupVars, providersVars, installingVars, overviewVars, searchVars,
                      browserVars, previewVars, streamVars, historyVars,
                      settingsVars, promptVars, panelsVars>>
    \/ page = "stream" /\ Stream!Next
         /\ UNCHANGED <<page, vars, setupVars, providersVars, installingVars, overviewVars, searchVars,
                      browserVars, previewVars, findVars, historyVars,
                      settingsVars, promptVars, panelsVars>>
    \/ page = "history" /\ History!Next
         /\ UNCHANGED <<page, vars, setupVars, providersVars, installingVars, overviewVars, searchVars,
                      browserVars, previewVars, findVars, streamVars,
                      settingsVars, promptVars, panelsVars>>
    \/ page = "settings" /\ Settings!Next
         /\ UNCHANGED <<page, vars, setupVars, providersVars, installingVars, overviewVars, searchVars,
                      browserVars, previewVars, findVars, streamVars,
                      historyVars, promptVars, panelsVars>>
    \/ page = "prompt" /\ Prompt!Next
         /\ UNCHANGED <<page, vars, setupVars, providersVars, installingVars, overviewVars, searchVars,
                      browserVars, previewVars, findVars, streamVars,
                      historyVars, settingsVars, panelsVars>>
    \/ page = "panels" /\ Panels!Next
         /\ UNCHANGED <<page, vars, setupVars, providersVars, installingVars, overviewVars, searchVars,
                      browserVars, previewVars, findVars, streamVars,
                      historyVars, settingsVars, promptVars>>

MCSpec == MCInit /\ [][MCNext]_MCVars

--------------------------------------------------------------------------------
\* The index the set-up launches with has the model's dimension and is served,
\* the collection is installed once; a connection keeps the settings that were
\* meant, within the limit of its type, and the checklist opens the gate the
\* server would open.
SetupHolds ==
    /\ page = "setup" =>
          /\ Setup!TypeOK
          /\ Setup!DimensionFitsModel
          /\ Setup!LaunchIsServed
          /\ Setup!InstalledOnce
    /\ page = "connections" =>
          /\ Providers!TypeOK
          /\ Providers!SettingsAreMeant
          /\ Providers!ConnectionsListed
          /\ Providers!LimitHolds
          /\ Providers!ChecklistOpensGate

\* The wizard adopts an existing index only when its dimension matches the
\* model.
AdoptedMatches ==
    page = "setup" => Setup!AdoptedMatches

\* A new collection's overrides are whole and of its pipelines' fields, the
\* settled list and overview are the stored ones, exactly one tool is primary; a
\* search sends the tool's own arguments, its results are those the form asks
\* for and its recents are distinct.
CollectionsHold ==
    /\ page = "collections" =>
          /\ Installing!TypeOK
          /\ Installing!OverridesAreWhole
          /\ Installing!OverridesFitPipelines
          /\ Installing!ListIsTrue
    /\ page = "overview" => Overview!TypeOK /\ Overview!OnePrimary /\ Overview!PageIsTrue
    /\ page = "search" =>
          /\ Search!TypeOK
          /\ Search!ArgumentsAreOfTool
          /\ Search!FormAsksTheResult
          /\ Search!RecentsAreDistinct

\* Applying a choice of pipelines leaves the chosen one as the primary tool, the
\* tool it replaces unbound and the others as they were, provided the page was
\* up to date when it was pressed.
SwitchReplacesThePrimary == [][page = "overview" => Overview!SwitchReplacesThePrimaryStep]_MCVars

\* The files stay a tree without two siblings of a name, a settled page shows
\* it, paths lead back and the tray is true; a preview, its chunks and the
\* search's matches are of what is asked for, and no object URL is left behind.
FilesHold ==
    /\ page = "files" =>
          /\ Browser!TypeOK
          /\ Browser!Acyclic
          /\ Browser!SiblingNames
          /\ Browser!SettledTreeIsTrue
          /\ Browser!PathsLeadBack
          /\ Browser!TrayIsTrue
          /\ Browser!BusyHasRequest
    /\ page = "preview" =>
          /\ Preview!TypeOK
          /\ Preview!PreviewIsCurrent
          /\ Preview!UrlsReleased
          /\ Preview!ChunksAreCurrent
    /\ page = "filesearch" =>
          /\ Find!TypeOK
          /\ Find!MatchesAreOfQuery
          /\ Find!SpinnerHasSearch

\* What the stream has brought of the reasoning and the tools is on screen, by
\* deltas or by polls; a message is sent once and its rows stay in order,
\* whatever placeholder or edit is merged with the polls.
MessagesAreWhole ==
    /\ page = "stream" =>
          /\ Stream!TypeOK
          /\ Stream!FullReasoning
          /\ Stream!ReasoningOnScreen
          /\ Stream!LiveToolsShown
          /\ Stream!PollSeesStream
    /\ page = "history" =>
          /\ History!TypeOK
          /\ History!SentOnce
          /\ History!InOrder
          /\ History!PruneAgrees

\* Reasoning that is shown stays while its message is on screen: a later poll or
\* edit whose rows carry none does not take it away.
ReasoningKept == [][page = "history" => History!ReasoningKeptStep]_MCVars

\* The connection is the model's own, a new chat carries the settings over,
\* overrides are of the model they were tuned for; typed prompt text is kept;
\* one panel is open on a narrow screen, a settled order is the saved one and
\* the route names the selection.
SettingsFollow ==
    /\ page = "settings" =>
          /\ Settings!TypeOK
          /\ Settings!ConnectionOfModel
          /\ Settings!NewChatCarriesOver
          /\ Settings!TunedForModel
    /\ page = "prompt" =>
          /\ Prompt!TypeOK
          /\ Prompt!TypedTextKept
          /\ Prompt!ActiveSectionListed
    /\ page = "panels" =>
          /\ Panels!TypeOK
          /\ Panels!OnePanelWhenNarrow
          /\ Panels!SettledOrderSaved
          /\ Panels!RouteIsSelection

\* Why both hold: the hook loads, without an error, just as long as a request
\* is not cancelled; that request asks for the current key, and whatever it has
\* been answered the key has had since it was sent.
QueryInv ==
    /\ TypeOK
    /\ loading <=> \E r \in requests : ~r.cancelled
    /\ loading => ~error
    /\ \A r \in requests : ~r.cancelled => r.key = deps /\ (r.served => r.answer \in since)
    /\ deps \in Keys => stored[deps] \in since

\* A fetch for the current dependencies keeps the invariant.
LEMMA FetchKeeps ==
    ASSUME QueryInv, NEW k \in Keys, Fetch(k), deps' = k, UNCHANGED <<stored, data>>
    PROVE  QueryInv'
<1> DEFINE new == [id |-> fetches', key |-> k, cancelled |-> FALSE, served |-> FALSE, answer |-> 0]
<1>1. Cancel(requests) \subseteq Requests /\ \A r \in Cancel(requests) : r.cancelled
  BY DEF Cancel, Requests, QueryInv, TypeOK
<1>2. new \in Requests /\ requests' = Cancel(requests) \cup {new}
  BY KeysAssumption DEF Fetch, Requests, QueryInv, TypeOK
<1>3. new.key = k /\ ~new.served /\ ~new.cancelled
  OBVIOUS
<1> HIDE DEF new
<1>4. \A r \in requests' : ~r.cancelled => r = new
  BY <1>1, <1>2
<1>5. requests' \subseteq Requests
  BY <1>1, <1>2
<1>6. stored[k] \in 0..MaxVersion /\ fetches' \in Nat
  BY DEF Fetch, QueryInv, TypeOK
<1>7. TypeOK'
  BY <1>4, <1>5, <1>6 DEF Fetch, QueryInv, TypeOK
<1>8. QED
  BY <1>2, <1>3, <1>4, <1>7 DEF Fetch, QueryInv

\* Every step of the hook keeps the invariant.
LEMMA QueryStep == QueryInv /\ [Next]_vars => QueryInv'
<1> SUFFICES ASSUME QueryInv, [Next]_vars PROVE QueryInv'
  OBVIOUS
<1>1. ASSUME NEW k \in Keys, ChangeDeps(k) PROVE QueryInv'
  BY <1>1, FetchKeeps DEF ChangeDeps
<1>2. CASE Reload
  <2>1. deps \in Keys
    BY <1>2 DEF Reload, QueryInv, TypeOK
  <2>2. QED
    BY <1>2, <2>1, FetchKeeps DEF Reload
<1>3. CASE Disable
  <2>1. ASSUME NEW r \in requests
        PROVE  [r EXCEPT !.cancelled = TRUE] \in Requests /\ [r EXCEPT !.cancelled = TRUE].cancelled
    BY DEF Requests, QueryInv, TypeOK
  <2>2. requests' \subseteq Requests /\ \A r \in requests' : r.cancelled
    BY <1>3, <2>1 DEF Disable, Cancel
  <2>3. QED
    BY <1>3, <2>2, KeysAssumption DEF Disable, QueryInv, TypeOK
<1>4. ASSUME NEW k \in Keys, Write(k) PROVE QueryInv'
  <2>1. stored[k] + 1 \in 0..MaxVersion
    BY <1>4, KeysAssumption DEF Write, QueryInv, TypeOK
  <2>2. stored' \in [Keys -> 0..MaxVersion] /\ stored'[k] = stored[k] + 1
    BY <1>4, <2>1 DEF Write, QueryInv, TypeOK
  <2>3. since \subseteq since' /\ since' \subseteq 0..MaxVersion
    BY <1>4, <2>1, <2>2 DEF Write, QueryInv, TypeOK
  <2>4. deps \in Keys => stored'[deps] \in since'
    BY <1>4, <2>2 DEF Write, QueryInv, TypeOK
  <2>5. QED
    BY <1>4, <2>2, <2>3, <2>4 DEF Write, QueryInv, TypeOK
<1>5. ASSUME NEW r \in requests, Serve(r) PROVE QueryInv'
  <2> DEFINE served == [r EXCEPT !.served = TRUE, !.answer = stored[r.key]]
  <2>1. r \in Requests
    BY DEF QueryInv, TypeOK
  <2>2. /\ served \in Requests /\ served.key = r.key /\ served.cancelled = r.cancelled
        /\ served.answer = stored[r.key] /\ requests' = (requests \ {r}) \cup {served}
    BY <1>5, <2>1 DEF Serve, Requests, QueryInv, TypeOK
  <2> HIDE DEF served
  <2>3. TypeOK'
    BY <1>5, <2>2 DEF Serve, QueryInv, TypeOK
  <2>4. (\E s \in requests : ~s.cancelled) <=> \E s \in requests' : ~s.cancelled
    BY <2>2
  <2>5. \A s \in requests' : ~s.cancelled => s.key = deps /\ (s.served => s.answer \in since)
    BY <2>1, <2>2 DEF Requests, QueryInv
  <2>6. QED
    BY <1>5, <2>3, <2>4, <2>5 DEF Serve, QueryInv
<1>6. ASSUME NEW r \in requests, Resolve(r) \/ Reject(r) PROVE QueryInv'
  <2>1. requests' = requests \ {r} /\ r \in Requests
    BY <1>6 DEF Resolve, Reject, QueryInv, TypeOK
  <2>2. TypeOK'
    BY <1>6, <2>1 DEF Resolve, Reject, Requests, QueryInv, TypeOK
  <2>3. CASE r.cancelled
    BY <1>6, <2>1, <2>2, <2>3 DEF Resolve, Reject, QueryInv
  <2>4. CASE ~r.cancelled
    <3>1. \A s \in requests' : s.cancelled
      BY <2>1, <2>4 DEF QueryInv, TypeOK
    <3>2. QED
      BY <1>6, <2>1, <2>2, <2>4, <3>1 DEF Resolve, Reject, QueryInv
  <2>5. QED
    BY <2>3, <2>4
<1>7. CASE UNCHANGED vars
  BY <1>7 DEF vars, QueryInv, TypeOK
<1>8. QED
  BY <1>1, <1>2, <1>3, <1>4, <1>5, <1>6, <1>7 DEF Next

\* It holds always.
LEMMA QueryInvariant == Spec => []QueryInv
<1>1. Init => QueryInv
  <2> SUFFICES ASSUME Init PROVE QueryInv
    OBVIOUS
  <2>1. TypeOK
    <3>1. 0 \in 0..MaxVersion
      BY KeysAssumption
    <3>2. stored \in [Keys -> 0..MaxVersion]
      BY <3>1 DEF Init
    <3>3. QED
      BY <3>2 DEF Init, TypeOK
  <2>2. QED
    BY <2>1, KeysAssumption DEF Init, QueryInv
<1>2. QED
  BY <1>1, QueryStep, PTL DEF Spec

\* For any keys, versions and number of requests, the spinner is shown exactly
\* while a request for the current dependencies is out that was not cancelled.
THEOREM SpinnerIsCurrent == Spec => []LoadingIsCurrent
<1>1. QueryInv => LoadingIsCurrent
  BY DEF QueryInv, LoadingIsCurrent
<1>2. QED
  BY <1>1, QueryInvariant, PTL

\* For any keys, versions and number of requests, the hook keeps the contract:
\* what a settled read shows is a value its key has had since the last question.
THEOREM HookImplementsContract == Spec => ContractSpec
<1>1. Init => Contract!Init
  BY DEF Init, Contract!Init
<1>2. QueryInv /\ QueryInv' /\ [Next]_vars => [Contract!Next]_Contract!vars
  <2> SUFFICES ASSUME QueryInv, [Next]_vars PROVE [Contract!Next]_Contract!vars
    OBVIOUS
  <2> USE KeysAssumption
  <2>1. ASSUME NEW k \in Keys, Fetch(k), deps' = k, UNCHANGED <<stored, data>> PROVE Contract!Ask
    BY <2>1 DEF Fetch, Contract!Ask, QueryInv, TypeOK
  <2>2. ASSUME NEW k \in Keys, ChangeDeps(k) PROVE Contract!Next
    BY <2>1, <2>2 DEF ChangeDeps, Contract!Next
  <2>3. CASE Reload
    BY <2>1, <2>3 DEF Reload, Contract!Next, QueryInv, TypeOK
  <2>4. CASE Disable
    BY <2>4 DEF Disable, Contract!Disable, Contract!Next
  <2>5. ASSUME NEW k \in Keys, Write(k) PROVE [Contract!Next]_Contract!vars
    <3>1. CASE k = deps
      <4>1. stored'[k] \in 0..MaxVersion /\ since' = since \cup {stored'[k]}
        BY <2>5, <3>1 DEF Write, QueryInv, TypeOK
      <4>2. Contract!Change
        BY <2>5, <3>1, <4>1 DEF Write, Contract!Change
      <4>3. QED
        BY <4>2 DEF Contract!Next
    <3>2. CASE k # deps
      BY <2>5, <3>2 DEF Write, Contract!vars
    <3>3. QED
      BY <3>1, <3>2
  <2>6. ASSUME NEW r \in requests, Serve(r) PROVE UNCHANGED Contract!vars
    BY <2>6 DEF Serve, Contract!vars
  <2>7. ASSUME NEW r \in requests, Resolve(r) PROVE [Contract!Next]_Contract!vars
    <3>1. CASE r.cancelled
      BY <2>7, <3>1 DEF Resolve, Contract!vars
    <3>2. CASE ~r.cancelled
      <4>1. loading /\ ~error /\ deps \in Keys /\ r.answer \in since
        BY <2>7, <3>2 DEF Resolve, Requests, QueryInv, TypeOK
      <4>2. Contract!Settle
        BY <2>7, <3>2, <4>1 DEF Resolve, Contract!Settle
      <4>3. QED
        BY <4>2 DEF Contract!Next
    <3>3. QED
      BY <3>1, <3>2
  <2>8. ASSUME NEW r \in requests, Reject(r) PROVE [Contract!Next]_Contract!vars
    <3>1. CASE r.cancelled
      BY <2>8, <3>1 DEF Reject, Contract!vars
    <3>2. CASE ~r.cancelled
      <4>1. loading /\ ~error /\ deps \in Keys
        BY <2>8, <3>2 DEF Reject, Requests, QueryInv, TypeOK
      <4>2. Contract!Fail
        BY <2>8, <3>2, <4>1 DEF Reject, Contract!Fail
      <4>3. QED
        BY <4>2 DEF Contract!Next
    <3>3. QED
      BY <3>1, <3>2
  <2>9. CASE UNCHANGED vars
    BY <2>9 DEF vars, Contract!vars
  <2>10. QED
    BY <2>2, <2>3, <2>4, <2>5, <2>6, <2>7, <2>8, <2>9 DEF Next
<1>3. QED
  BY <1>1, <1>2, QueryInvariant, PTL DEF Spec, ContractSpec, Contract!Spec
--------------------------------------------------------------------------------
(* The chat's settings *)

\* The model effect leaves settings that break no rule, of the same model.
LEMMA ApplyKeeps ==
    ASSUME NEW s \in Settings!LegalSettings, Settings!Apply(s)
    PROVE  cur' \in Settings!LegalSettings /\ previousModel' = cur'.model
BY DEF Settings!Apply, Settings!ModelEffect, Settings!LegalSettings, Settings!Settings,
       Settings!Legal

\* So do the session effects, for whatever was in force.
LEMMA EffectsAreLegal ==
    ASSUME NEW c, NEW l \in [Sessions -> Settings!LegalSettings],
           NEW now \in Settings!LegalSettings, c \in Sessions \cup {"nobody"}
    PROVE  Settings!SessionEffects(c, l, now) \in Settings!LegalSettings
BY DEF Settings!SessionEffects, Settings!LegalSettings, Settings!Settings, Settings!Legal

\* Every step of the chat's settings keeps the invariant.
LEMMA SettingsStep ==
    Settings!SettingsInv /\ [Settings!Next]_(Settings!settingsVars) => Settings!SettingsInv'
<1> SUFFICES ASSUME Settings!SettingsInv, [Settings!Next]_(Settings!settingsVars)
             PROVE  Settings!SettingsInv'
  OBVIOUS
<1> USE DEF Settings!SettingsInv, Settings!TypeOK, Settings!NewChatCarriesOver
<1>l. Settings!LegalSettings \subseteq Settings!Settings
  BY DEF Settings!LegalSettings
<1>1. ASSUME NEW c \in Sessions, Settings!SelectChat(c) PROVE Settings!SettingsInv'
  BY <1>1, <1>l, EffectsAreLegal, ApplyKeeps DEF Settings!SelectChat
<1>2. CASE Settings!StartNewChat
  <2>1. Settings!ModelEffect(cur) = cur
    BY DEF Settings!ModelEffect
  <2>2. QED
    BY <1>2, <2>1, <1>l DEF Settings!StartNewChat, Settings!Apply
<1>3. CASE Settings!BackToNewChat
  BY <1>3, <1>l, ApplyKeeps DEF Settings!BackToNewChat
<1>4. CASE Settings!ListAnswers
  <2>1. CASE chat = "nobody"
    <3>1. Settings!SessionEffects(chat, storedSettings, cur) = cur /\ Settings!ModelEffect(cur) = cur
      BY <2>1 DEF Settings!SessionEffects, Settings!ModelEffect
    <3>2. QED
      BY <1>4, <3>1, <1>l DEF Settings!ListAnswers, Settings!Apply
  <2>2. CASE chat # "nobody"
    BY <1>4, <2>2, <1>l, EffectsAreLegal, ApplyKeeps DEF Settings!ListAnswers
  <2>3. QED
    BY <2>1, <2>2
<1>5. ASSUME NEW ids \in SUBSET Collections, Settings!CatalogAnswers(ids) PROVE Settings!SettingsInv'
  <2>1. [cur EXCEPT !.tools = @ \cap ids] \in Settings!LegalSettings
        /\ [cur EXCEPT !.tools = @ \cap ids].model = cur.model
    BY DEF Settings!LegalSettings, Settings!Settings, Settings!Legal
  <2>2. QED
    BY <1>5, <2>1, <1>l DEF Settings!CatalogAnswers
<1>6. ASSUME NEW m \in Models, Settings!PickModel(m) PROVE Settings!SettingsInv'
  <2>1. [cur EXCEPT !.model = m, !.conn = ServedBy[m]].model = m
    BY DEF Settings!LegalSettings, Settings!Settings
  <2>2. Settings!ModelEffect([cur EXCEPT !.model = m, !.conn = ServedBy[m]]) \in Settings!LegalSettings
        /\ Settings!ModelEffect([cur EXCEPT !.model = m, !.conn = ServedBy[m]]).model = m
    BY <1>6 DEF Settings!PickModel, Settings!ModelEffect, Settings!LegalSettings, Settings!Settings,
                Settings!Legal
  <2>3. QED
    BY <1>6, <2>1, <2>2, <1>l DEF Settings!PickModel, Settings!Apply
<1>7. CASE Settings!TuneParameter
  <2>1. [cur EXCEPT !.params = cur.model] \in Settings!LegalSettings
        /\ [cur EXCEPT !.params = cur.model].model = cur.model
    BY DEF Settings!LegalSettings, Settings!Settings, Settings!Legal
  <2>2. QED
    BY <1>7, <2>1, <1>l DEF Settings!TuneParameter
<1>8. ASSUME NEW k \in Collections, Settings!ToggleTool(k) PROVE Settings!SettingsInv'
  <2> DEFINE next == IF k \in cur.tools THEN cur.tools \ {k} ELSE cur.tools \cup {k}
  <2>1. next \in SUBSET Collections
    BY DEF Settings!LegalSettings, Settings!Settings
  <2> HIDE DEF next
  <2>2. CASE chat = "nobody"
    <3>1. [cur EXCEPT !.tools = next] \in Settings!LegalSettings
          /\ [cur EXCEPT !.tools = next].model = cur.model
      BY <2>1 DEF Settings!LegalSettings, Settings!Settings, Settings!Legal
    <3>2. QED
      BY <1>8, <2>2, <3>1, <1>l DEF Settings!ToggleTool, next
  <2>3. CASE chat # "nobody"
    <3>1. list' = [list EXCEPT ![chat].tools = next] /\ chat \in Sessions
      BY <1>8, <2>3 DEF Settings!ToggleTool, next
    <3>2. [list[chat] EXCEPT !.tools = next] \in Settings!LegalSettings
      BY <2>1, <3>1 DEF Settings!LegalSettings, Settings!Settings, Settings!Legal
    <3>3. list' \in [Sessions -> Settings!LegalSettings]
      BY <3>1, <3>2
    <3>4. QED
      BY <1>8, <2>3, <3>3, <1>l, EffectsAreLegal, ApplyKeeps DEF Settings!ToggleTool
  <2>4. QED
    BY <2>2, <2>3
<1>9. CASE Settings!SendTurn
  BY <1>9 DEF Settings!SendTurn
<1>10. ASSUME NEW a \in asked, Settings!TurnAnswers(a) PROVE Settings!SettingsInv'
  <2> DEFINE back == [a.sent EXCEPT !.tools = IF dirtyTools THEN cur.tools ELSE @]
  <2>1. a.chat \in Sessions /\ a.sent \in Settings!LegalSettings
    OBVIOUS
  <2>2. back \in Settings!LegalSettings
    BY <2>1 DEF Settings!LegalSettings, Settings!Settings, Settings!Legal
  <2>3. /\ storedSettings' \in [Sessions -> Settings!LegalSettings]
        /\ list' \in [Sessions -> Settings!LegalSettings]
    BY <1>10, <2>1 DEF Settings!TurnAnswers
  <2>4. cur' \in Settings!LegalSettings /\ previousModel' = cur'.model
    <3>1. CASE chat = "nobody"
      <4>1. Settings!Apply(back)
        BY <1>10, <3>1 DEF Settings!TurnAnswers
      <4>2. QED
        BY <2>2, <4>1, ApplyKeeps
    <3>2. CASE chat # "nobody"
      <4> DEFINE now == Settings!SessionEffects(chat, list', back)
      <4>1. now \in Settings!LegalSettings
        BY <2>2, <2>3, EffectsAreLegal
      <4>2. /\ cur' = IF now.model # a.sent.model THEN [now EXCEPT !.params = "default"] ELSE now
            /\ previousModel' = now.model
        BY <1>10, <3>2 DEF Settings!TurnAnswers
      <4> HIDE DEF now
      <4>3. QED
        BY <4>1, <4>2 DEF Settings!LegalSettings, Settings!Settings, Settings!Legal
    <3>3. QED
      BY <3>1, <3>2
  <2>5. QED
    BY <1>10, <1>l, <2>3, <2>4 DEF Settings!TurnAnswers
<1>11. CASE UNCHANGED Settings!settingsVars
  BY <1>11 DEF Settings!settingsVars
<1>12. QED
  BY <1>1, <1>2, <1>3, <1>4, <1>5, <1>6, <1>7, <1>8, <1>9, <1>10, <1>11 DEF Settings!Next

\* What the settings start from has it.
LEMMA SettingsStart == Settings!Init => Settings!SettingsInv
<1> SUFFICES ASSUME Settings!Init PROVE Settings!SettingsInv
  OBVIOUS
<1>1. Settings!InitialSettings \in Settings!LegalSettings
  BY ChatAssumption DEF Settings!InitialSettings, Settings!LegalSettings, Settings!Settings, Settings!Legal
<1>2. QED
  BY <1>1 DEF Settings!Init, Settings!SettingsInv, Settings!TypeOK, Settings!NewChatCarriesOver,
              Settings!LegalSettings

\* And the settings are then as they should be.
LEMMA SettingsHold ==
    Settings!SettingsInv => /\ Settings!TypeOK /\ Settings!ConnectionOfModel
                            /\ Settings!NewChatCarriesOver /\ Settings!TunedForModel
BY DEF Settings!SettingsInv, Settings!LegalSettings, Settings!Legal, Settings!ConnectionOfModel,
       Settings!TunedForModel

--------------------------------------------------------------------------------
(* The prompt editor *)

\* Reads are asked for with the text stored.
LEMMA ReadsAreTexts ==
    ASSUME NEW n \in Nat, template \in [Prompt!Sections -> 0 .. n],
           NEW tools \in SUBSET PromptTools, NEW ds
    PROVE  Prompt!ReadsFor(tools, ds) \subseteq [section : Prompt!Sections, value : 0 .. n]
BY DEF Prompt!ReadsFor, Prompt!Sections

\* Every step of the prompt editor keeps the invariant.
LEMMA PromptStep ==
    Prompt!PromptInv /\ [Prompt!Next]_(Prompt!promptVars) => Prompt!PromptInv'
<1> SUFFICES ASSUME Prompt!PromptInv, [Prompt!Next]_(Prompt!promptVars) PROVE Prompt!PromptInv'
  OBVIOUS
<1> USE DEF Prompt!PromptInv, Prompt!TypeOK, Prompt!ActiveSectionListed, Prompt!PromptSections
<1> DEFINE Typings == 0 .. typed  Blank == -1  Unread == -2
<1>t. /\ typed \in Nat /\ MaxTexts \in Nat /\ typed <= MaxTexts
      /\ Prompt!Blank = Blank /\ Prompt!Unread = Unread
      /\ Blank \notin Typings /\ Unread \notin Typings
  BY ChatAssumption DEF Prompt!Blank, Prompt!Unread
<1>s. "base" \in Prompt!Sections /\ Prompt!Base = "base" /\ Prompt!Sections = PromptTools \cup {"base"}
  BY DEF Prompt!Sections, Prompt!Base
<1> HIDE DEF Typings
<1>1. ASSUME NEW ts \in SUBSET PromptTools, Prompt!SelectTools(ts) PROVE Prompt!PromptInv'
  <2>1. Prompt!ReadsFor(ts, details) \subseteq [section : Prompt!Sections, value : 0 .. typed]
    BY <1>t, ReadsAreTexts
  <2>2. QED
    BY <1>1, <1>s, <2>1 DEF Prompt!SelectTools
<1>2. ASSUME NEW r \in reads, Prompt!ReadAnswers(r) PROVE Prompt!PromptInv'
  <2>1. Prompt!ReadsFor(selectedTools, details') \subseteq [section : Prompt!Sections, value : 0 .. typed]
    BY <1>t, ReadsAreTexts
  <2>2. r.section \in Prompt!Sections /\ r.value \in 0 .. typed
    OBVIOUS
  <2>3. details' \in [Prompt!Sections -> 0 .. typed \cup {Prompt!Unread}]
    BY <1>2, <2>2 DEF Prompt!ReadAnswers
  <2>4. /\ drafts' \in [Prompt!Sections -> 0 .. typed \cup {Prompt!Blank, Prompt!Unread}]
        /\ \A s \in Prompt!Sections : ownText[s] # Prompt!Unread => drafts'[s] = ownText[s]
    <3>1. \A s \in Prompt!Sections : ownText[s] # Prompt!Unread
              => drafts[s] # Prompt!Blank /\ drafts[s] # Prompt!Unread
      BY <1>t
    <3>2. QED
      BY <1>2, <2>2, <3>1 DEF Prompt!ReadAnswers
  <2>5. reads' \subseteq [section : Prompt!Sections, value : 0 .. typed]
    BY <1>2, <2>1 DEF Prompt!ReadAnswers
  <2>6. UNCHANGED <<template, selectedTools, saves, activeSection, typed, ownText>>
    BY <1>2 DEF Prompt!ReadAnswers
  <2>7. QED
    BY <2>3, <2>4, <2>5, <2>6
<1>3. ASSUME NEW r \in reads, Prompt!ReadFails(r) PROVE Prompt!PromptInv'
  BY <1>3 DEF Prompt!ReadFails
<1>4. CASE Prompt!OpenEditor \/ Prompt!CloseEditor
  BY <1>4, <1>s DEF Prompt!OpenEditor, Prompt!CloseEditor
<1>5. ASSUME NEW s \in Prompt!Sections, Prompt!SelectSection(s) PROVE Prompt!PromptInv'
  BY <1>5 DEF Prompt!SelectSection
<1>6. CASE Prompt!ChangeDraft
  <2>1. /\ typed + 1 \in 0 .. MaxTexts /\ typed + 1 \in 1 .. (typed + 1)
        /\ 0 .. typed \subseteq 0 .. (typed + 1) /\ 1 .. typed \subseteq 1 .. (typed + 1)
    BY <1>6, <1>t DEF Prompt!ChangeDraft
  <2>2. QED
    BY <1>6, <1>t, <2>1 DEF Prompt!ChangeDraft
<1>7. CASE Prompt!ResetDraft
  BY <1>7, <1>t DEF Prompt!ResetDraft
<1>8. CASE Prompt!Save
  <2>1. Prompt!DraftShown(activeSection) \in Typings \cup {Blank}
    BY <1>8, <1>t DEF Prompt!Save, Prompt!HasChanges, Prompt!DraftShown, Typings
  <2>2. QED
    BY <1>8, <1>t, <2>1 DEF Prompt!Save, Typings
<1>9. ASSUME NEW v \in saves, Prompt!SaveAnswers(v) PROVE Prompt!PromptInv'
  <2> DEFINE now == IF v.text = Prompt!Blank THEN 0 ELSE v.text
  <2>1. now \in 0 .. typed /\ v.section \in Prompt!Sections
    BY <1>t DEF Typings
  <2>2. template' = [template EXCEPT ![v.section] = now] /\ template' \in [Prompt!Sections -> 0 .. typed]
    BY <1>9, <2>1 DEF Prompt!SaveAnswers
  <2>3. Prompt!ReadsFor(selectedTools, details') \subseteq [section : Prompt!Sections, value : 0 .. typed]
    BY <1>t, ReadsAreTexts
  <2>4. /\ details' = [details EXCEPT ![v.section] = now]
        /\ drafts' = [drafts EXCEPT ![v.section] = now]
        /\ ownText' = [ownText EXCEPT ![v.section] = Prompt!Unread]
        /\ reads' = reads \cup Prompt!ReadsFor(selectedTools, details')
        /\ saves' = saves \ {v}
        /\ UNCHANGED <<selectedTools, activeSection, typed>>
    BY <1>9 DEF Prompt!SaveAnswers
  <2> HIDE DEF now
  <2>5. /\ details' \in [Prompt!Sections -> 0 .. typed \cup {Prompt!Unread}]
        /\ drafts' \in [Prompt!Sections -> 0 .. typed \cup {Prompt!Blank, Prompt!Unread}]
        /\ ownText' \in [Prompt!Sections -> 1 .. typed \cup {Prompt!Unread}]
        /\ \A s \in Prompt!Sections : ownText'[s] # Prompt!Unread => drafts'[s] = ownText'[s]
    BY <2>1, <2>4
  <2>6. \A s \in Prompt!Sections : template'[s] \in 0 .. MaxTexts
    BY <1>t, <2>2
  <2>7. QED
    BY <2>2, <2>3, <2>4, <2>5, <2>6
<1>10. ASSUME NEW v \in saves, Prompt!SaveFails(v) PROVE Prompt!PromptInv'
  BY <1>10 DEF Prompt!SaveFails
<1>11. CASE UNCHANGED Prompt!promptVars
  BY <1>11 DEF Prompt!promptVars
<1>12. QED
  BY <1>1, <1>2, <1>3, <1>4, <1>5, <1>6, <1>7, <1>8, <1>9, <1>10, <1>11 DEF Prompt!Next

\* What the editor starts from has it.
LEMMA PromptStart == Prompt!Init => Prompt!PromptInv
BY ChatAssumption
DEF Prompt!Init, Prompt!PromptInv, Prompt!TypeOK, Prompt!ActiveSectionListed, Prompt!PromptSections,
    Prompt!Sections, Prompt!Base, Prompt!Blank, Prompt!Unread

\* And what was typed is then shown.
LEMMA PromptHolds ==
    Prompt!PromptInv => Prompt!TypeOK /\ Prompt!TypedTextKept /\ Prompt!ActiveSectionListed
<1>1. ASSUME Prompt!PromptInv, NEW s \in Prompt!Sections, ownText[s] # Prompt!Unread
      PROVE  Prompt!DraftShown(s) = ownText[s]
  BY <1>1 DEF Prompt!PromptInv, Prompt!DraftShown
<1>2. QED
  BY <1>1 DEF Prompt!PromptInv, Prompt!TypedTextKept
--------------------------------------------------------------------------------
(* The chat's panels, sections and route *)

\* The sections of the default order.
LEMMA DefaultSections ==
    /\ SectionKeys \in Panels!Orders /\ Len(SectionKeys) \in Nat
    /\ Panels!Distinct(SectionKeys)
    /\ Panels!Members(SectionKeys) = Panels!ToSet(SectionKeys)
    /\ Tail(SectionKeys) \in Panels!Orders
<1>1. SectionKeys \in Panels!Orders /\ SectionKeys # <<>>
  BY PanelsAssumption DEF Panels!Orders, Panels!ToSet
<1>2. Tail(SectionKeys) \in Panels!Orders /\ Len(SectionKeys) \in Nat
  BY <1>1, Panels!HeadTailProperties, Panels!LenProperties DEF Panels!Orders
<1>3. QED
  BY <1>1, <1>2, PanelsAssumption DEF Panels!Distinct, Panels!Members, Panels!ToSet

\* A list of sections that has each of them once is as long as the default order.
LEMMA WholeOrders ==
    ASSUME NEW o \in Panels!Orders, Panels!Distinct(o),
           Panels!Members(o) = Panels!ToSet(SectionKeys)
    PROVE  Panels!Whole(o)
<1>1. Len(o) = Len(SectionKeys)
  BY DefaultSections, Panels!DistinctLen DEF Panels!Orders
<1>2. o \in [1 .. Len(o) -> Panels!ToSet(SectionKeys)]
  BY Panels!LenProperties DEF Panels!Orders
<1>3. QED
  BY <1>1, <1>2 DEF Panels!Whole

\* An order is a list of sections.
LEMMA WholeIsOrder ==
    ASSUME NEW o, Panels!Whole(o)
    PROVE  o \in Panels!Orders /\ Len(o) = Len(SectionKeys) /\ Panels!Distinct(o)
BY DefaultSections, Panels!FunctionIsSeq DEF Panels!Whole, Panels!Orders

\* normalizeRunSettingsOrder returns every section once, whatever was stored.
LEMMA NormalizeIsWhole ==
    ASSUME NEW given \in Panels!Orders
    PROVE  Panels!Whole(Panels!NormalizeRunSettingsOrder(given))
<1> DEFINE T == Panels!ToSet(SectionKeys)
           first == Panels!Once(given, T)
           rest == Panels!Without(SectionKeys, Panels!ToSet(given))
<1>1. first \in Seq(T) /\ Panels!Members(first) = Panels!Members(given) \intersect T
      /\ Panels!Distinct(first)
  BY Panels!OnceKeeps DEF Panels!Orders
<1>2. rest \in Seq(T) /\ Panels!Members(rest) = T \ Panels!ToSet(given) /\ Panels!Distinct(rest)
  BY DefaultSections, Panels!WithoutKeeps DEF Panels!Orders
<1>3. Panels!Members(given) = Panels!ToSet(given)
  BY DEF Panels!Members, Panels!ToSet
<1> HIDE DEF first, rest, T
<1>4. first \o rest \in Seq(T) /\ Panels!Distinct(first \o rest)
      /\ Panels!Members(first \o rest) = Panels!Members(first) \union Panels!Members(rest)
  BY <1>1, <1>2, <1>3, Panels!ConcatKeeps
<1>5. Panels!Members(given) \subseteq T
  BY Panels!Positions, Panels!ElementOfSeq DEF Panels!Members, Panels!Orders, T
<1>6. Panels!Members(first \o rest) = T
  BY <1>1, <1>2, <1>3, <1>4, <1>5
<1>7. Panels!NormalizeRunSettingsOrder(given) = first \o rest
  BY DEF Panels!NormalizeRunSettingsOrder, first, rest, T
<1>8. QED
  BY <1>4, <1>6, <1>7, WholeOrders DEF Panels!Orders, T

\* arrayMove moves an element, and keeps the others.
LEMMA MoveIsWhole ==
    ASSUME NEW o, Panels!Whole(o), NEW from \in 1 .. Len(SectionKeys),
           NEW to \in 1 .. Len(SectionKeys)
    PROVE  Panels!Whole(Panels!ArrayMove(o, from, to))
<1> DEFINE T == Panels!ToSet(SectionKeys)  N == Len(SectionKeys)
           rest == Panels!RemoveAt(o, from)
           moved == Panels!InsertAt(rest, to, o[from])
           Skip(k) == IF k < from THEN k ELSE k + 1
           Was(k) == IF k = to THEN from ELSE IF k < to THEN Skip(k) ELSE Skip(k - 1)
<1>1. o \in Seq(T) /\ Len(o) = N /\ N \in Nat /\ \A k \in 1 .. N : o[k] \in T
  BY DefaultSections, WholeIsOrder, Panels!ElementOfSeq DEF Panels!Orders
<1>2. /\ rest \in Seq(T) /\ Len(rest) = N - 1
      /\ \A k \in 1 .. N - 1 : rest[k] = o[Skip(k)]
  <2> DEFINE a == SubSeq(o, 1, from - 1)  b == SubSeq(o, from + 1, Len(o))
  <2>1. a \in Seq(T) /\ Len(a) = from - 1 /\ \A k \in 1 .. from - 1 : a[k] = o[k]
    BY <1>1, Panels!SubSeqProperties
  <2>2. b \in Seq(T) /\ Len(b) = N - from /\ \A k \in 1 .. N - from : b[k] = o[from + k]
    BY <1>1, Panels!SubSeqProperties
  <2> HIDE DEF a, b
  <2>3. /\ a \o b \in Seq(T) /\ Len(a \o b) = N - 1
        /\ \A k \in 1 .. N - 1 : (a \o b)[k] = IF k <= from - 1 THEN a[k] ELSE b[k - (from - 1)]
    BY <1>1, <2>1, <2>2, Panels!ConcatProperties
  <2>4. rest = a \o b
    BY DEF Panels!RemoveAt, a, b
  <2>5. \A k \in 1 .. N - 1 : (a \o b)[k] = o[Skip(k)]
    BY <1>1, <2>1, <2>2, <2>3
  <2>6. QED
    BY <2>3, <2>4, <2>5
<1> HIDE DEF rest
<1>3. /\ moved \in Seq(T) /\ Len(moved) = N
      /\ \A k \in 1 .. N : moved[k] = o[Was(k)]
  <2> DEFINE a == SubSeq(rest, 1, to - 1)  b == SubSeq(rest, to, Len(rest))  e == <<o[from]>>
  <2>0. \A k \in 1 .. N - 1 : rest[k] \in T
    BY <1>2, Panels!ElementOfSeq
  <2>1. a \in Seq(T) /\ Len(a) = to - 1 /\ \A k \in 1 .. to - 1 : a[k] = rest[k]
    BY <1>1, <1>2, <2>0, Panels!SubSeqProperties
  <2>2. b \in Seq(T) /\ Len(b) = N - to /\ \A k \in 1 .. N - to : b[k] = rest[to + k - 1]
    BY <1>1, <1>2, <2>0, Panels!SubSeqProperties
  <2>3. e \in Seq(T) /\ Len(e) = 1 /\ e[1] = o[from]
    BY <1>1
  <2> DEFINE ae == a \o e
  <2> HIDE DEF a, b, e
  <2>c. /\ ae \in Seq(T) /\ Len(ae) = Len(a) + Len(e)
        /\ \A k \in 1 .. Len(a) + Len(e) : ae[k] = IF k <= Len(a) THEN a[k] ELSE e[k - Len(a)]
    BY <2>1, <2>3, Panels!ConcatProperties
  <2> HIDE DEF ae
  <2>4. /\ ae \in Seq(T) /\ Len(ae) = to
        /\ \A k \in 1 .. to - 1 : ae[k] = rest[k]
        /\ ae[to] = o[from]
    <3>1. to \in Nat /\ to >= 1 /\ to <= N /\ (to - 1) + 1 = to /\ to - (to - 1) = 1
      BY <1>1
    <3>2. Len(ae) = to /\ \A k \in 1 .. to : ae[k] = IF k <= to - 1 THEN a[k] ELSE e[k - (to - 1)]
      BY <2>1, <2>3, <2>c, <3>1
    <3>3. ae[to] = e[1] /\ \A k \in 1 .. to - 1 : ae[k] = a[k]
      BY <3>1, <3>2
    <3>4. QED
      BY <2>1, <2>3, <2>c, <3>1, <3>2, <3>3
  <2>5. /\ ae \o b \in Seq(T) /\ Len(ae \o b) = N
        /\ \A k \in 1 .. N : (ae \o b)[k] = IF k <= to THEN ae[k] ELSE b[k - to]
    BY <1>1, <2>2, <2>4, Panels!ConcatProperties
  <2>6. moved = ae \o b
    BY DEF Panels!InsertAt, a, b, e, ae
  <2>7. ASSUME NEW k \in 1 .. N PROVE (ae \o b)[k] = o[Was(k)]
    <3>0. k \in Nat /\ to \in Nat /\ N \in Nat
      BY <1>1
    <3>1. CASE k = to
      <4>1. (ae \o b)[k] = o[from]
        BY <2>4, <2>5, <3>0, <3>1
      <4>2. Was(k) = from
        BY <3>1
      <4> HIDE DEF Was
      <4>3. QED
        BY <4>1, <4>2
    <3>2. CASE k < to
      <4>1. (ae \o b)[k] = rest[k]
        BY <2>4, <2>5, <3>0, <3>2
      <4>2. rest[k] = o[Skip(k)] /\ Was(k) = Skip(k)
        BY <1>1, <1>2, <3>2
      <4> HIDE DEF Was, Skip
      <4>3. QED
        BY <4>1, <4>2
    <3>3. CASE k > to
      <4>1. k - to \in 1 .. N - to /\ to + (k - to) - 1 = k - 1 /\ k - 1 \in 1 .. N - 1
        BY <1>1, <3>3
      <4>2. (ae \o b)[k] = b[k - to] /\ b[k - to] = rest[k - 1]
        BY <1>1, <2>2, <2>5, <3>3, <4>1
      <4>3. QED
        BY <1>1, <1>2, <3>3, <4>1, <4>2
    <3>4. k = to \/ k < to \/ k > to
      BY <3>0
    <3> HIDE DEF Was
    <3>5. QED
      BY <3>1, <3>2, <3>3, <3>4
  <2>8. QED
    BY <2>5, <2>6, <2>7
<1> HIDE DEF moved
<1>4. \A k \in 1 .. N : Was(k) \in 1 .. N /\ \A l \in 1 .. N : Was(k) = Was(l) => k = l
  BY <1>1
<1> HIDE DEF Was
<1>5. DOMAIN moved = 1 .. N /\ DOMAIN o = 1 .. N
  BY <1>1, <1>3, Panels!Positions
<1>6. Panels!Distinct(moved)
  <2>1. Panels!Distinct(o)
    BY WholeIsOrder
  <2>2. ASSUME NEW k \in 1 .. N, NEW l \in 1 .. N, moved[k] = moved[l] PROVE k = l
    <3>1. Was(k) \in DOMAIN o /\ Was(l) \in DOMAIN o /\ o[Was(k)] = o[Was(l)]
      BY <1>3, <1>4, <1>5, <2>2
    <3>2. Was(k) = Was(l)
      BY <2>1, <3>1 DEF Panels!Distinct
    <3>3. QED
      BY <1>4, <3>2
  <2>3. QED
    BY <1>5, <2>2 DEF Panels!Distinct
<1>7. moved \in [1 .. N -> T]
  BY <1>3, Panels!LenProperties
<1>8. Panels!ArrayMove(o, from, to) = moved
  BY DEF Panels!ArrayMove, moved, rest
<1>9. QED
  BY <1>6, <1>7, <1>8 DEF Panels!Whole

\* Every step of the panels, the sections and the route keeps the invariant.
LEMMA PanelsStep ==
    Panels!PanelsInv /\ [Panels!Next]_(Panels!vars) => Panels!PanelsInv'
<1> SUFFICES ASSUME Panels!PanelsInv, [Panels!Next]_(Panels!vars) PROVE Panels!PanelsInv'
  OBVIOUS
<1> DEFINE PanelPart == Panels!OnePanelWhenNarrow
           OrderPart == /\ Panels!Whole(panelsOrder)
                        /\ serverOrder \in Panels!Orders /\ puts \subseteq Panels!Orders
                        /\ profiles \in Seq(Panels!Orders)
                        /\ profiles # <<>> => profiles[Len(profiles)] = serverOrder
                        /\ profiles = <<>> => lastSaved = Panels!NormalizeRunSettingsOrder(serverOrder)
                        /\ ~saveTimer /\ puts = {} /\ profiles = <<>> /\ ~panelsFailed
                             => panelsOrder = lastSaved
           RoutePart == /\ active \in Routes \cup {"new"} /\ param \in Routes \cup {"new"}
                        /\ pushes \subseteq Routes \cup {"new"} /\ Panels!RouteIsSelection
<1>p. PanelPart /\ OrderPart /\ RoutePart
  BY DEF Panels!PanelsInv, Panels!TypeOK
<1>q. PanelPart' /\ OrderPart' /\ RoutePart' => Panels!PanelsInv'
  BY DEF Panels!PanelsInv, Panels!TypeOK
<1> HIDE DEF PanelPart, OrderPart, RoutePart
<1>a. UNCHANGED Panels!panelVars => PanelPart'
  BY <1>p DEF PanelPart, Panels!panelVars, Panels!OnePanelWhenNarrow
<1>b. UNCHANGED Panels!orderVars => OrderPart'
  BY <1>p DEF OrderPart, Panels!orderVars
<1>c. UNCHANGED Panels!routeVars => RoutePart'
  BY <1>p DEF RoutePart, Panels!routeVars, Panels!RouteIsSelection
<1>1. ASSUME NEW n \in BOOLEAN, Panels!Hydrate(n) PROVE Panels!PanelsInv'
  <2>1. PanelPart'
    BY <1>1 DEF PanelPart, Panels!OnePanelWhenNarrow, Panels!Hydrate, Panels!Panels
  <2>2. QED
    BY <1>1, <1>b, <1>c, <1>q, <2>1 DEF Panels!Hydrate
<1>2. CASE \/ Panels!Resize \/ Panels!HistoryOpen \/ Panels!HistoryClose \/ Panels!TelemetryOpen
           \/ Panels!TelemetryClose \/ Panels!OverrideSelect
  <2>1. PanelPart'
    BY <1>2, <1>p DEF PanelPart, Panels!OnePanelWhenNarrow, Panels!Panels, Panels!Resize,
        Panels!HistoryOpen, Panels!HistoryClose, Panels!TelemetryOpen, Panels!TelemetryClose,
        Panels!OverrideSelect
  <2>2. UNCHANGED <<Panels!orderVars, Panels!routeVars>>
    BY <1>2 DEF Panels!Resize, Panels!HistoryOpen, Panels!HistoryClose, Panels!TelemetryOpen,
        Panels!TelemetryClose, Panels!OverrideSelect
  <2>3. QED
    BY <1>b, <1>c, <1>q, <2>1, <2>2
<1>3. ASSUME NEW i \in 1 .. Len(SectionKeys), NEW j \in 1 .. Len(SectionKeys), Panels!DragEnd(i, j)
      PROVE  Panels!PanelsInv'
  <2>1. OrderPart'
    BY <1>3, <1>p, MoveIsWhole DEF OrderPart, Panels!DragEnd, Panels!SaveEffect
  <2>2. QED
    BY <1>3, <1>a, <1>c, <1>q, <2>1 DEF Panels!DragEnd
<1>4. CASE Panels!SaveFires
  <2>1. OrderPart'
    BY <1>4, <1>p, WholeIsOrder DEF OrderPart, Panels!SaveFires
  <2>2. QED
    BY <1>4, <1>a, <1>c, <1>q, <2>1 DEF Panels!SaveFires
<1>5. ASSUME NEW o \in puts, Panels!SaveAnswers(o) PROVE Panels!PanelsInv'
  <2>1. o \in Panels!Orders /\ profiles \in Seq(Panels!Orders)
    BY <1>p DEF OrderPart
  <2>2. /\ profiles' \in Seq(Panels!Orders) /\ profiles' # <<>>
        /\ profiles'[Len(profiles')] = o
    BY <1>5, <2>1, Panels!AppendProperties DEF Panels!SaveAnswers
  <2>3. OrderPart'
    BY <1>5, <1>p, <2>1, <2>2 DEF OrderPart, Panels!SaveAnswers
  <2>4. QED
    BY <1>5, <1>a, <1>c, <1>q, <2>3 DEF Panels!SaveAnswers
<1>6. ASSUME NEW o \in puts, Panels!SaveFails(o) PROVE Panels!PanelsInv'
  <2>1. OrderPart'
    BY <1>6, <1>p DEF OrderPart, Panels!SaveFails
  <2>2. QED
    BY <1>6, <1>a, <1>c, <1>q, <2>1 DEF Panels!SaveFails
<1>7. CASE Panels!ProfileAnswers
  <2> DEFINE n == Panels!NormalizeRunSettingsOrder(Head(profiles))
  <2>1. profiles \in Seq(Panels!Orders) /\ profiles # <<>>
    BY <1>7, <1>p DEF OrderPart, Panels!ProfileAnswers
  <2>2. /\ Head(profiles) \in Panels!Orders /\ Tail(profiles) \in Seq(Panels!Orders)
        /\ Tail(profiles) = <<>> => Head(profiles) = profiles[Len(profiles)]
        /\ Tail(profiles) # <<>> => Tail(profiles)[Len(Tail(profiles))] = profiles[Len(profiles)]
    BY <2>1
  <2>3. Panels!Whole(n)
    BY <2>2, NormalizeIsWhole
  <2>4. /\ profiles' = Tail(profiles) /\ panelsOrder' = n /\ lastSaved' = n
        /\ UNCHANGED <<serverOrder, puts, panelsFailed>>
    BY <1>7 DEF Panels!ProfileAnswers
  <2>5. Tail(profiles) = <<>> => n = Panels!NormalizeRunSettingsOrder(serverOrder)
    BY <1>p, <2>1, <2>2 DEF OrderPart
  <2> HIDE DEF n
  <2>6. OrderPart'
    BY <1>p, <2>1, <2>2, <2>3, <2>4, <2>5 DEF OrderPart
  <2>7. QED
    BY <1>7, <1>a, <1>c, <1>q, <2>6 DEF Panels!ProfileAnswers
<1>8. ASSUME NEW s \in Routes \cup {"new"},
             Panels!Navigate(s) \/ Panels!PushLands(s) \/ Panels!BrowserGoes(s)
      PROVE  Panels!PanelsInv'
  <2>1. RoutePart'
    BY <1>8, <1>p DEF RoutePart, Panels!RouteIsSelection, Panels!RouteEffect, Panels!NoPush,
        Panels!Navigate, Panels!PushLands, Panels!BrowserGoes
  <2>2. QED
    BY <1>8, <1>a, <1>b, <1>q, <2>1 DEF Panels!Navigate, Panels!PushLands, Panels!BrowserGoes
<1>9. CASE UNCHANGED Panels!vars
  BY <1>9, <1>a, <1>b, <1>c, <1>q DEF Panels!vars
<1>10. QED
  BY <1>1, <1>2, <1>3, <1>4, <1>5, <1>6, <1>7, <1>8, <1>9 DEF Panels!Next

\* What they start from has it.
LEMMA PanelsStart == Panels!Init => Panels!PanelsInv
<1> SUFFICES ASSUME Panels!Init PROVE Panels!PanelsInv
  OBVIOUS
<1>1. serverOrder \in Panels!Orders
  <2>1. <<>> \in Panels!Orders
    BY DEF Panels!Orders
  <2>2. QED
    BY <2>1, DefaultSections DEF Panels!Init
<1>2. Panels!Whole(panelsOrder)
  BY <1>1, NormalizeIsWhole DEF Panels!Init
<1>3. profiles \in Seq(Panels!Orders) /\ profiles = <<>>
  BY DEF Panels!Init
<1>4. QED
  BY <1>1, <1>2, <1>3 DEF Panels!Init, Panels!PanelsInv, Panels!TypeOK, Panels!OnePanelWhenNarrow,
      Panels!RouteIsSelection, Panels!NoPush

\* And they are then as they should be.
LEMMA PanelsHold ==
    Panels!PanelsInv => /\ Panels!TypeOK /\ Panels!OnePanelWhenNarrow
                        /\ Panels!SettledOrderSaved /\ Panels!RouteIsSelection
BY DEF Panels!PanelsInv, Panels!SettledOrderSaved
--------------------------------------------------------------------------------
(* The set-up wizard *)

\* The steps in their order.
LEMMA StepsInOrder ==
    /\ {Setup!SETUP_STEPS[i] : i \in 1..5} = {"welcome", "providers", "model", "index", "launch"}
    /\ Setup!At("welcome") = 1 /\ Setup!At("providers") = 2 /\ Setup!At("model") = 3
    /\ Setup!At("index") = 4 /\ Setup!At("launch") = 5
    /\ \A s \in {"welcome", "providers", "model", "index", "launch"} :
         Setup!At(s) > 3 <=> s \in {"index", "launch"}
    /\ Setup!Forward("index") = "launch"
    /\ Setup!Backward("providers") = "welcome" /\ Setup!Backward("model") = "providers"
    /\ Setup!Backward("index") = "model" /\ Setup!Backward("launch") = "index"
<1> DEFINE S == Setup!SETUP_STEPS
<1>1. /\ S[1] = "welcome" /\ S[2] = "providers" /\ S[3] = "model" /\ S[4] = "index"
      /\ S[5] = "launch"
  BY DEF Setup!SETUP_STEPS
<1>2. \A i \in 1..5 : i = 1 \/ i = 2 \/ i = 3 \/ i = 4 \/ i = 5
  OBVIOUS
<1>3. 1 \in 1..5 /\ 2 \in 1..5 /\ 3 \in 1..5 /\ 4 \in 1..5 /\ 5 \in 1..5
  OBVIOUS
<1> HIDE DEF S
<1>4. /\ Setup!At("welcome") = 1 /\ Setup!At("providers") = 2 /\ Setup!At("model") = 3
      /\ Setup!At("index") = 4 /\ Setup!At("launch") = 5
  <2>1. ASSUME NEW s, NEW n \in 1..5, S[n] = s, \A i \in 1..5 : S[i] = s => i = n
        PROVE  Setup!At(s) = n
    BY <2>1 DEF Setup!At, S
  <2>2. \A i \in 1..5 : /\ S[i] = "welcome" => i = 1
                        /\ S[i] = "providers" => i = 2
                        /\ S[i] = "model" => i = 3
                        /\ S[i] = "index" => i = 4
                        /\ S[i] = "launch" => i = 5
    BY <1>1, <1>2
  <2>3. QED
    BY <1>1, <1>3, <2>1, <2>2
<1>5. {S[i] : i \in 1..5} = {"welcome", "providers", "model", "index", "launch"}
  BY <1>1, <1>2, <1>3
<1>6. /\ Setup!Forward("index") = S[5] /\ Setup!Backward("providers") = S[1]
      /\ Setup!Backward("model") = S[2] /\ Setup!Backward("index") = S[3]
      /\ Setup!Backward("launch") = S[4]
  BY <1>4 DEF Setup!Forward, Setup!Backward, S
<1>7. \A s \in {"welcome", "providers", "model", "index", "launch"} :
        Setup!At(s) > 3 <=> s \in {"index", "launch"}
  BY <1>4
<1>8. QED
  BY <1>1, <1>4, <1>5, <1>6, <1>7 DEF S

\* Every step of the wizard keeps the invariant.
LEMMA SetupWizardStep ==
    Setup!SetupInv /\ [Setup!Next]_(Setup!vars) => Setup!SetupInv'
<1> SUFFICES ASSUME Setup!SetupInv, [Setup!Next]_(Setup!vars) PROVE Setup!SetupInv'
  OBVIOUS
<1> DEFINE Types ==
             /\ setupStep \in {"welcome", "providers", "model", "index", "launch"}
             /\ offered \subseteq SetupModels /\ choices \in Setup!Choices
             /\ (ensuring = None \/ booting = None)
             /\ (setupStep \in {"index", "launch"} => choices.model # None)
             /\ installed \in 0..MaxCollections /\ lost \in 0..installed
             /\ leaving \in BOOLEAN /\ completed \in BOOLEAN /\ setupKnown \in BOOLEAN
             /\ DOMAIN indexes = Backends \X Names
           Away == setupPage = "collection" => setupKnown /\ setupStep # "index"
           Fits == /\ Setup!DimensionFitsModel /\ Setup!LaunchIsServed
                   /\ setupStep = "launch" => choices.index # ""
           Chain == ensuring # None =>
                      /\ setupStep = "index" /\ choices.index # "" /\ setupPage = "setup"
                      /\ ensuring \in [choices : {choices}, phase : {"dimension", "create", "describe"}]
                      /\ ensuring.phase # "dimension" => choices.dim = Dim[choices.model]
           Boot == booting # None =>
                      /\ setupStep = "launch" /\ booting = choices /\ setupPage = "setup"
                      /\ ~completed /\ installed < MaxCollections
           Leave == /\ leaving => /\ ensuring = None /\ booting = None /\ setupStep = "launch"
                                  /\ setupKnown /\ setupPage = "setup"
                    /\ completed => setupKnown
           Once == /\ installed <= 1 + lost
                   /\ ~completed /\ ~leaving /\ setupPage # "collection" => installed = lost
<1>a. Setup!SetupInv <=> Types /\ Away /\ Fits /\ Chain /\ Boot /\ Leave /\ Once
  <2>1. setupStep \in {"welcome", "providers", "model", "index", "launch"}
            => (Setup!At(setupStep) > 3 <=> setupStep \in {"index", "launch"})
    BY StepsInOrder
  <2>2. QED
    BY <2>1, StepsInOrder DEF Setup!SetupInv, Setup!TypeOK, Setup!InstalledOnce, Setup!busy,
        Setup!Choices
<1>b. Types' /\ Away' /\ Fits' /\ Chain' /\ Boot' /\ Leave' /\ Once' => Setup!SetupInv'
  <2> SUFFICES ASSUME Types', Away', Fits', Chain', Boot', Leave', Once' PROVE Setup!SetupInv'
    OBVIOUS
  <2>1. setupStep' \in {"welcome", "providers", "model", "index", "launch"}
            => (Setup!At(setupStep') > 3 <=> setupStep' \in {"index", "launch"})
    BY StepsInOrder
  <2>2. QED
    BY <2>1, StepsInOrder DEF Setup!SetupInv, Setup!TypeOK, Setup!InstalledOnce, Setup!busy,
        Setup!Choices
<1>c. Types /\ Away /\ Fits /\ Chain /\ Boot /\ Leave /\ Once
  BY <1>a
<1> HIDE DEF Types, Away, Fits, Chain, Boot, Leave, Once
<1>d. ASSUME Setup!Usable
      PROVE  setupPage = "setup" /\ ensuring = None /\ booting = None /\ leaving = FALSE
  BY <1>c, <1>d DEF Setup!Usable, Setup!busy, Types
\* The form or the step changes with nothing under way.
<1>e. ASSUME Setup!Usable, UNCHANGED <<ensuring, booting, Setup!server>>,
             UNCHANGED <<completed, setupKnown, setupPage, leaving>>,
             Types', setupStep' # "launch",
             Setup!DimensionFitsModel'
      PROVE  Setup!SetupInv'
  <2>1. setupPage' = "setup" /\ ensuring' = None /\ booting' = None /\ leaving' = FALSE
    BY <1>d, <1>e
  <2>2. Away' /\ Chain' /\ Boot' /\ Leave' /\ Once'
    BY <1>c, <1>d, <1>e, <2>1 DEF Away, Chain, Boot, Leave, Once, Setup!server
  <2>3. Fits'
    BY <1>e DEF Fits, Setup!LaunchIsServed
  <2>4. QED
    BY <1>b, <1>e, <2>2, <2>3
<1>1. ASSUME NEW s \in {"welcome", "providers", "model", "index"}, Setup!Usable, Setup!Goes(s),
             s = "index" => choices.model # None
      PROVE  Setup!SetupInv'
  BY <1>1, <1>c, <1>e DEF Setup!Goes, Setup!wizardOnly, Setup!server, Types, Fits,
     Setup!DimensionFitsModel
<1>2. CASE Setup!StepWelcome \/ Setup!StepProviders \/ Setup!StepModel
  BY <1>1, <1>2 DEF Setup!StepWelcome, Setup!StepProviders, Setup!StepModel
<1>3. CASE Setup!StepBack
  <2>1. setupStep \in {"providers", "model", "index", "launch"}
    BY <1>3, <1>c DEF Setup!StepBack, Types
  <2>2. Setup!Backward(setupStep) \in {"welcome", "providers", "model", "index"}
    BY <2>1, StepsInOrder
  <2>3. Setup!Backward(setupStep) = "index" => setupStep = "launch"
    BY <2>1, StepsInOrder
  <2>4. QED
    BY <1>1, <1>3, <1>c, <2>2, <2>3 DEF Setup!StepBack, Types
<1>4. CASE Setup!GoHome
  <2>1. Types' /\ Fits'
    BY <1>4, <1>c DEF Setup!GoHome, Types, Fits, Setup!DimensionFitsModel, Setup!LaunchIsServed,
       Setup!server
  <2>2. Away' /\ Chain' /\ Boot' /\ Leave' /\ Once'
    BY <1>4, <1>c DEF Setup!GoHome, Setup!server, Away, Chain, Boot, Leave, Once
  <2>3. QED
    BY <1>b, <2>1, <2>2
<1>5. CASE Setup!handleConnectionsChanged \/ Setup!refreshModels
  <2>0. /\ offered' \subseteq SetupModels
        /\ UNCHANGED <<setupStep, choices, ensuring, booting, leaving, completed, setupKnown, setupPage,
                       indexes, installed, lost>>
    BY <1>5, <1>c DEF Setup!handleConnectionsChanged, Setup!refreshModels, Setup!server, Types
  <2>1. Types' /\ Fits'
    BY <2>0, <1>c DEF Types, Fits, Setup!DimensionFitsModel, Setup!LaunchIsServed
  <2>2. Away' /\ Chain' /\ Boot' /\ Leave' /\ Once'
    BY <2>0, <1>c DEF Away, Chain, Boot, Leave, Once
  <2>3. QED
    BY <1>b, <2>1, <2>2
<1>6. ASSUME NEW c \in Setup!Choices, Setup!Usable, setupStep \in {"model", "index"},
             c.model # None \/ setupStep = "model",
             c.dim # None => c.model # None /\ c.dim = Dim[c.model], Setup!setChoices(c)
      PROVE  Setup!SetupInv'
  BY <1>6, <1>c, <1>e DEF Setup!setChoices, Setup!wizardOnly, Setup!server, Types, Setup!DimensionFitsModel
<1>7. ASSUME NEW m \in SetupModels, Setup!selectModel(m) PROVE Setup!SetupInv'
  <2> DEFINE c == [choices EXCEPT !.model = m, !.dim = IF m \in Reported THEN Dim[m] ELSE None]
  <2>1. c \in Setup!Choices /\ c.model = m /\ c.dim \in {Dim[m], None}
    BY <1>c DEF Types, Setup!Choices
  <2>2. m # None
    BY SetupAssumption
  <2>3. Setup!Usable /\ setupStep = "model" /\ Setup!setChoices(c)
    BY <1>7 DEF Setup!selectModel
  <2> HIDE DEF c
  <2>4. QED
    BY <1>6, <2>1, <2>2, <2>3
<1>8. ASSUME NEW b \in Backends, Setup!selectBackend(b) PROVE Setup!SetupInv'
  <2> DEFINE c == [choices EXCEPT !.backend = b]
  <2>1. c \in Setup!Choices /\ c.model = choices.model /\ c.dim = choices.dim
    BY <1>c DEF Types, Setup!Choices
  <2>2. Setup!Usable /\ setupStep = "index" /\ Setup!setChoices(c)
    BY <1>8 DEF Setup!selectBackend
  <2> HIDE DEF c
  <2>3. QED
    BY <1>6, <1>c, <2>1, <2>2 DEF Types, Fits, Setup!DimensionFitsModel
<1>9. ASSUME NEW n \in Names \cup {""}, Setup!nameIndex(n) PROVE Setup!SetupInv'
  <2> DEFINE c == [choices EXCEPT !.index = n]
  <2>1. c \in Setup!Choices /\ c.model = choices.model /\ c.dim = choices.dim
    BY <1>c DEF Types, Setup!Choices
  <2>2. Setup!Usable /\ setupStep = "index" /\ Setup!setChoices(c)
    BY <1>9 DEF Setup!nameIndex
  <2> HIDE DEF c
  <2>3. QED
    BY <1>6, <1>c, <2>1, <2>2 DEF Types, Fits, Setup!DimensionFitsModel
<1>10. CASE Setup!ensureIndex
  <2> DEFINE stage == IF choices.dim = None THEN "dimension" ELSE "create"
  <2>1. /\ setupPage = "setup" /\ setupStep = "index" /\ choices.index # ""
        /\ ensuring = None /\ booting = None /\ leaving = FALSE
        /\ ensuring' = [choices |-> choices, phase |-> stage]
        /\ UNCHANGED <<setupStep, choices, booting, offered, covered, completed, setupKnown, setupPage, leaving>>
        /\ UNCHANGED <<indexes, installed, lost>>
    BY <1>10, <1>c DEF Setup!ensureIndex, Setup!StepIndex, Setup!busy, Setup!wizardOnly, Setup!server, Types
  <2>2. stage # "dimension" => choices.dim = Dim[choices.model]
    BY <1>c DEF Fits, Setup!DimensionFitsModel
  <2>3. ensuring' \in [choices : {choices}, phase : {"dimension", "create", "describe"}]
        /\ ensuring'.phase = stage
    BY <2>1
  <2> HIDE DEF stage
  <2>4. Types' /\ Fits' /\ Chain'
    BY <1>c, <2>1, <2>2, <2>3 DEF Types, Fits, Chain, Setup!DimensionFitsModel, Setup!LaunchIsServed
  <2>5. Away' /\ Boot' /\ Leave' /\ Once'
    BY <1>c, <2>1 DEF Away, Boot, Leave, Once
  <2>6. QED
    BY <1>b, <2>4, <2>5
<1>11. CASE Setup!fetchEmbeddingDimension
  <2>1. /\ ensuring # None /\ setupStep = "index" /\ ensuring.choices = choices /\ choices.index # ""
        /\ setupPage = "setup" /\ booting = None /\ leaving = FALSE
        /\ ensuring \in [choices : {choices}, phase : {"dimension", "create", "describe"}]
    BY <1>11, <1>c DEF Setup!fetchEmbeddingDimension, Chain, Types, Leave
  <2>2. /\ choices \in Setup!Choices /\ choices.model # None /\ choices.model \in SetupModels
    BY <1>c, <2>1 DEF Types, Setup!Choices
  <2>3. UNCHANGED <<setupStep, booting, offered, covered, completed, setupKnown, setupPage, leaving,
                    indexes, installed, lost>>
    BY <1>11 DEF Setup!fetchEmbeddingDimension, Setup!wizardOnly, Setup!server
  <2>4. CASE ensuring' = None /\ UNCHANGED choices
    <3>1. Types' /\ Fits' /\ Chain' /\ Away' /\ Boot' /\ Leave' /\ Once'
      BY <1>c, <2>1, <2>3, <2>4 DEF Types, Fits, Chain, Away, Boot, Leave, Once,
         Setup!DimensionFitsModel, Setup!LaunchIsServed
    <3>2. QED
      BY <1>b, <3>1
  <2>5. CASE /\ ensuring' = [ensuring EXCEPT !.phase = "create", !.choices.dim = Dim[ensuring.choices.model]]
             /\ choices' = [choices EXCEPT !.dim = Dim[ensuring.choices.model]]
    <3> DEFINE dim == Dim[choices.model]
    <3>1. /\ choices' \in Setup!Choices /\ choices'.dim = dim /\ choices'.model = choices.model
          /\ choices'.index = choices.index /\ choices'.backend = choices.backend
      BY <2>1, <2>2, <2>5 DEF Setup!Choices
    <3>2. ensuring' \in [choices : {choices'}, phase : {"dimension", "create", "describe"}]
      BY <2>1, <2>2, <2>5
    <3> HIDE DEF dim
    <3>3. Types' /\ Fits' /\ Chain'
      BY <1>c, <2>1, <2>2, <2>3, <3>1, <3>2 DEF Types, Fits, Chain, dim,
         Setup!DimensionFitsModel, Setup!LaunchIsServed
    <3>4. Away' /\ Boot' /\ Leave' /\ Once'
      BY <1>c, <2>1, <2>3 DEF Away, Boot, Leave, Once
    <3>5. QED
      BY <1>b, <3>3, <3>4
  <2>6. QED
    BY <1>11, <2>4, <2>5 DEF Setup!fetchEmbeddingDimension
<1>12. CASE Setup!createIndex \/ Setup!describeIndex
  <2> DEFINE slot == <<choices.backend, choices.index>>
  <2>1. /\ ensuring # None /\ setupStep = "index" /\ ensuring.choices = choices /\ choices.index # ""
        /\ setupPage = "setup" /\ booting = None /\ leaving = FALSE
        /\ ensuring \in [choices : {choices}, phase : {"dimension", "create", "describe"}]
        /\ choices.dim = Dim[choices.model] /\ choices.model # None
    BY <1>12, <1>c DEF Setup!createIndex, Setup!describeIndex, Chain, Types, Leave
  <2>2. slot \in DOMAIN indexes /\ Setup!Slot = slot
    BY <1>c, <2>1 DEF Types, Setup!Choices, Setup!Slot
  <2>3. UNCHANGED <<choices, booting, offered, covered, completed, setupKnown, setupPage, leaving,
                    installed, lost>>
    BY <1>12 DEF Setup!createIndex, Setup!describeIndex, Setup!wizardOnly, Setup!server
  <2>4. DOMAIN indexes' = DOMAIN indexes
    BY <1>12 DEF Setup!createIndex, Setup!describeIndex, Setup!server
  <2>5. \/ ensuring' = None /\ UNCHANGED setupStep
        \/ ensuring' = None /\ setupStep' = "launch" /\ indexes'[slot] \in {Dim[choices.model], None}
        \/ /\ ensuring' = [ensuring EXCEPT !.phase = "describe"] /\ UNCHANGED setupStep
    <3>1. CASE Setup!createIndex
      BY <3>1, <2>1, <2>2, StepsInOrder DEF Setup!createIndex
    <3>2. CASE Setup!describeIndex
      BY <3>2, <2>1, <2>2, StepsInOrder DEF Setup!describeIndex, Setup!Adopts, Setup!server
    <3>3. QED
      BY <1>12, <3>1, <3>2
  <2>6. /\ setupStep' \in {"index", "launch"}
        /\ setupStep' = "launch" => ensuring' = None /\ indexes'[slot] \in {Dim[choices.model], None}
        /\ ensuring' # None => ensuring' \in [choices : {choices}, phase : {"dimension", "create", "describe"}]
    BY <2>1, <2>5
  <2> HIDE DEF slot
  <2>7. Types' /\ Chain'
    BY <1>c, <2>1, <2>3, <2>4, <2>6 DEF Types, Chain
  <2>8. Fits'
    BY <1>c, <2>1, <2>3, <2>6 DEF Fits, slot, Setup!DimensionFitsModel, Setup!LaunchIsServed
  <2>9. Away' /\ Boot' /\ Leave' /\ Once'
    BY <1>c, <2>1, <2>3 DEF Away, Boot, Leave, Once
  <2>10. QED
    BY <1>b, <2>7, <2>8, <2>9
<1>13. CASE Setup!finish
  <2>1. /\ setupPage = "setup" /\ setupStep = "launch" /\ ensuring = None /\ booting = None /\ leaving = FALSE
    BY <1>13, <1>c DEF Setup!finish, Setup!StepLaunch, Setup!busy, Types
  <2>2. UNCHANGED <<setupStep, choices, offered, covered, ensuring, indexes, leaving, completed,
                    setupKnown, installed, lost>>
    BY <1>13 DEF Setup!finish, Setup!Keeps
  <2>3. \/ completed /\ setupPage' = "collection" /\ UNCHANGED booting
        \/ ~completed /\ installed < MaxCollections /\ booting' = choices /\ UNCHANGED setupPage
    BY <1>13 DEF Setup!finish
  <2>4. Types' /\ Fits' /\ Chain'
    BY <1>c, <2>1, <2>2, <2>3 DEF Types, Fits, Chain, Setup!DimensionFitsModel, Setup!LaunchIsServed
  <2>5. Away' /\ Boot' /\ Leave' /\ Once'
    BY <1>c, <2>1, <2>2, <2>3 DEF Away, Boot, Leave, Once
  <2>6. QED
    BY <1>b, <2>4, <2>5
<1>14. CASE Setup!BootstrapFails \/ Setup!bootstrapSetup
  <2>1. /\ booting # None /\ setupPage = "setup" /\ setupStep = "launch" /\ ensuring = None
        /\ leaving = FALSE /\ ~completed /\ installed < MaxCollections /\ installed = lost
    BY <1>14, <1>c DEF Setup!BootstrapFails, Setup!bootstrapSetup, Types, Boot, Leave, Once
  <2>2. UNCHANGED <<setupStep, choices, offered, covered, ensuring, indexes, setupPage>> /\ booting' = None
    BY <1>14 DEF Setup!BootstrapFails, Setup!bootstrapSetup, Setup!Keeps
  <2>3. \/ UNCHANGED <<installed, lost, leaving, completed, setupKnown>>
        \/ /\ installed' = installed + 1 /\ lost' = lost + 1 /\ UNCHANGED <<leaving, completed, setupKnown>>
        \/ /\ installed' = installed + 1 /\ setupKnown' = TRUE /\ UNCHANGED lost
           /\ \/ completed' = TRUE /\ UNCHANGED leaving
              \/ leaving' = TRUE /\ UNCHANGED completed
    BY <1>14 DEF Setup!BootstrapFails, Setup!bootstrapSetup
  <2>4. Fits' /\ Chain' /\ Boot' /\ Away'
    BY <1>c, <2>1, <2>2 DEF Fits, Chain, Boot, Away, Setup!DimensionFitsModel, Setup!LaunchIsServed
  <2>m. installed \in 0..MaxCollections /\ MaxCollections \in Nat
    BY <1>c, SetupAssumption DEF Types
  <2>n. installed \in Nat /\ lost = installed /\ MaxCollections \in Nat
    BY <2>1, <2>m
  <2>5. /\ installed' \in 0..MaxCollections /\ lost' \in 0..installed'
        /\ leaving' \in BOOLEAN /\ completed' \in BOOLEAN /\ setupKnown' \in BOOLEAN
    <3>1. installed \in 0..MaxCollections /\ installed + 1 \in 0..MaxCollections
      BY <2>1, <2>n
    <3>2. lost \in 0..installed /\ lost \in 0..(installed + 1) /\ lost + 1 \in 0..(installed + 1)
      BY <2>n
    <3>3. QED
      BY <1>c, <2>3, <3>1, <3>2 DEF Types
  <2>6. Types'
    BY <1>c, <2>1, <2>2, <2>5 DEF Types
  <2>7. Leave'
    BY <1>c, <2>1, <2>2, <2>3 DEF Leave
  <2>8. Once'
    BY <2>1, <2>2, <2>3, <2>n DEF Once
  <2>9. QED
    BY <1>b, <2>4, <2>6, <2>7, <2>8
<1>15. CASE Setup!Left
  <2>1. /\ leaving /\ leaving' = FALSE /\ setupPage' = "collection" /\ setupStep = "launch" /\ setupKnown
        /\ ensuring = None /\ booting = None
        /\ UNCHANGED <<setupStep, choices, offered, covered, ensuring, indexes, booting, completed,
                       setupKnown, installed, lost>>
    BY <1>15, <1>c DEF Setup!Left, Setup!Keeps, Leave
  <2>2. Types' /\ Fits' /\ Chain'
    BY <1>c, <2>1 DEF Types, Fits, Chain, Setup!DimensionFitsModel, Setup!LaunchIsServed
  <2>3. Away' /\ Boot' /\ Leave' /\ Once'
    BY <1>c, <2>1 DEF Away, Boot, Leave, Once
  <2>4. QED
    BY <1>b, <2>2, <2>3
<1>16. CASE UNCHANGED Setup!vars
  <2>1. Types' /\ Fits' /\ Chain' /\ Away' /\ Boot' /\ Leave' /\ Once'
    BY <1>16, <1>c DEF Setup!vars, Types, Fits, Chain, Away, Boot, Leave, Once,
       Setup!DimensionFitsModel, Setup!LaunchIsServed
  <2>2. QED
    BY <1>b, <2>1
<1>17. QED
  BY <1>2, <1>3, <1>4, <1>5, <1>7, <1>8, <1>9, <1>10, <1>11, <1>12, <1>13, <1>14, <1>15, <1>16
     DEF Setup!Next

\* What the wizard starts from has it.
LEMMA SetupStart == Setup!Init => Setup!SetupInv
<1> SUFFICES ASSUME Setup!Init PROVE Setup!SetupInv
  OBVIOUS
<1>1. choices \in Setup!Choices /\ choices.model = None /\ choices.dim = None
  BY SetupAssumption DEF Setup!Init, Setup!initialSetupWizardState, Setup!Choices
<1>2. DOMAIN indexes = Backends \X Names
  BY DEF Setup!Init
<1>3. setupStep \in {Setup!SETUP_STEPS[i] : i \in 1..5} /\ ~(Setup!At(setupStep) > 3)
  BY StepsInOrder DEF Setup!Init
<1>4. Setup!TypeOK
  <2>1. choices.model \in SetupModels \cup {None} /\ choices.index \in Names \cup {""}
    BY <1>1 DEF Setup!Choices
  <2>2. installed = 0 /\ lost = 0 /\ ensuring = None /\ setupPage = "setup" /\ offered = SetupModels
    BY DEF Setup!Init
  <2>3. installed \in 0..MaxCollections /\ lost \in 0..installed
    <3>1. MaxCollections \in Nat
      BY SetupAssumption
    <3>2. 0 \in 0..MaxCollections /\ 0 \in 0..0
      BY <3>1
    <3>3. QED
      BY <2>2, <3>2
  <2>4. /\ offered \subseteq SetupModels /\ setupPage # "collection" /\ (ensuring = None \/ booting = None)
    BY <2>2
  <2>5. QED
    BY <1>3, <2>1, <2>2, <2>3, <2>4, Zenon DEF Setup!TypeOK
<1>5. /\ setupStep = "welcome" /\ setupPage = "setup" /\ ensuring = None /\ booting = None
      /\ leaving = FALSE /\ completed = FALSE /\ setupKnown \in BOOLEAN /\ installed = 0 /\ lost = 0
  BY DEF Setup!Init
<1>6. /\ Setup!DimensionFitsModel /\ Setup!LaunchIsServed
  BY <1>1, <1>5, Zenon DEF Setup!DimensionFitsModel, Setup!LaunchIsServed
<1>7. Setup!InstalledOnce
  BY <1>5 DEF Setup!InstalledOnce
<1>8. ~Setup!busy /\ setupStep # "launch"
  BY <1>5 DEF Setup!busy
<1>9. leaving \in BOOLEAN /\ completed \in BOOLEAN
  BY <1>5
<1>10. QED
  BY <1>1, <1>2, <1>4, <1>5, <1>6, <1>7, <1>8, <1>9, Zenon DEF Setup!SetupInv

--------------------------------------------------------------------------------
(* The connections *)

\* The instance counts as its set theory does, and finite domains are counted
\* by the elements they gain and lose.
LEMMA CountIsCardinality ==
    ASSUME NEW f, NEW t
    PROVE  Providers!Count(f, t) = Cardinality({i \in DOMAIN f : f[i].type = t})
  BY DEF Providers!Count, Providers!Cardinality, Cardinality

LEMMA CountIsFinite ==
    ASSUME NEW f, NEW t, NEW n \in Nat, DOMAIN f \subseteq 1..n
    PROVE  /\ IsFiniteSet({i \in DOMAIN f : f[i].type = t})
           /\ Providers!Count(f, t) \in Nat
<1>1. IsFiniteSet(1..n)
  BY FS_Interval
<1>2. IsFiniteSet({i \in DOMAIN f : f[i].type = t})
  BY <1>1, FS_Subset
<1>3. QED
  BY <1>2, FS_CardinalityType, CountIsCardinality

\* Rows keep their number of a type while they keep their types.
LEMMA CountKeeps ==
    ASSUME NEW f, NEW g, NEW t, DOMAIN g = DOMAIN f, \A i \in DOMAIN f : g[i].type = f[i].type
    PROVE  Providers!Count(g, t) = Providers!Count(f, t)
<1>1. {i \in DOMAIN g : g[i].type = t} = {i \in DOMAIN f : f[i].type = t}
  OBVIOUS
<1>2. QED
  BY <1>1, CountIsCardinality

\* A new row counts for its own type alone.
LEMMA CountExtends ==
    ASSUME NEW f, NEW r, NEW t, NEW n \in Nat, DOMAIN f \subseteq 1..n
    PROVE  Providers!Count(Providers!Extend(f, n + 1, r), t) =
             IF r.type = t THEN Providers!Count(f, t) + 1 ELSE Providers!Count(f, t)
<1> DEFINE g == Providers!Extend(f, n + 1, r)
           S == {i \in DOMAIN f : f[i].type = t}
<1>1. /\ DOMAIN g = DOMAIN f \cup {n + 1} /\ g[n + 1] = r
      /\ \A i \in DOMAIN f : i # n + 1 => g[i] = f[i]
  BY DEF Providers!Extend
<1>2. n + 1 \notin DOMAIN f
  OBVIOUS
<1>3. IsFiniteSet(S)
  BY CountIsFinite
<1> HIDE DEF g
<1>4. {i \in DOMAIN g : g[i].type = t} = IF r.type = t THEN S \cup {n + 1} ELSE S
  <2>1. \A i \in DOMAIN g : i \in DOMAIN f \/ i = n + 1
    BY <1>1
  <2>2. \A i \in DOMAIN f : g[i] = f[i] /\ i \in DOMAIN g
    BY <1>1, <1>2
  <2>3. n + 1 \in DOMAIN g /\ g[n + 1] = r
    BY <1>1
  <2>4. QED
    BY <2>1, <2>2, <2>3
<1>5. n + 1 \notin S
  BY <1>2
<1> HIDE DEF S
<1>6. Cardinality(S \cup {n + 1}) = Cardinality(S) + 1
  BY <1>3, <1>5, FS_AddElement
<1>7. Providers!Count(f, t) = Cardinality(S)
  BY CountIsCardinality DEF S
<1>8. Providers!Count(g, t) = Cardinality({i \in DOMAIN g : g[i].type = t})
  BY CountIsCardinality
<1>9. Providers!Count(g, t) = IF r.type = t THEN Cardinality(S) + 1 ELSE Cardinality(S)
  BY <1>4, <1>6, <1>8
<1>10. QED
  BY <1>7, <1>9 DEF g

\* Rows that go are counted no more.
LEMMA CountRestricts ==
    ASSUME NEW f, NEW t, NEW n \in Nat, DOMAIN f \subseteq 1..n, NEW D \in SUBSET DOMAIN f
    PROVE  Providers!Count(Providers!Restrict(f, D), t) <= Providers!Count(f, t)
<1> DEFINE g == Providers!Restrict(f, D)
           S == {i \in DOMAIN f : f[i].type = t}
           T == {i \in DOMAIN g : g[i].type = t}
<1>1. T \subseteq S
  BY DEF Providers!Restrict
<1>2. IsFiniteSet(S)
  BY CountIsFinite
<1>3. Cardinality(T) <= Cardinality(S)
  BY <1>1, <1>2, FS_Subset
<1>4. Providers!Count(f, t) = Cardinality(S) /\ Providers!Count(g, t) = Cardinality(T)
  BY CountIsCardinality
<1>5. QED
  BY <1>3, <1>4

\* Every step of the connections keeps the invariant.
LEMMA ConnectionsStep ==
    Providers!ConnectionsInv /\ [Providers!Next]_(Providers!vars) => Providers!ConnectionsInv'
<1> SUFFICES ASSUME Providers!ConnectionsInv, [Providers!Next]_(Providers!vars)
             PROVE  Providers!ConnectionsInv'
  OBVIOUS
<1> DEFINE Stock ==
             /\ issued \in Nat /\ DOMAIN providersStored \subseteq 1..issued
             /\ DOMAIN meant = DOMAIN providersStored
             /\ providersStored \in [DOMAIN providersStored -> Providers!Records]
             /\ \A i \in DOMAIN providersStored :
                  providersStored[i].kinds \in Serves[providersStored[i].type]
             /\ Providers!SettingsAreMeant /\ Providers!LimitHolds
           Reads ==
             /\ connections \in [data : {connections.data}, loading : BOOLEAN, error : BOOLEAN,
                                 served : BOOLEAN, answer : {connections.answer}]
             /\ Providers!Readable(connections.data) /\ Providers!Readable(connections.answer)
             /\ (connections.served => connections.loading)
             /\ fresh \in BOOLEAN /\ catalogsOld \in BOOLEAN
           Shown ==
             /\ catalogsOld => Providers!Unanswered
             /\ fresh /\ ~Providers!Unanswered =>
                  /\ connections.served => connections.answer = Providers!list_connections
                  /\ Providers!Settled(connections) => connections.data = Providers!list_connections
           Open ==
             /\ adding \in Providers!AddDialogs /\ editing \in Providers!EditDialogs \cup {None}
             /\ pendingRemoval \in Providers!Ids \cup {None}
             /\ (adding.open => editing = None /\ pendingRemoval = None)
             /\ (editing = None \/ pendingRemoval = None)
           Creates ==
             /\ providersCreating \in Providers!Creations \cup {None}
             /\ providersCreating # None =>
                  /\ adding.open /\ providersCreating.form.key \in Secrets
                  /\ providersCreating.phase = "counted"
                       => Providers!WithinLimit(providersCreating.type)
           Saves ==
             /\ saving \in Providers!Updates \cup {None}
             /\ saving # None =>
                  /\ editing # None /\ saving.payload = Providers!Changed(saving.form)
                  /\ saving.phase = "read" /\ saving.id \in DOMAIN providersStored
                       => saving.read = Providers!Settings(providersStored[saving.id])
           Removes ==
             /\ removing \in Providers!Removals \cup {None}
             /\ removing # None => pendingRemoval # None
<1>a. Stock /\ Reads /\ Shown /\ Open /\ Creates /\ Saves /\ Removes
  BY DEF Providers!ConnectionsInv
<1>b. Stock' /\ Reads' /\ Shown' /\ Open' /\ Creates' /\ Saves' /\ Removes'
        => Providers!ConnectionsInv'
  BY DEF Providers!ConnectionsInv
<1> HIDE DEF Stock, Reads, Shown, Open, Creates, Saves, Removes
\* What the parts depend on.
<1>c. UNCHANGED Providers!rows => Stock'
  BY <1>a DEF Stock, Providers!rows, Providers!SettingsAreMeant, Providers!LimitHolds,
     Providers!Count, Providers!Settings
<1>d. UNCHANGED Providers!page => Reads'
  BY <1>a DEF Reads, Providers!page, Providers!Readable
<1>e. UNCHANGED <<Providers!rows, Providers!page>> /\ Providers!Unanswered' = Providers!Unanswered
        => Shown'
  BY <1>a DEF Shown, Providers!rows, Providers!page, Providers!list_connections, Providers!Settled
<1>f. UNCHANGED Providers!dialogs => Open'
  BY <1>a DEF Open, Providers!dialogs
<1>g. UNCHANGED Providers!writes => Providers!Unanswered' = Providers!Unanswered
  BY DEF Providers!writes, Providers!Unanswered, Providers!Committed
<1>h. UNCHANGED <<providersCreating, providersStored>> /\ (providersCreating # None => adding'.open)
        => Creates'
  BY <1>a DEF Creates, Providers!WithinLimit, Providers!Count
<1>i. UNCHANGED <<saving, providersStored>> /\ (saving # None => editing' # None) => Saves'
  BY <1>a DEF Saves
<1>j. UNCHANGED removing /\ (removing # None => pendingRemoval' # None) => Removes'
  BY <1>a DEF Removes
\* A request that goes on before it commits, or is given up.
<1>k. ASSUME UNCHANGED <<Providers!rows, Providers!page, Providers!dialogs>>,
             Providers!Unanswered' = Providers!Unanswered, Creates', Saves', Removes'
      PROVE  Providers!ConnectionsInv'
  BY <1>b, <1>c, <1>d, <1>e, <1>f, <1>k
\* A dialog that moves while no request of it is out.
<1>l. ASSUME UNCHANGED <<Providers!rows, Providers!page, Providers!writes>>, Open',
             providersCreating # None => adding'.open, saving # None => editing' # None,
             removing # None => pendingRemoval' # None
      PROVE  Providers!ConnectionsInv'
  <2>1. UNCHANGED <<providersCreating, saving, removing, providersStored>>
    BY <1>l DEF Providers!writes, Providers!rows
  <2>2. Creates' /\ Saves' /\ Removes'
    BY <1>h, <1>i, <1>j, <1>l, <2>1
  <2>3. QED
    BY <1>b, <1>c, <1>d, <1>e, <1>g, <1>l, <2>2
<1>m. /\ providersCreating # None => adding.open /\ editing = None /\ pendingRemoval = None
      /\ saving # None => editing # None /\ ~adding.open /\ pendingRemoval = None
      /\ removing # None => pendingRemoval # None /\ editing = None /\ ~adding.open
  BY <1>a DEF Open, Creates, Saves, Removes
<1>n. /\ providersCreating = None \/ saving = None
      /\ providersCreating = None \/ removing = None
      /\ saving = None \/ removing = None
  BY <1>m
<1>o. ASSUME NEW f \in {"key", "url"}, NEW v \in Providers!Typed[f] \cup {""}
      PROVE  (f = "key" /\ v \in Secrets \cup {""}) \/ (f = "url" /\ v \in Providers!Urls)
  <2>1. Providers!Typed["key"] = Secrets /\ Providers!Typed["url"] = Values
    BY DEF Providers!Typed
  <2>2. f = "key" => v \in Secrets \cup {""}
    BY <2>1
  <2>3. f = "url" => v \in Values \cup {""}
    BY <2>1
  <2>4. QED
    BY <2>2, <2>3 DEF Providers!Urls
\* The list is read again once a write is answered.
<1>p. ASSUME connections' = Providers!Ask(connections), catalogsOld' = FALSE, UNCHANGED fresh
      PROVE  Reads' /\ Shown'
  <2>1. /\ connections' \in [data : {connections'.data}, loading : BOOLEAN, error : BOOLEAN,
                            served : BOOLEAN, answer : {connections'.answer}]
        /\ connections'.loading = TRUE /\ connections'.served = FALSE
        /\ connections'.data = connections.data /\ connections'.answer = None
    BY <1>a, <1>p DEF Reads, Providers!Ask
  <2>2. Reads'
    BY <1>a, <1>p, <2>1 DEF Reads, Providers!Readable
  <2>3. Shown'
    BY <1>p, <2>1 DEF Shown, Providers!Settled
  <2>4. QED
    BY <2>2, <2>3
<1>1. CASE Providers!ServeList
  <2>1. /\ connections.loading /\ fresh' = TRUE
        /\ connections' = [connections EXCEPT !.served = TRUE, !.answer = Providers!list_connections]
        /\ UNCHANGED <<Providers!rows, catalogsOld, Providers!dialogs, Providers!writes>>
    BY <1>1 DEF Providers!ServeList, Providers!Unserved, Providers!Serve
  <2>2. UNCHANGED <<providersCreating, saving, removing, providersStored, adding, editing, pendingRemoval>>
    BY <2>1 DEF Providers!writes, Providers!rows, Providers!dialogs
  <2>3. Providers!Readable(Providers!list_connections)
    BY <1>a DEF Stock, Providers!Readable, Providers!list_connections,
       Providers!connection_to_read, Providers!Records
  <2>4. Reads'
    BY <1>a, <2>1, <2>3 DEF Reads, Providers!Readable
  <2>5. Shown'
    <3>1. connections'.answer = Providers!list_connections /\ connections'.loading
      BY <1>a, <2>1 DEF Reads
    <3>2. Providers!list_connections' = Providers!list_connections
      BY <2>2 DEF Providers!list_connections
    <3>3. QED
      BY <1>a, <1>g, <2>1, <3>1, <3>2 DEF Shown, Providers!Settled
  <2>6. Creates' /\ Saves' /\ Removes'
    BY <1>h, <1>i, <1>j, <1>m, <2>2
  <2>7. QED
    BY <1>b, <1>c, <1>f, <2>1, <2>4, <2>5, <2>6
<1>2. CASE Providers!ListAnswers
  <2>1. UNCHANGED <<Providers!rows, fresh, catalogsOld, Providers!dialogs, Providers!writes>>
    BY <1>2 DEF Providers!ListAnswers
  <2>2. UNCHANGED <<providersCreating, saving, removing, providersStored, adding, editing, pendingRemoval>>
    BY <2>1 DEF Providers!writes, Providers!rows, Providers!dialogs
  <2>3. /\ connections'.loading = FALSE /\ connections'.served = FALSE /\ connections'.answer = None
        /\ \/ /\ connections.served /\ connections'.data = connections.answer
              /\ connections'.error = connections.error
           \/ connections'.error = TRUE /\ connections'.data = connections.data
        /\ connections' \in [data : {connections'.data}, loading : BOOLEAN, error : BOOLEAN,
                             served : BOOLEAN, answer : {connections'.answer}]
    BY <1>2, <1>a DEF Reads, Providers!ListAnswers, Providers!Land, Providers!Fault
  <2>4. Reads'
    BY <1>a, <2>1, <2>3 DEF Reads, Providers!Readable
  <2>5. Shown'
    <3>1. Providers!list_connections' = Providers!list_connections
      BY <2>2 DEF Providers!list_connections
    <3>2. QED
      BY <1>a, <1>g, <2>1, <2>3, <3>1 DEF Shown, Providers!Settled
  <2>6. Creates' /\ Saves' /\ Removes'
    BY <1>h, <1>i, <1>j, <1>m, <2>2
  <2>7. QED
    BY <1>b, <1>c, <1>f, <2>1, <2>4, <2>5, <2>6
<1>3. ASSUME NEW i \in Providers!Ids, NEW v \in Elsewhere, Providers!WrittenElsewhere(i, v)
      PROVE  Providers!ConnectionsInv'
  <2>1. /\ providersCreating = None /\ saving = None /\ removing = None
        /\ i \in DOMAIN providersStored
        /\ providersStored' = [providersStored EXCEPT ![i].url = v]
        /\ meant' = [meant EXCEPT ![i].url = v] /\ fresh' = FALSE
        /\ UNCHANGED <<issued, connections, catalogsOld, Providers!dialogs, Providers!writes>>
    BY <1>3 DEF Providers!WrittenElsewhere, Providers!Idle
  <2>2. UNCHANGED <<providersCreating, saving, removing, adding, editing, pendingRemoval>>
    BY <2>1 DEF Providers!writes, Providers!dialogs
  <2>3. \A j \in DOMAIN providersStored :
          /\ providersStored[j] \in Providers!Records /\ meant[j] = Providers!Settings(providersStored[j])
    BY <1>a DEF Stock, Providers!SettingsAreMeant
  <2>4. DOMAIN providersStored' = DOMAIN providersStored /\ DOMAIN meant' = DOMAIN meant
    BY <2>1
  <2>5. \A j \in DOMAIN providersStored :
          /\ providersStored'[j] \in Providers!Records
          /\ providersStored'[j].type = providersStored[j].type
          /\ providersStored'[j].kinds = providersStored[j].kinds
          /\ meant'[j] = [key |-> providersStored'[j].key, url |-> providersStored'[j].url]
    <3>1. \A j \in DOMAIN providersStored : j # i =>
            providersStored'[j] = providersStored[j] /\ meant'[j] = meant[j]
      BY <1>a, <2>1 DEF Stock
    <3>2. /\ providersStored'[i] = [providersStored[i] EXCEPT !.url = v]
          /\ meant'[i] = [meant[i] EXCEPT !.url = v]
      BY <1>a, <2>1 DEF Stock
    <3>3. v \in Providers!Urls
      BY DEF Providers!Urls
    <3>4. \A j \in DOMAIN providersStored : j # i =>
            /\ providersStored'[j] \in Providers!Records
            /\ providersStored'[j].type = providersStored[j].type
            /\ providersStored'[j].kinds = providersStored[j].kinds
            /\ meant'[j] = [key |-> providersStored'[j].key, url |-> providersStored'[j].url]
      BY <2>3, <3>1 DEF Providers!Settings
    <3>5. /\ providersStored[i] \in Providers!Records
          /\ meant[i] = [key |-> providersStored[i].key, url |-> providersStored[i].url]
      BY <2>1, <2>3 DEF Providers!Settings
    <3>6. /\ providersStored'[i] \in Providers!Records
          /\ providersStored'[i].type = providersStored[i].type
          /\ providersStored'[i].kinds = providersStored[i].kinds
          /\ providersStored'[i].key = providersStored[i].key /\ providersStored'[i].url = v
      BY <3>2, <3>3, <3>5 DEF Providers!Records
    <3>7. meant'[i] = [key |-> providersStored'[i].key, url |-> providersStored'[i].url]
      BY <3>2, <3>5, <3>6
    <3>8. QED
      BY <2>1, <3>4, <3>6, <3>7
  <2>6. Stock'
    <3>1. providersStored' \in [DOMAIN providersStored' -> Providers!Records]
      BY <1>a, <2>1, <2>4, <2>5 DEF Stock
    <3>2. \A t : Providers!Count(providersStored', t) = Providers!Count(providersStored, t)
      BY <2>4, <2>5, CountKeeps
    <3>3. Providers!LimitHolds'
      BY <1>a, <3>2 DEF Stock, Providers!LimitHolds
    <3>4. Providers!SettingsAreMeant'
      BY <2>4, <2>5 DEF Providers!SettingsAreMeant, Providers!Settings
    <3>5. \A j \in DOMAIN providersStored' :
            providersStored'[j].kinds \in Serves[providersStored'[j].type]
      BY <1>a, <2>4, <2>5 DEF Stock
    <3>6. QED
      BY <1>a, <2>1, <2>4, <3>1, <3>3, <3>4, <3>5 DEF Stock
  <2>7. Reads' /\ Shown'
    <3>1. Reads'
      BY <1>a, <2>1 DEF Reads, Providers!Readable
    <3>2. Providers!Unanswered' = Providers!Unanswered
      BY <1>g, <2>1
    <3>3. Shown'
      BY <1>a, <2>1, <3>2 DEF Shown
    <3>4. QED
      BY <3>1, <3>3
  <2>8. Creates' /\ Saves' /\ Removes'
    BY <2>1, <2>2 DEF Creates, Saves, Removes
  <2>9. QED
    BY <1>b, <1>f, <2>1, <2>6, <2>7, <2>8
<1>4. CASE Providers!OpenAdd
  <2>1. /\ ~adding.open /\ editing = None /\ pendingRemoval = None
        /\ adding' = [adding EXCEPT !.open = TRUE]
        /\ UNCHANGED <<Providers!rows, Providers!page, Providers!writes, editing, pendingRemoval>>
    BY <1>4 DEF Providers!OpenAdd, Providers!NoDialog, Providers!Shows
  <2>2. Open'
    BY <1>a, <2>1 DEF Open, Providers!AddDialogs
  <2>3. QED
    BY <1>l, <1>m, <2>1, <2>2
<1>5. CASE Providers!handleClose \/ Providers!AddBack \/ \E t \in ProviderTypes : Providers!handlePickType(t)
  <2>1. /\ adding.open
        /\ \/ providersCreating = None /\ adding' = Providers!Closed
           \/ adding' = [adding EXCEPT !.type = None]
           \/ \E t \in ProviderTypes : adding' = [adding EXCEPT !.type = t, !.form = Providers!Blank]
        /\ UNCHANGED <<Providers!rows, Providers!page, Providers!writes, editing, pendingRemoval>>
    BY <1>5 DEF Providers!handleClose, Providers!AddBack, Providers!handlePickType, Providers!Shows
  <2>2. adding' \in Providers!AddDialogs /\ (adding'.open \/ providersCreating = None)
    <3>1. Providers!Closed \in Providers!AddDialogs /\ Providers!Blank \in Providers!Forms
      BY DEF Providers!Closed, Providers!AddDialogs, Providers!Blank, Providers!Forms, Providers!Urls
    <3>2. adding \in Providers!AddDialogs
      BY <1>a DEF Open
    <3>3. QED
      BY <2>1, <3>1, <3>2 DEF Providers!AddDialogs
  <2>3. Open'
    BY <1>a, <2>1, <2>2 DEF Open
  <2>4. QED
    BY <1>l, <1>m, <2>1, <2>2, <2>3
<1>6. ASSUME NEW f \in {"key", "url"}, NEW v \in Providers!Typed[f] \cup {""}, Providers!TypeField(f, v)
      PROVE  Providers!ConnectionsInv'
  <2>1. /\ adding.open /\ providersCreating = None
        /\ adding' = [adding EXCEPT !.form[f] = v]
        /\ UNCHANGED <<Providers!rows, Providers!page, Providers!writes, editing, pendingRemoval>>
    BY <1>6 DEF Providers!TypeField, Providers!Shows
  <2>2. (f = "key" /\ v \in Secrets \cup {""}) \/ (f = "url" /\ v \in Providers!Urls)
    BY <1>o
  <2>3. adding \in Providers!AddDialogs
    BY <1>a DEF Open
  <2>4. adding' \in Providers!AddDialogs
    BY <2>1, <2>2, <2>3 DEF Providers!AddDialogs, Providers!Forms
  <2>5. Open'
    BY <1>a, <2>1, <2>4 DEF Open
  <2>6. QED
    BY <1>l, <1>m, <2>1, <2>5
<1>7. CASE Providers!handleProbe \/ Providers!ProbeAnswers
  <2>1. UNCHANGED <<Providers!rows, Providers!page, Providers!dialogs, Providers!writes>>
    BY <1>7 DEF Providers!handleProbe, Providers!ProbeAnswers
  <2>2. UNCHANGED <<adding, editing, pendingRemoval>>
    BY <2>1 DEF Providers!dialogs
  <2>3. QED
    BY <1>f, <1>l, <1>m, <2>1, <2>2
<1>8. ASSUME NEW i \in Providers!Ids, Providers!onEdit(i) \/ Providers!onRemove(i)
      PROVE  Providers!ConnectionsInv'
  <2>1. /\ ~adding.open /\ editing = None /\ pendingRemoval = None
        /\ i \in DOMAIN Providers!Listed
        /\ \/ /\ editing' = [id |-> i, seen |-> Providers!Listed[i].url,
                            form |-> [key |-> "", url |-> Providers!Listed[i].url]]
              /\ UNCHANGED pendingRemoval
           \/ pendingRemoval' = i /\ UNCHANGED editing
        /\ UNCHANGED <<Providers!rows, Providers!page, Providers!writes, adding>>
    BY <1>8 DEF Providers!onEdit, Providers!onRemove, Providers!NoDialog, Providers!Edits
  <2>2. Providers!Listed[i].url \in Providers!Urls
    <3>1. DOMAIN <<>> = {}
      OBVIOUS
    <3>2. connections.data # None /\ Providers!Listed = connections.data
      BY <2>1, <3>1 DEF Providers!Listed
    <3>3. QED
      BY <1>a, <2>1, <3>2 DEF Reads, Providers!Readable
  <2>3. /\ editing' \in Providers!EditDialogs \cup {None}
        /\ pendingRemoval' \in Providers!Ids \cup {None}
        /\ (editing' = None \/ pendingRemoval' = None)
    <3> DEFINE url == Providers!Listed[i].url
               edit == [id |-> i, seen |-> url, form |-> [key |-> "", url |-> url]]
    <3>1. edit \in Providers!EditDialogs
      <4>1. "" \in Secrets \cup {""} /\ url \in Providers!Urls
        BY <2>2
      <4> HIDE DEF url
      <4>2. QED
        BY <4>1 DEF Providers!EditDialogs, Providers!Forms
    <3>2. (editing' = edit /\ pendingRemoval' = None) \/ (editing' = None /\ pendingRemoval' = i)
      BY <2>1
    <3> HIDE DEF edit
    <3>3. QED
      BY <3>1, <3>2
  <2>4. Open'
    BY <1>a, <2>1, <2>3 DEF Open
  <2>5. QED
    BY <1>l, <1>m, <2>1, <2>4
<1>9. CASE Providers!onClose \/ Providers!onCancel
  <2>1. /\ UNCHANGED <<Providers!rows, Providers!page, Providers!writes, adding>>
        /\ \/ saving = None /\ editing' = None /\ UNCHANGED pendingRemoval
           \/ removing = None /\ pendingRemoval' = None /\ UNCHANGED editing
    BY <1>9 DEF Providers!onClose, Providers!onCancel, Providers!Edits
  <2>2. Open'
    BY <1>a, <2>1 DEF Open
  <2>3. QED
    BY <1>l, <1>m, <2>1, <2>2
<1>10. ASSUME NEW f \in {"key", "url"}, NEW v \in Providers!Typed[f] \cup {""}, Providers!EditField(f, v)
      PROVE  Providers!ConnectionsInv'
  <2>1. /\ editing # None /\ saving = None
        /\ editing' = [editing EXCEPT !.form[f] = v]
        /\ UNCHANGED <<Providers!rows, Providers!page, Providers!writes, adding, pendingRemoval>>
    BY <1>10 DEF Providers!EditField, Providers!Edits
  <2>2. (f = "key" /\ v \in Secrets \cup {""}) \/ (f = "url" /\ v \in Providers!Urls)
    BY <1>o
  <2>3. editing \in Providers!EditDialogs /\ pendingRemoval = None /\ ~adding.open
    BY <1>a, <2>1 DEF Open
  <2>4. editing' \in Providers!EditDialogs
    BY <2>1, <2>2, <2>3 DEF Providers!EditDialogs, Providers!Forms
  <2>5. Open'
    BY <1>a, <2>1, <2>3, <2>4 DEF Open
  <2>6. QED
    BY <1>l, <1>m, <2>1, <2>3, <2>5
<1>11. CASE Providers!handleCreate
  <2>1. /\ adding.open /\ adding.type # None /\ adding.form.key # "" /\ providersCreating = None
        /\ providersCreating' = [type |-> adding.type, form |-> adding.form, phase |-> "sent"]
        /\ UNCHANGED <<Providers!rows, Providers!page, Providers!dialogs, saving, removing>>
    BY <1>11 DEF Providers!handleCreate, Providers!Submittable
  <2>2. UNCHANGED <<providersStored, adding, editing, pendingRemoval>>
    BY <2>1 DEF Providers!rows, Providers!dialogs
  <2>3. Providers!Unanswered' = Providers!Unanswered
    BY <2>1 DEF Providers!Unanswered, Providers!Committed
  <2>4. /\ providersCreating' \in Providers!Creations /\ providersCreating'.phase = "sent"
        /\ providersCreating'.form.key \in Secrets
    BY <1>a, <2>1 DEF Open, Providers!AddDialogs, Providers!Forms, Providers!Creations
  <2>5. Creates' /\ Saves' /\ Removes'
    BY <1>i, <1>j, <1>m, <2>1, <2>2, <2>4 DEF Creates
  <2>6. QED
    BY <1>k, <2>1, <2>3, <2>5
<1>12. CASE Providers!CreateCounts \/ Providers!CreateFails
  <2>1. /\ providersCreating # None /\ providersCreating.phase \in {"sent", "counted", "bad"}
        /\ \/ providersCreating' = [providersCreating EXCEPT !.phase = "bad"]
           \/ /\ providersCreating' = [providersCreating EXCEPT !.phase = "counted"]
              /\ Providers!WithinLimit(providersCreating.type)
           \/ providersCreating' = None
        /\ UNCHANGED <<Providers!rows, Providers!page, Providers!dialogs, saving, removing>>
    BY <1>12 DEF Providers!CreateCounts, Providers!CreateFails
  <2>2. UNCHANGED <<providersStored, adding, editing, pendingRemoval>>
    BY <2>1 DEF Providers!rows, Providers!dialogs
  <2>3. providersCreating \in Providers!Creations /\ providersCreating.form.key \in Secrets /\ adding.open
    BY <1>a, <2>1 DEF Creates
  <2>4. \/ providersCreating' = None
        \/ /\ providersCreating' \in Providers!Creations /\ providersCreating'.form = providersCreating.form
           /\ providersCreating'.type = providersCreating.type
           /\ \/ providersCreating'.phase = "bad"
              \/ providersCreating'.phase = "counted" /\ Providers!WithinLimit(providersCreating.type)
    BY <2>1, <2>3 DEF Providers!Creations
  <2>5. Providers!Unanswered' = Providers!Unanswered
    BY <2>1, <2>4 DEF Providers!Unanswered, Providers!Committed
  <2>6. \A t : Providers!WithinLimit(t)' <=> Providers!WithinLimit(t)
    BY <2>2 DEF Providers!WithinLimit, Providers!Count
  <2>7. Creates' /\ Saves' /\ Removes'
    BY <1>i, <1>j, <1>m, <2>1, <2>2, <2>3, <2>4, <2>6 DEF Creates
  <2>8. QED
    BY <1>k, <2>1, <2>5, <2>7
<1>13. CASE Providers!CreateCommits
  <2> DEFINE t == providersCreating.type
             n == issued + 1
  <2>1. PICK k \in Serves[t] :
          providersStored' = Providers!Extend(providersStored, n, Providers!Row(t, providersCreating.form, k))
    BY <1>13 DEF Providers!CreateCommits
  <2> DEFINE r == Providers!Row(t, providersCreating.form, k)
  <2>2. /\ providersCreating # None /\ providersCreating.phase = "counted"
        /\ meant' = Providers!Extend(meant, n, providersCreating.form)
        /\ issued' = n /\ catalogsOld' = TRUE
        /\ providersCreating' = [providersCreating EXCEPT !.phase = "ok"]
        /\ UNCHANGED <<connections, fresh, Providers!dialogs, saving, removing>>
    BY <1>13 DEF Providers!CreateCommits
  <2>3. UNCHANGED <<adding, editing, pendingRemoval>>
    BY <2>2 DEF Providers!dialogs
  <2>4. /\ providersCreating \in Providers!Creations /\ providersCreating.form.key \in Secrets
        /\ adding.open /\ Providers!WithinLimit(t)
    BY <1>a, <2>2 DEF Creates
  <2>5. /\ issued \in Nat /\ DOMAIN providersStored \subseteq 1..issued
        /\ DOMAIN meant = DOMAIN providersStored
        /\ providersStored \in [DOMAIN providersStored -> Providers!Records]
    BY <1>a DEF Stock
  <2>6. t \in ProviderTypes /\ providersCreating.form \in Providers!Forms
    BY <2>4 DEF Providers!Creations
  <2>7. /\ r \in Providers!Records /\ r.kinds \in Serves[r.type] /\ r.type = t
        /\ Providers!Settings(r) = providersCreating.form
    BY <2>1, <2>4, <2>6 DEF Providers!Row, Providers!Records, Providers!Settings, Providers!Forms
  <2> HIDE DEF r
  <2>8. /\ DOMAIN providersStored' = DOMAIN providersStored \cup {n}
        /\ DOMAIN meant' = DOMAIN meant \cup {n}
        /\ providersStored'[n] = r /\ meant'[n] = providersCreating.form
        /\ \A i \in DOMAIN providersStored : i # n =>
             providersStored'[i] = providersStored[i] /\ meant'[i] = meant[i]
    BY <2>1, <2>2, <2>5 DEF Providers!Extend, r
  <2>9. n \notin DOMAIN providersStored
    BY <2>5
  <2>10. \A i \in DOMAIN providersStored' :
           \/ i = n /\ providersStored'[i] = r /\ meant'[i] = providersCreating.form
           \/ /\ i \in DOMAIN providersStored
              /\ providersStored'[i] = providersStored[i] /\ meant'[i] = meant[i]
    BY <2>8, <2>9
  <2>11. Providers!LimitHolds'
    <3>1. \A u \in ProviderTypes : Providers!Count(providersStored', u) =
            IF u = t THEN Providers!Count(providersStored, u) + 1 ELSE Providers!Count(providersStored, u)
      BY <2>1, <2>5, <2>7, CountExtends DEF r
    <3>2. \A u \in ProviderTypes : Providers!Count(providersStored, u) \in Nat
      BY <2>5, CountIsFinite
    <3>3. Limit[t] # None => Providers!Count(providersStored, t) < Limit[t]
      BY <2>4 DEF Providers!WithinLimit
    <3>4. Limit[t] # None => Limit[t] \in Nat
      BY <2>6, ConnectionsAssumption
    <3>5. \A u \in ProviderTypes : Limit[u] # None => Providers!Count(providersStored, u) <= Limit[u]
      BY <1>a DEF Stock, Providers!LimitHolds
    <3> HIDE DEF t
    <3>6. ASSUME NEW u \in ProviderTypes, Limit[u] # None
          PROVE  Providers!Count(providersStored', u) <= Limit[u]
      BY <3>1, <3>2, <3>3, <3>4, <3>5, <3>6
    <3>7. QED
      BY <3>6 DEF Providers!LimitHolds
  <2>12. Stock'
    <3>1. issued' \in Nat /\ DOMAIN providersStored' \subseteq 1..issued'
      BY <2>2, <2>5, <2>8
    <3>2. providersStored' \in [DOMAIN providersStored' -> Providers!Records]
      <4>1. \A i \in DOMAIN providersStored' : providersStored'[i] \in Providers!Records
        BY <2>5, <2>7, <2>10
      <4>2. providersStored' = [i \in DOMAIN providersStored' |-> providersStored'[i]]
        BY <2>1 DEF Providers!Extend
      <4>3. QED
        BY <4>1, <4>2
    <3>3. \A i \in DOMAIN providersStored' :
            providersStored'[i].kinds \in Serves[providersStored'[i].type]
      BY <1>a, <2>7, <2>10 DEF Stock
    <3>4. Providers!SettingsAreMeant'
      BY <1>a, <2>7, <2>10 DEF Stock, Providers!SettingsAreMeant, Providers!Settings
    <3>5. DOMAIN meant' = DOMAIN providersStored'
      BY <2>5, <2>8
    <3>6. QED
      BY <2>11, <3>1, <3>2, <3>3, <3>4, <3>5 DEF Stock
  <2>13. providersCreating' \in Providers!Creations /\ providersCreating'.phase = "ok"
         /\ providersCreating'.form = providersCreating.form
    BY <2>2, <2>4 DEF Providers!Creations
  <2>14. Providers!Unanswered'
    BY <2>13, ConnectionsAssumption DEF Providers!Unanswered, Providers!Committed
  <2>15. Reads' /\ Shown'
    BY <1>a, <2>2, <2>14 DEF Reads, Shown, Providers!Readable
  <2>16. Creates' /\ Saves' /\ Removes'
    <3>1. saving' = None /\ removing' = None
      BY <1>m, <2>2
    <3>2. QED
      BY <2>3, <2>4, <2>13, <3>1 DEF Creates, Saves, Removes
  <2>17. QED
    BY <1>b, <1>f, <2>2, <2>12, <2>15, <2>16
<1>14. CASE Providers!CreateAnswers
  <2>1. /\ providersCreating # None /\ providersCreating' = None /\ adding' = Providers!Closed
        /\ connections' = Providers!Ask(connections) /\ catalogsOld' = FALSE /\ UNCHANGED fresh
        /\ UNCHANGED <<Providers!rows, editing, pendingRemoval, saving, removing>>
    BY <1>14 DEF Providers!CreateAnswers, Providers!handleChanged
  <2>2. saving' = None /\ removing' = None
    BY <1>m, <2>1
  <2>3. Open'
    <3>1. Providers!Closed \in Providers!AddDialogs /\ Providers!Closed.open = FALSE
      BY DEF Providers!Closed, Providers!AddDialogs, Providers!Blank, Providers!Forms, Providers!Urls
    <3>2. QED
      BY <1>a, <2>1, <3>1 DEF Open
  <2>4. Reads' /\ Shown'
    BY <1>p, <2>1
  <2>5. Creates' /\ Saves' /\ Removes'
    BY <2>1, <2>2 DEF Creates, Saves, Removes
  <2>6. QED
    BY <1>b, <1>c, <2>1, <2>3, <2>4, <2>5
<1>15. CASE Providers!handleSave
  <2>1. /\ editing # None /\ saving = None
        /\ saving' = [id |-> editing.id, form |-> editing, payload |-> Providers!Changed(editing),
                      phase |-> "sent", read |-> None]
        /\ UNCHANGED <<Providers!rows, Providers!page, Providers!dialogs, providersCreating, removing>>
    BY <1>15 DEF Providers!handleSave
  <2>2. UNCHANGED <<providersStored, adding, editing, pendingRemoval>>
    BY <2>1 DEF Providers!rows, Providers!dialogs
  <2>3. Providers!Unanswered' = Providers!Unanswered
    BY <2>1 DEF Providers!Unanswered, Providers!Committed
  <2>4. editing \in Providers!EditDialogs
    BY <1>a, <2>1 DEF Open
  <2>5. Providers!Changed(editing) \in Providers!Forms /\ editing.id \in Providers!Ids
    BY <2>4 DEF Providers!EditDialogs, Providers!Forms, Providers!Changed, Providers!Urls
  <2>6. /\ saving' \in Providers!Updates /\ saving'.phase = "sent"
        /\ saving'.payload = Providers!Changed(saving'.form)
    BY <2>1, <2>4, <2>5 DEF Providers!Updates
  <2>7. Creates' /\ Saves' /\ Removes'
    BY <1>h, <1>j, <1>m, <2>1, <2>2, <2>6 DEF Saves
  <2>8. QED
    BY <1>k, <2>1, <2>3, <2>7
<1>16. CASE Providers!UpdateReads \/ Providers!UpdateFails
  <2>1. /\ saving # None /\ saving.phase \in {"sent", "read", "bad"}
        /\ \/ /\ saving.id \in DOMAIN providersStored
              /\ saving' = [saving EXCEPT !.phase = "read",
                                          !.read = Providers!Settings(providersStored[saving.id])]
           \/ saving' = [saving EXCEPT !.phase = "bad"]
           \/ saving' = None
        /\ UNCHANGED <<Providers!rows, Providers!page, Providers!dialogs, providersCreating, removing>>
    BY <1>16 DEF Providers!UpdateReads, Providers!UpdateFails
  <2>2. UNCHANGED <<providersStored, adding, editing, pendingRemoval>>
    BY <2>1 DEF Providers!rows, Providers!dialogs
  <2>3. saving \in Providers!Updates /\ editing # None /\ saving.payload = Providers!Changed(saving.form)
    BY <1>a, <2>1 DEF Saves
  <2>4. saving.id \in DOMAIN providersStored =>
          Providers!Settings(providersStored[saving.id]) \in [key : Secrets, url : Providers!Urls]
    BY <1>a DEF Stock, Providers!Settings, Providers!Records
  <2>5. \/ saving' = None
        \/ /\ saving' \in Providers!Updates /\ saving'.form = saving.form
           /\ saving'.payload = saving.payload /\ saving'.id = saving.id
           /\ \/ saving'.phase = "bad"
              \/ /\ saving'.phase = "read"
                 /\ saving'.read = Providers!Settings(providersStored[saving.id])
    BY <2>1, <2>3, <2>4 DEF Providers!Updates
  <2>6. Providers!Unanswered' = Providers!Unanswered
    BY <2>1, <2>5 DEF Providers!Unanswered, Providers!Committed
  <2>7. Saves'
    BY <2>2, <2>3, <2>5 DEF Saves, Providers!Settings
  <2>8. Creates' /\ Removes'
    BY <1>h, <1>j, <1>m, <2>1, <2>2
  <2>9. QED
    BY <1>k, <2>1, <2>6, <2>7, <2>8
<1>17. CASE Providers!UpdateCommits
  <2> DEFINE i == saving.id
             new == Providers!Over(saving.read, saving.payload)
             old == providersStored[i]
  <2>1. /\ saving # None /\ saving.phase = "read" /\ i \in DOMAIN providersStored
        /\ providersStored' = [providersStored EXCEPT
              ![i].key = new.key, ![i].url = new.url,
              ![i].valid = @ \/ saving.payload # Providers!Blank]
        /\ meant' = [meant EXCEPT ![i] = Providers!Intended(@, saving.form)]
        /\ catalogsOld' = TRUE /\ saving' = [saving EXCEPT !.phase = "ok"]
        /\ UNCHANGED <<issued, connections, fresh, Providers!dialogs, providersCreating, removing>>
    BY <1>17 DEF Providers!UpdateCommits
  <2>2. UNCHANGED <<adding, editing, pendingRemoval>>
    BY <2>1 DEF Providers!dialogs
  <2>3. /\ saving \in Providers!Updates /\ editing # None
        /\ saving.payload = Providers!Changed(saving.form) /\ saving.read = Providers!Settings(old)
    BY <1>a, <2>1 DEF Saves
  <2>4. /\ DOMAIN meant = DOMAIN providersStored
        /\ \A j \in DOMAIN providersStored :
             /\ providersStored[j] \in Providers!Records
             /\ meant[j] = Providers!Settings(providersStored[j])
    BY <1>a DEF Stock, Providers!SettingsAreMeant
  <2>5. saving.form.form \in Providers!Forms /\ saving.payload \in Providers!Forms
    BY <2>3 DEF Providers!Updates, Providers!EditDialogs
  <2>6. old \in Providers!Records /\ meant[i] = Providers!Settings(old)
    BY <2>1, <2>4
  <2>o. /\ new.key = IF saving.payload.key = "" THEN old.key ELSE saving.payload.key
        /\ new.url = IF saving.payload.url = "" THEN old.url ELSE saving.payload.url
    <3>1. \A o, p : /\ Providers!Over(o, p).key = IF p.key = "" THEN o.key ELSE p.key
                   /\ Providers!Over(o, p).url = IF p.url = "" THEN o.url ELSE p.url
      BY Zenon DEF Providers!Over
    <3>2. saving.read.key = old.key /\ saving.read.url = old.url
      BY <2>3 DEF Providers!Settings
    <3>3. QED
      BY <3>1, <3>2, ZenonT(60)
  <2>7. new.key \in Secrets /\ new.url \in Providers!Urls
    <3>1. new.key = IF saving.payload.key = "" THEN old.key ELSE saving.payload.key
      BY <2>o
    <3>2. new.url = IF saving.payload.url = "" THEN old.url ELSE saving.payload.url
      BY <2>o
    <3>3. old.key \in Secrets /\ old.url \in Providers!Urls
      BY <2>6 DEF Providers!Records
    <3>4. saving.payload.key \in Secrets \cup {""} /\ saving.payload.url \in Providers!Urls
      BY <2>5 DEF Providers!Forms
    <3> HIDE DEF new, old
    <3>5. QED
      BY <3>1, <3>2, <3>3, <3>4
  <2>8. Providers!Intended(meant[i], saving.form) = [key |-> new.key, url |-> new.url]
    <3>1. meant[i].key = old.key /\ meant[i].url = old.url
      BY <2>6 DEF Providers!Settings
    <3>2. /\ saving.payload.key = saving.form.form.key
          /\ saving.payload.url = IF saving.form.form.url = saving.form.seen THEN ""
                                  ELSE saving.form.form.url
      <4>1. \A d : /\ Providers!Changed(d).key = d.form.key
                  /\ Providers!Changed(d).url = IF d.form.url = d.seen THEN "" ELSE d.form.url
        BY DEF Providers!Changed
      <4>2. QED
        BY <2>3, <4>1
    <3> HIDE DEF new, old
    <3>3. QED
      BY <2>o, <3>1, <3>2 DEF Providers!Intended
  <2>9. /\ DOMAIN providersStored' = DOMAIN providersStored /\ DOMAIN meant' = DOMAIN meant
        /\ \A j \in DOMAIN providersStored : j # i =>
             providersStored'[j] = providersStored[j] /\ meant'[j] = meant[j]
    BY <2>1, <2>4
  <2>10. /\ providersStored'[i] = [old EXCEPT !.key = new.key, !.url = new.url,
                                              !.valid = @ \/ saving.payload # Providers!Blank]
         /\ meant'[i] = [key |-> new.key, url |-> new.url]
    BY <2>1, <2>4, <2>8
  <2> HIDE DEF new, old
  <2>11. /\ providersStored'[i] \in Providers!Records
         /\ providersStored'[i].type = old.type /\ providersStored'[i].kinds = old.kinds
         /\ providersStored'[i].key = new.key /\ providersStored'[i].url = new.url
    BY <2>6, <2>7, <2>10 DEF Providers!Records
  <2>12. \A j \in DOMAIN providersStored :
           /\ providersStored'[j] \in Providers!Records
           /\ providersStored'[j].type = providersStored[j].type
           /\ providersStored'[j].kinds = providersStored[j].kinds
           /\ [key |-> providersStored'[j].key, url |-> providersStored'[j].url] = meant'[j]
    <3>1. ASSUME NEW j \in DOMAIN providersStored, j # i
          PROVE  /\ providersStored'[j] \in Providers!Records
                 /\ providersStored'[j].type = providersStored[j].type
                 /\ providersStored'[j].kinds = providersStored[j].kinds
                 /\ [key |-> providersStored'[j].key, url |-> providersStored'[j].url] = meant'[j]
      BY <2>4, <2>9, <3>1 DEF Providers!Settings
    <3>2. QED
      BY <2>10, <2>11, <3>1 DEF old
  <2>13. Stock'
    <3>1. providersStored' \in [DOMAIN providersStored' -> Providers!Records]
      BY <1>a, <2>1, <2>9, <2>12 DEF Stock
    <3>2. \A t : Providers!Count(providersStored', t) = Providers!Count(providersStored, t)
      BY <2>9, <2>12, CountKeeps
    <3>3. Providers!LimitHolds'
      BY <1>a, <3>2 DEF Stock, Providers!LimitHolds
    <3>4. Providers!SettingsAreMeant'
      BY <2>9, <2>12 DEF Providers!SettingsAreMeant, Providers!Settings
    <3>5. \A j \in DOMAIN providersStored' :
            providersStored'[j].kinds \in Serves[providersStored'[j].type]
      BY <1>a, <2>9, <2>12 DEF Stock
    <3>6. QED
      BY <1>a, <2>1, <2>9, <3>1, <3>3, <3>4, <3>5 DEF Stock
  <2>14. saving' \in Providers!Updates /\ saving'.phase = "ok" /\ saving'.payload = saving.payload
         /\ saving'.form = saving.form
    BY <2>1, <2>3 DEF Providers!Updates
  <2>15. Providers!Unanswered'
    BY <2>14, ConnectionsAssumption DEF Providers!Unanswered, Providers!Committed
  <2>16. Reads' /\ Shown'
    BY <1>a, <2>1, <2>15 DEF Reads, Shown, Providers!Readable
  <2>17. Creates' /\ Saves' /\ Removes'
    <3>1. providersCreating' = None /\ removing' = None
      BY <1>m, <2>1
    <3>2. QED
      BY <2>2, <2>3, <2>14, <3>1 DEF Creates, Saves, Removes
  <2>18. QED
    BY <1>b, <1>f, <2>1, <2>13, <2>16, <2>17
<1>18. CASE Providers!UpdateAnswers
  <2>1. /\ saving # None /\ saving' = None /\ editing' = None
        /\ connections' = Providers!Ask(connections) /\ catalogsOld' = FALSE /\ UNCHANGED fresh
        /\ UNCHANGED <<Providers!rows, adding, pendingRemoval, providersCreating, removing>>
    BY <1>18 DEF Providers!UpdateAnswers, Providers!handleChanged
  <2>2. providersCreating' = None /\ removing' = None
    BY <1>m, <2>1
  <2>3. Open'
    BY <1>a, <2>1 DEF Open
  <2>4. Reads' /\ Shown'
    BY <1>p, <2>1
  <2>5. Creates' /\ Saves' /\ Removes'
    BY <2>1, <2>2 DEF Creates, Saves, Removes
  <2>6. QED
    BY <1>b, <1>c, <2>1, <2>3, <2>4, <2>5
<1>19. CASE Providers!handleRemove
  <2>1. /\ pendingRemoval # None /\ removing = None
        /\ removing' = [id |-> pendingRemoval, phase |-> "sent"]
        /\ UNCHANGED <<Providers!rows, Providers!page, Providers!dialogs, providersCreating, saving>>
    BY <1>19 DEF Providers!handleRemove
  <2>2. UNCHANGED <<providersStored, adding, editing, pendingRemoval>>
    BY <2>1 DEF Providers!rows, Providers!dialogs
  <2>3. Providers!Unanswered' = Providers!Unanswered
    BY <2>1 DEF Providers!Unanswered, Providers!Committed
  <2>4. pendingRemoval \in Providers!Ids
    BY <1>a, <2>1 DEF Open
  <2>5. Removes'
    BY <2>1, <2>2, <2>4 DEF Removes, Providers!Removals
  <2>6. Creates' /\ Saves'
    BY <1>h, <1>i, <1>m, <2>1, <2>2
  <2>7. QED
    BY <1>k, <2>1, <2>3, <2>5, <2>6
<1>20. CASE Providers!DeleteCommits
  <2> DEFINE rest == DOMAIN providersStored \ {removing.id}
  <2>1. /\ removing # None /\ catalogsOld' = TRUE /\ removing' = [removing EXCEPT !.phase = "ok"]
        /\ providersStored' = Providers!Restrict(providersStored, rest)
        /\ meant' = Providers!Restrict(meant, rest)
        /\ UNCHANGED <<issued, connections, fresh, Providers!dialogs, providersCreating, saving>>
    BY <1>20 DEF Providers!DeleteCommits
  <2>2. UNCHANGED <<adding, editing, pendingRemoval>>
    BY <2>1 DEF Providers!dialogs
  <2>3. /\ issued \in Nat /\ DOMAIN providersStored \subseteq 1..issued
        /\ providersStored \in [DOMAIN providersStored -> Providers!Records]
    BY <1>a DEF Stock
  <2>4. /\ providersStored' = [j \in rest |-> providersStored[j]]
        /\ meant' = [j \in rest |-> meant[j]]
    BY <2>1 DEF Providers!Restrict
  <2>5. Stock'
    <3>1. rest \subseteq DOMAIN providersStored
      OBVIOUS
    <3>2. \A t : Providers!Count(providersStored', t) <= Providers!Count(providersStored, t)
      BY <2>1, <2>3, <3>1, CountRestricts
    <3> HIDE DEF rest
    <3>3. \A t : Providers!Count(providersStored, t) \in Nat
      BY <2>3, CountIsFinite
    <3>4. \A t : Providers!Count(providersStored', t) \in Nat
      <4>1. DOMAIN providersStored' \subseteq 1..issued
        BY <2>3, <2>4, <3>1
      <4>2. QED
        BY <2>3, <4>1, CountIsFinite
    <3>5. Providers!LimitHolds'
      <4>1. \A t \in ProviderTypes : Limit[t] # None =>
              Limit[t] \in Nat /\ Providers!Count(providersStored, t) <= Limit[t]
        BY <1>a, ConnectionsAssumption DEF Stock, Providers!LimitHolds
      <4>2. \A t \in ProviderTypes : Limit[t] # None => Providers!Count(providersStored', t) <= Limit[t]
        BY <4>1, <3>2, <3>3, <3>4
      <4>3. QED
        BY <4>2 DEF Providers!LimitHolds
    <3>6. Providers!SettingsAreMeant'
      BY <1>a, <2>4, <3>1 DEF Stock, Providers!SettingsAreMeant, Providers!Settings
    <3>7. /\ DOMAIN providersStored' = rest /\ DOMAIN meant' = rest
          /\ \A j \in rest : providersStored'[j] = providersStored[j]
      BY <2>4
    <3>8. providersStored' \in [rest -> Providers!Records]
      BY <2>3, <2>4, <3>1
    <3>9. \A j \in rest : providersStored'[j].kinds \in Serves[providersStored'[j].type]
      BY <1>a, <3>1, <3>7 DEF Stock
    <3>10. QED
      BY <2>1, <2>3, <3>1, <3>5, <3>6, <3>7, <3>8, <3>9 DEF Stock
  <2>6. removing \in Providers!Removals /\ pendingRemoval # None
    BY <1>a, <2>1 DEF Removes
  <2>7. removing' \in Providers!Removals /\ removing'.phase = "ok"
    BY <2>1, <2>6 DEF Providers!Removals
  <2>8. Providers!Unanswered'
    BY <2>7, ConnectionsAssumption DEF Providers!Unanswered, Providers!Committed
  <2>9. Reads' /\ Shown'
    BY <1>a, <2>1, <2>8 DEF Reads, Shown, Providers!Readable
  <2>10. Creates' /\ Saves' /\ Removes'
    <3>1. providersCreating' = None /\ saving' = None
      BY <1>m, <2>1
    <3>2. QED
      BY <2>2, <2>6, <2>7, <3>1 DEF Creates, Saves, Removes
  <2>11. QED
    BY <1>b, <1>f, <2>1, <2>5, <2>9, <2>10
<1>21. CASE Providers!DeleteAnswers
  <2>1. /\ removing # None /\ removing' = None /\ pendingRemoval' = None
        /\ UNCHANGED <<Providers!rows, adding, editing, providersCreating, saving>>
    BY <1>21 DEF Providers!DeleteAnswers
  <2>2. providersCreating' = None /\ saving' = None
    BY <1>m, <2>1
  <2>3. Open'
    BY <1>a, <2>1 DEF Open
  <2>4. Creates' /\ Saves' /\ Removes'
    BY <2>1, <2>2 DEF Creates, Saves, Removes
  <2>5. Reads' /\ Shown'
    <3>1. CASE removing.phase = "ok"
      BY <1>21, <1>p, <3>1 DEF Providers!DeleteAnswers, Providers!handleChanged
    <3>2. CASE removing.phase # "ok"
      <4>1. UNCHANGED Providers!page
        BY <1>21, <3>2 DEF Providers!DeleteAnswers
      <4>2. ~Providers!Unanswered /\ ~Providers!Unanswered'
        BY <1>m, <2>1, <2>2, <3>2 DEF Providers!Unanswered, Providers!Committed
      <4>3. Providers!Unanswered' = Providers!Unanswered
        <5>1. Providers!Unanswered \in BOOLEAN /\ Providers!Unanswered' \in BOOLEAN
          BY DEF Providers!Unanswered
        <5>2. QED
          BY <4>2, <5>1
      <4>4. QED
        BY <1>d, <1>e, <2>1, <4>1, <4>3
    <3>3. QED
      BY <3>1, <3>2
  <2>6. QED
    BY <1>b, <1>c, <2>1, <2>3, <2>4, <2>5
<1>22. CASE UNCHANGED Providers!vars
  <2>1. UNCHANGED <<Providers!rows, Providers!page, Providers!dialogs, Providers!writes>>
    BY <1>22 DEF Providers!vars
  <2>2. UNCHANGED <<adding, editing, pendingRemoval>>
    BY <2>1 DEF Providers!dialogs
  <2>3. QED
    BY <1>f, <1>l, <1>m, <2>1, <2>2
<1>23. QED
  BY <1>1, <1>2, <1>3, <1>4, <1>5, <1>6, <1>7, <1>8, <1>9, <1>10, <1>11, <1>12, <1>13, <1>14,
     <1>15, <1>16, <1>17, <1>18, <1>19, <1>20, <1>21, <1>22 DEF Providers!Next

\* The rows the page may find have it.
LEMMA ConnectionsStart == Providers!Init => Providers!ConnectionsInv
<1> SUFFICES ASSUME Providers!Init PROVE Providers!ConnectionsInv
  OBVIOUS
<1>1. /\ connections = Providers!Ask(Providers!NewQuery) /\ fresh = FALSE /\ catalogsOld = FALSE
      /\ adding = Providers!Closed /\ providersCreating = None /\ editing = None /\ saving = None
      /\ pendingRemoval = None /\ removing = None
      /\ issued = Providers!Cardinality(DOMAIN providersStored)
      /\ meant = [i \in DOMAIN providersStored |-> Providers!Settings(providersStored[i])]
      /\ \A i \in DOMAIN providersStored :
           providersStored[i].kinds \in Serves[providersStored[i].type]
  <2>1. /\ connections = Providers!Ask(Providers!NewQuery) /\ fresh = FALSE /\ catalogsOld = FALSE
        /\ adding = Providers!Closed /\ providersCreating = None /\ editing = None /\ saving = None
        /\ pendingRemoval = None /\ removing = None
    BY DEF Providers!Init
  <2>2. /\ issued = Providers!Cardinality(DOMAIN providersStored)
        /\ meant = [i \in DOMAIN providersStored |-> Providers!Settings(providersStored[i])]
        /\ \A i \in DOMAIN providersStored :
             providersStored[i].kinds \in Serves[providersStored[i].type]
    BY DEF Providers!Init
  <2>3. QED
    BY <2>1, <2>2
<1>o. providersStored = <<>> \/ \E r \in Providers!Records : providersStored = <<r>>
  <2>1. \A r \in Providers!Left : r \in Providers!Records
    BY DEF Providers!Left, Providers!Records, Providers!Urls
  <2>2. providersStored \in {<<>>} \cup {<<r>> : r \in Providers!Left}
    BY DEF Providers!Init
  <2>3. providersStored = <<>> \/ \E r \in Providers!Left : providersStored = <<r>>
    BY <2>2, Zenon
  <2>4. QED
    BY <2>1, <2>3
<1>2. \/ DOMAIN providersStored = {}
      \/ DOMAIN providersStored = {1} /\ providersStored[1] \in Providers!Records
  <2>1. CASE providersStored = <<>>
    BY <2>1
  <2>2. CASE \E r \in Providers!Records : providersStored = <<r>>
    <3>1. \A r : DOMAIN <<r>> = {1} /\ <<r>>[1] = r
      OBVIOUS
    <3>2. QED
      BY <2>2, <3>1
  <2>3. QED
    BY <1>o, <2>1, <2>2
<1>3. /\ issued \in {0, 1} /\ DOMAIN providersStored \subseteq 1..issued
  <2>1. issued = Cardinality(DOMAIN providersStored)
    BY <1>1 DEF Providers!Cardinality, Cardinality
  <2>2. QED
    <3>1. CASE DOMAIN providersStored = {}
      BY <2>1, <3>1, FS_EmptySet
    <3>2. CASE DOMAIN providersStored = {1}
      <4>1. issued = 1
        BY <2>1, <3>2, FS_Singleton
      <4>2. QED
        BY <3>2, <4>1
    <3>3. QED
      BY <1>2, <3>1, <3>2
<1>4. providersStored \in [DOMAIN providersStored -> Providers!Records]
  <2>1. \A i \in DOMAIN providersStored : providersStored[i] \in Providers!Records
    BY <1>2
  <2>2. providersStored = [i \in DOMAIN providersStored |-> providersStored[i]]
    <3>1. \A r : <<r>> = [i \in DOMAIN <<r>> |-> <<r>>[i]]
      OBVIOUS
    <3>2. <<>> = [i \in DOMAIN <<>> |-> <<>>[i]]
      OBVIOUS
    <3>3. QED
      BY <1>o, <3>1, <3>2
  <2>3. QED
    BY <2>1, <2>2
<1>5. Providers!LimitHolds
  <2>1. ASSUME NEW t \in ProviderTypes, Limit[t] # None
        PROVE  Providers!Count(providersStored, t) <= Limit[t]
    <3> DEFINE S == {i \in DOMAIN providersStored : providersStored[i].type = t}
    <3>1. S = {} \/ S = {1}
      BY <1>2
    <3>2. Cardinality(S) \in {0, 1}
      BY <3>1, FS_EmptySet, FS_Singleton
    <3>3. Limit[t] \in Nat /\ Limit[t] >= 1
      BY <2>1, ConnectionsAssumption
    <3>4. Providers!Count(providersStored, t) = Cardinality(S)
      BY CountIsCardinality
    <3>5. QED
      BY <3>2, <3>3, <3>4
  <2>2. QED
    BY <2>1 DEF Providers!LimitHolds
<1>6. Providers!SettingsAreMeant
  BY <1>1 DEF Providers!SettingsAreMeant
<1>7. /\ connections \in [data : {connections.data}, loading : BOOLEAN, error : BOOLEAN,
                          served : BOOLEAN, answer : {connections.answer}]
      /\ connections.data = None /\ connections.answer = None /\ connections.served = FALSE
  BY <1>1 DEF Providers!Ask, Providers!NewQuery
<1>8. adding \in Providers!AddDialogs /\ adding.open = FALSE
  BY <1>1 DEF Providers!Closed, Providers!AddDialogs, Providers!Blank, Providers!Forms, Providers!Urls
<1>9. DOMAIN meant = DOMAIN providersStored /\ issued \in Nat
  BY <1>1, <1>3
<1>10. fresh \in BOOLEAN /\ catalogsOld \in BOOLEAN
  BY <1>1
<1>11. QED
  BY <1>1, <1>3, <1>4, <1>5, <1>6, <1>7, <1>8, <1>9, <1>10
     DEF Providers!ConnectionsInv, Providers!Readable

\* And it is why the page, the rows and the gate agree.
LEMMA ConnectionsHold ==
    Providers!ConnectionsInv =>
        /\ Providers!TypeOK /\ Providers!SettingsAreMeant /\ Providers!ConnectionsListed
        /\ Providers!LimitHolds /\ Providers!ChecklistOpensGate
<1> SUFFICES ASSUME Providers!ConnectionsInv
             PROVE  /\ Providers!TypeOK /\ Providers!ConnectionsListed /\ Providers!ChecklistOpensGate
  BY DEF Providers!ConnectionsInv
<1>1. Providers!TypeOK
  BY DEF Providers!ConnectionsInv, Providers!TypeOK, Providers!Records, Providers!Urls
<1>2. Providers!Idle => ~Providers!Unanswered
  BY DEF Providers!Idle, Providers!Unanswered, Providers!Committed
<1>3. Providers!ConnectionsListed
  BY <1>2 DEF Providers!ConnectionsInv, Providers!ConnectionsListed
<1>4. ASSUME Providers!Idle, Providers!Settled(connections), fresh
      PROVE  Providers!computeKindCoverage \subseteq Providers!provider_coverage
  <2>1. connections.data = Providers!list_connections
    BY <1>3, <1>4 DEF Providers!ConnectionsListed
  <2>2. Providers!Listed = Providers!list_connections \/ Providers!Listed = <<>>
    BY <2>1 DEF Providers!Listed
  <2>3. \A i \in DOMAIN Providers!Listed : Providers!Listed[i].valid =>
          /\ i \in DOMAIN providersStored /\ providersStored[i].valid
          /\ Providers!Listed[i].kinds \subseteq Potential[providersStored[i].type]
    <3>1. ASSUME NEW i \in DOMAIN providersStored
          PROVE  /\ providersStored[i].valid \in BOOLEAN /\ providersStored[i].type \in ProviderTypes
                 /\ providersStored[i].kinds \subseteq Potential[providersStored[i].type]
      BY ConnectionsAssumption DEF Providers!ConnectionsInv, Providers!Records
    <3>2. \A i \in DOMAIN providersStored :
            /\ Providers!list_connections[i].valid = providersStored[i].valid
            /\ Providers!list_connections[i].kinds =
                 IF providersStored[i].valid THEN providersStored[i].kinds
                 ELSE Potential[providersStored[i].type]
      BY DEF Providers!list_connections, Providers!connection_to_read
    <3>3. DOMAIN Providers!list_connections = DOMAIN providersStored /\ DOMAIN <<>> = {}
      BY DEF Providers!list_connections
    <3>4. QED
      BY <2>2, <3>1, <3>2, <3>3
  <2>4. QED
    BY <2>3 DEF Providers!computeKindCoverage, Providers!provider_coverage
<1>5. QED
  BY <1>1, <1>3, <1>4 DEF Providers!ChecklistOpensGate

--------------------------------------------------------------------------------
(* The messages of a chat *)

\* What an edit leaves, on screen or in the store, is a list of rows that were
\* there before, but for the text of the edited one.
LEMMA MaxOfNumbers ==
    ASSUME NEW I \in SUBSET Nat, IsFiniteSet(I), I # {}
    PROVE  History!Max(I) \in I /\ History!Min(I) \in I
<1>1. History!IsFiniteSet(I)
  BY DEF IsFiniteSet, History!IsFiniteSet
<1>2. /\ \E m \in I : \A i \in I : m <= i
      /\ \E m \in I : \A i \in I : i <= m
  BY <1>1, History!Extremes
<1>3. \E m \in I : \A i \in I : m >= i
  <2>1. \A m, i \in I : i <= m => m >= i
    OBVIOUS
  <2>2. QED
    BY <1>2, <2>1
<1>4. QED
  BY <1>2, <1>3 DEF History!Max, History!Min

LEMMA SubsetsOfPositions ==
    ASSUME NEW n \in Nat, NEW I \in SUBSET (1 .. n), I # {}
    PROVE  History!Max(I) \in I /\ History!Min(I) \in I
<1>1. IsFiniteSet(1 .. n) /\ 1 .. n \in SUBSET Nat
  BY FS_Interval
<1>2. IsFiniteSet(I) /\ I \in SUBSET Nat
  BY <1>1, FS_Subset
<1>3. QED
  BY <1>2, MaxOfNumbers

\* A row as the page or the store keeps it through an edit: its own, or the
\* edited one with another text.
LEMMA EditKeepsRows ==
    ASSUME NEW R, R = History!Messages, NEW ms \in Seq(R), NEW x \in History!Contents,
           NEW k \in 0 .. Len(ms), NEW t, t \in DOMAIN ms, k + 1 = t
    PROVE  LET e == Append(SubSeq(ms, 1, k), [ms[t] EXCEPT !.text = x])
           IN  /\ e \in Seq(R)
               /\ \A m \in History!ToSet(e) : \E n \in History!ToSet(ms) :
                    m.id = n.id /\ m.role = n.role /\ m.reasoning = n.reasoning
<1> DEFINE p == SubSeq(ms, 1, k)  r == [ms[t] EXCEPT !.text = x]  e == Append(p, r)
<1>1. p \in Seq(R) /\ History!Members(p) \subseteq History!Members(ms)
  BY History!PrefixKeeps
<1>2. ms[t] \in R /\ ms[t] \in History!Members(ms)
  BY History!ElementOfSeq, History!LenProperties DEF History!Members
<1>3. /\ r \in R /\ r.id = ms[t].id /\ r.role = ms[t].role /\ r.reasoning = ms[t].reasoning
  BY <1>2 DEF History!Messages
<1> HIDE DEF p, r
<1>4. e \in Seq(R) /\ History!Members(e) = History!Members(p) \union {r}
  BY <1>1, <1>3, History!AppendKeeps
<1>5. History!ToSet(e) = History!Members(e) /\ History!ToSet(ms) = History!Members(ms)
  BY DEF History!ToSet, History!Members
<1> HIDE DEF e
<1>6. \A m \in History!Members(e) : \E n \in History!Members(ms) :
         m.id = n.id /\ m.role = n.role /\ m.reasoning = n.reasoning
  BY <1>1, <1>2, <1>3, <1>4
<1>7. QED
  BY <1>4, <1>5, <1>6 DEF e, p, r

\* What pruneHistoryForEdit leaves on screen, and apply_edit in the store.
LEMMA PruneKeepsRows ==
    ASSUME NEW R, R = History!Messages, NEW ms \in Seq(R), NEW d \in History!Ids(ms),
           NEW x \in History!Contents
    PROVE  /\ History!Prune(ms, d, x) \in Seq(R)
           /\ \A m \in History!ToSet(History!Prune(ms, d, x)) : \E n \in History!ToSet(ms) :
                m.id = n.id /\ m.role = n.role /\ m.reasoning = n.reasoning
<1> DEFINE t == CHOOSE i \in 1 .. Len(ms) : ms[i].id = d
           users == {i \in 1 .. t - 1 : ms[i].role = "user"}
           anchors == {i \in History!Max(users) + 1 .. Len(ms) : ms[i].role # "user"}
<1>1. t \in 1 .. Len(ms) /\ DOMAIN ms = 1 .. Len(ms) /\ Len(ms) \in Nat
  BY History!LenProperties DEF History!Ids
<1> HIDE DEF t
<1>2. users # {} => History!Max(users) \in 1 .. t - 1
  <2>1. t - 1 \in Nat /\ users \in SUBSET (1 .. t - 1)
    BY <1>1
  <2> HIDE DEF users
  <2>2. QED
    BY <2>1, SubsetsOfPositions
<1>3. users # {} /\ anchors # {} => History!Min(anchors) \in 1 .. Len(ms)
  <2>1. users # {} => anchors \in SUBSET (1 .. Len(ms))
    <3> DEFINE m == History!Max(users)
    <3>1. users # {} => m \in Nat
      BY <1>1, <1>2
    <3> HIDE DEF m
    <3>2. m \in Nat => {i \in m + 1 .. Len(ms) : ms[i].role # "user"} \in SUBSET (1 .. Len(ms))
      BY <1>1
    <3>3. QED
      BY <3>1, <3>2 DEF m
  <2> HIDE DEF users, anchors
  <2>2. QED
    BY <1>1, <2>1, SubsetsOfPositions
<1>4. ASSUME NEW k \in 0 .. Len(ms)
      PROVE  /\ SubSeq(ms, 1, k) \in Seq(R)
             /\ \A m \in History!ToSet(SubSeq(ms, 1, k)) : m \in History!ToSet(ms)
  BY History!PrefixKeeps DEF History!Members, History!ToSet
<1>5. t - 1 \in 0 .. Len(ms) /\ (t - 1) + 1 = t
  BY <1>1
<1>6. CASE ms[t].role = "user"
  <2> DEFINE e == Append(SubSeq(ms, 1, t - 1), [ms[t] EXCEPT !.text = x])
             f == IF users = {} THEN SubSeq(ms, 1, t - 1)
                  ELSE IF anchors = {} THEN SubSeq(ms, 1, History!Max(users))
                  ELSE SubSeq(ms, 1, History!Min(anchors) - 1)
  <2>1. History!Prune(ms, d, x) =
          CASE d \notin History!Ids(ms) -> ms
            [] d \in History!Ids(ms) /\ ms[t].role = "user" -> e
            [] d \in History!Ids(ms) /\ ms[t].role # "user" -> f
    BY DEF History!Prune, t
  <2> HIDE DEF e, f, users, anchors
  <2>2. History!Prune(ms, d, x) = e
    BY <1>6, <2>1
  <2>3. t - 1 \in 0 .. Len(ms) /\ (t - 1) + 1 = t /\ t \in DOMAIN ms
    BY <1>1
  <2>4. /\ e \in Seq(R)
        /\ \A m \in History!ToSet(e) : \E n \in History!ToSet(ms) :
             m.id = n.id /\ m.role = n.role /\ m.reasoning = n.reasoning
    BY <2>3, EditKeepsRows, SMTT(60) DEF e
  <2>5. QED
    BY <2>2, <2>4
<1>7. CASE ms[t].role # "user"
  <2>1. \/ History!Prune(ms, d, x) = SubSeq(ms, 1, t - 1)
        \/ users # {} /\ History!Prune(ms, d, x) = SubSeq(ms, 1, History!Max(users))
        \/ /\ users # {} /\ anchors # {}
           /\ History!Prune(ms, d, x) = SubSeq(ms, 1, History!Min(anchors) - 1)
    BY <1>7 DEF History!Prune, t, users, anchors
  <2> HIDE DEF users, anchors
  <2>2. users # {} => History!Max(users) \in 0 .. Len(ms)
    BY <1>1, <1>2
  <2>3. users # {} /\ anchors # {} => History!Min(anchors) - 1 \in 0 .. Len(ms)
    BY <1>1, <1>3
  <2>4. QED
    BY <1>4, <1>5, <2>1, <2>2, <2>3
<1>8. QED
  BY <1>6, <1>7

LEMMA ApplyEditKeepsRows ==
    ASSUME NEW R, R = History!Messages, NEW ms \in Seq(R), NEW d \in History!Ids(ms),
           NEW x \in History!Contents
    PROVE  /\ History!ApplyEdit(ms, d, x) \in Seq(R)
           /\ \A m \in History!ToSet(History!ApplyEdit(ms, d, x)) : \E n \in History!ToSet(ms) :
                m.id = n.id /\ m.role = n.role /\ m.reasoning = n.reasoning
<1> DEFINE t == CHOOSE i \in 1 .. Len(ms) : ms[i].id = d
<1>1. t \in 1 .. Len(ms) /\ DOMAIN ms = 1 .. Len(ms) /\ Len(ms) \in Nat
  BY History!LenProperties DEF History!Ids
<1>2. CASE ms[t].role = "user"
  <2>1. History!ApplyEdit(ms, d, x) = Append(SubSeq(ms, 1, t - 1), [ms[t] EXCEPT !.text = x])
    BY <1>2 DEF History!ApplyEdit
  <2> HIDE DEF t
  <2>2. t - 1 \in 0 .. Len(ms) /\ (t - 1) + 1 = t /\ t \in DOMAIN ms
    BY <1>1
  <2>3. QED
    BY <2>1, <2>2, EditKeepsRows, SMTT(60)
<1>3. CASE ms[t].role # "user"
  <2>1. PICK S : History!ApplyEdit(ms, d, x) = History!Without(ms, S)
    BY <1>3 DEF History!ApplyEdit
  <2>2. /\ History!Without(ms, S) \in Seq(R)
        /\ History!Members(History!Without(ms, S)) = History!Members(ms) \ S
    BY History!WithoutKeeps
  <2>3. QED
    BY <2>1, <2>2 DEF History!Members, History!ToSet
<1>4. QED
  BY <1>2, <1>3

\* A list of rows is one of any larger set of them.
LEMMA RowsRemainRows ==
    ASSUME NEW S, NEW T, S \subseteq T, NEW s \in Seq(S)
    PROVE  s \in Seq(T)
<1>1. /\ Len(s) \in Nat /\ s \in [1 .. Len(s) -> S]
  BY History!LenProperties, History!ElementOfSeq
<1>2. s \in [1 .. Len(s) -> T]
  BY <1>1
<1>3. QED
  BY <1>1, <1>2, History!FunctionIsSeq

\* A list fits the conversation when its rows are of those it has seen, with
\* the roles they had.
Twin(m) == \E n \in History!Seen : m.id = n.id /\ m.role = n.role
Fits(ms) == ms \in Seq(History!Messages) /\ \A m \in History!ToSet(ms) : Twin(m)

LEMMA RowsFit ==
    ASSUME History!HistoryInv
    PROVE  /\ Fits(historyStored) /\ Fits(screen) /\ \A ms \in poll : Fits(ms)
           /\ Fits(History!ListMessages)
<1>1. Fits(historyStored) /\ Fits(screen) /\ \A ms \in poll : Fits(ms)
  BY DEF Fits, Twin, History!HistoryInv, History!Seen
<1> DEFINE n == History!Min({Len(historyStored), HistoryLimit})
<1>2. Len(historyStored) \in Nat /\ HistoryLimit \in Nat
  BY <1>1, ChatAssumption, History!LenProperties DEF Fits
<1>3. n \in 0 .. Len(historyStored)
  <2> DEFINE I == {Len(historyStored), HistoryLimit}
  <2>1. \E m \in I : \A i \in I : m <= i
    BY <1>2
  <2>2. n \in I /\ \A i \in I : n <= i
    BY <2>1 DEF History!Min
  <2> HIDE DEF n
  <2>3. n \in Nat /\ n <= Len(historyStored)
    BY <1>2, <2>2
  <2>4. QED
    BY <1>2, <2>3
<1>4. History!ListMessages = SubSeq(historyStored, 1, n)
  BY DEF History!ListMessages
<1> HIDE DEF n
<1>5. /\ SubSeq(historyStored, 1, n) \in Seq(History!Messages)
      /\ History!Members(SubSeq(historyStored, 1, n)) \subseteq History!Members(historyStored)
  BY <1>1, <1>3, History!PrefixKeeps DEF Fits
<1>6. Fits(History!ListMessages)
  BY <1>1, <1>4, <1>5 DEF Fits, History!Members, History!ToSet
<1>7. QED
  BY <1>1, <1>6

\* What an edit leaves fits when what it edited did.
LEMMA EditsFit ==
    ASSUME NEW ms, Fits(ms), NEW d \in History!Ids(ms), NEW x \in History!Contents
    PROVE  Fits(History!Prune(ms, d, x)) /\ Fits(History!ApplyEdit(ms, d, x))
<1>1. ms \in Seq(History!Messages) /\ \A m \in History!ToSet(ms) : Twin(m)
  BY DEF Fits
<1>2. ASSUME NEW e \in Seq(History!Messages),
             \A m \in History!ToSet(e) : \E n \in History!ToSet(ms) :
                m.id = n.id /\ m.role = n.role /\ m.reasoning = n.reasoning
      PROVE  Fits(e)
  BY <1>1, <1>2 DEF Fits, Twin
<1>3. Fits(History!Prune(ms, d, x))
  BY <1>1, <1>2, PruneKeepsRows
<1>4. Fits(History!ApplyEdit(ms, d, x))
  BY <1>1, <1>2, ApplyEditKeepsRows
<1>5. QED
  BY <1>3, <1>4

\* The reasoning streamed meanwhile changes no row otherwise.
LEMMA InjectionFits ==
    ASSUME NEW ms, Fits(ms), NEW i \in 1 .. Len(ms)
    PROVE  Fits([ms EXCEPT ![i].reasoning = TRUE])
<1> DEFINE e == [ms EXCEPT ![i].reasoning = TRUE]  n == Len(ms)  R == History!Messages
<1>1. ms \in Seq(R) /\ \A m \in History!ToSet(ms) : Twin(m)
  BY DEF Fits
<1>2. n \in Nat /\ ms \in [1 .. n -> R] /\ DOMAIN ms = 1 .. n
  BY <1>1, History!LenProperties, History!ElementOfSeq
<1>3. e = [j \in 1 .. n |-> IF j = i THEN [ms[i] EXCEPT !.reasoning = TRUE] ELSE ms[j]]
  BY <1>2
<1>4. /\ [ms[i] EXCEPT !.reasoning = TRUE] \in R
      /\ [ms[i] EXCEPT !.reasoning = TRUE].id = ms[i].id
      /\ [ms[i] EXCEPT !.reasoning = TRUE].role = ms[i].role
  BY <1>2 DEF History!Messages
<1> HIDE DEF R, n
<1>5. e \in [1 .. n -> R] /\ \A j \in 1 .. n : e[j].id = ms[j].id /\ e[j].role = ms[j].role
  BY <1>2, <1>3, <1>4
<1> HIDE DEF e
<1>6. e \in Seq(R) /\ Len(e) = n
  BY <1>2, <1>5, History!FunctionIsSeq
<1>7. DOMAIN e = 1 .. n
  BY <1>5
<1>8. \A m \in History!ToSet(e) : Twin(m)
  BY <1>1, <1>2, <1>5, <1>7 DEF Twin, History!ToSet
<1>9. QED
  BY <1>6, <1>8 DEF Fits, e, R

\* What every action does to the rows: those it puts on screen or in flight are
\* of those seen, at most one row is new to the store, with the next id, and
\* the reasoning of what is on screen is cached.
Grows ==
    \/ Fits(historyStored') /\ rowCount' = rowCount
    \/ /\ rowCount' = rowCount + 1
       /\ \E r \in History!Roles, x \in History!Contents, b \in BOOLEAN :
            historyStored' = Append(historyStored,
                                    [id |-> rowCount + 1, role |-> r, text |-> x, reasoning |-> b])
Caches ==
    /\ Fits(screen') /\ \A ms \in poll' : Fits(ms)
    /\ reasoned \subseteq reasoned'
    /\ \A m \in History!ToSet(screen') : m.reasoning => m.id \in reasoned'

LEMMA NoTextIsContent == "" \in History!Contents
BY DEF History!Contents

LEMMA IdleIsATurn == History!Idle \in History!Turns
BY DEF History!Idle, History!Turns, History!Contents

LEMMA SyncCaches ==
    ASSUME NEW ms, Fits(ms), History!Sync(ms)
    PROVE  /\ Fits(screen') /\ reasoned \subseteq reasoned'
           /\ \A m \in History!ToSet(screen') : m.reasoning => m.id \in reasoned'
BY DEF History!Sync

LEMMA HistoryMoves ==
    ASSUME History!HistoryInv, History!Next
    PROVE  Grows /\ Caches /\ historyTurn' \in History!Turns
<1>1. /\ Fits(historyStored) /\ Fits(screen) /\ \A ms \in poll : Fits(ms)
      /\ Fits(History!ListMessages)
  BY RowsFit
<1>2. /\ rowCount \in Nat /\ historyTurn \in History!Turns
      /\ \A m \in History!ToSet(screen) : m.reasoning => m.id \in reasoned
  BY DEF History!HistoryInv
<1>3. History!Idle \in History!Turns
  BY IdleIsATurn
<1>4. UNCHANGED <<screen, reasoned>> => /\ Fits(screen') /\ reasoned \subseteq reasoned'
                                        /\ \A m \in History!ToSet(screen') : m.reasoning => m.id \in reasoned'
  BY <1>1, <1>2
<1>5. UNCHANGED <<historyStored, rowCount>> => Grows
  BY <1>1 DEF Grows
<1>6. UNCHANGED poll \/ poll' = {} \/ poll' = {History!ListMessages} => \A ms \in poll' : Fits(ms)
  BY <1>1
<1>7. CASE History!Load
  <2>1. History!Sync(History!ListMessages) /\ UNCHANGED <<historyStored, rowCount, poll, historyTurn>>
    BY <1>7 DEF History!Load
  <2>2. QED
    BY <1>1, <1>2, <1>5, <1>6, <2>1, SyncCaches DEF Caches
<1>8. CASE History!Accept
  <2>1. /\ UNCHANGED <<screen, reasoned, poll>>
        /\ historyTurn' = [historyTurn EXCEPT !.stage = "running"]
    BY <1>8 DEF History!Accept
  <2>2. historyTurn' \in History!Turns
    BY <1>2, <2>1 DEF History!Turns
  <2>3. historyTurn.text \in History!Contents
    BY <1>2 DEF History!Turns
  <2>4. CASE historyTurn.kind = "send"
    <3>1. /\ rowCount' = rowCount + 1
          /\ historyStored' = Append(historyStored,
               [id |-> rowCount + 1, role |-> "user", text |-> historyTurn.text, reasoning |-> FALSE])
      BY <1>8, <2>4 DEF History!Accept, History!Row
    <3>2. "user" \in History!Roles /\ FALSE \in BOOLEAN
      BY DEF History!Roles
    <3>3. Grows
      BY <2>3, <3>1, <3>2 DEF Grows
    <3>4. QED
      BY <1>4, <1>6, <2>1, <2>2, <3>3 DEF Caches
  <2>5. CASE historyTurn.kind # "send"
    <3>1. /\ historyTurn.target \in History!Ids(historyStored) /\ rowCount' = rowCount
          /\ historyStored' = History!ApplyEdit(historyStored, historyTurn.target, historyTurn.text)
      BY <1>8, <2>5 DEF History!Accept
    <3>2. Fits(historyStored')
      BY <1>1, <2>3, <3>1, EditsFit
    <3>3. QED
      BY <1>4, <1>6, <2>1, <2>2, <3>1, <3>2 DEF Caches, Grows
  <2>6. QED
    BY <2>4, <2>5
<1>9. CASE History!PollReads
  BY <1>2, <1>4, <1>5, <1>6, <1>9 DEF History!PollReads, Caches
<1>10. CASE History!PollLands
  <2>1. /\ poll' = {} /\ UNCHANGED <<historyStored, rowCount, historyTurn>>
        /\ \E ms \in poll : History!Sync(ms)
    BY <1>10 DEF History!PollLands
  <2>2. QED
    BY <1>1, <1>2, <1>5, <1>6, <2>1, SyncCaches DEF Caches
<1>11. CASE History!Fail
  BY <1>2, <1>3, <1>4, <1>5, <1>6, <1>11 DEF History!Fail, Caches
<1>12. ASSUME NEW x \in Texts, History!Send(x)
       PROVE  Grows /\ Caches /\ historyTurn' \in History!Turns
  <2> DEFINE seen == historyLoaded /\ History!Ids(screen) = History!Ids(History!ListMessages)
  <2>1. /\ UNCHANGED <<historyStored, rowCount, screen, reasoned, poll>>
        /\ historyTurn' = [kind |-> "send", stage |-> "asked", text |-> x, target |-> 0, seen |-> seen]
    BY <1>12 DEF History!Send
  <2>2. historyTurn' \in History!Turns
    <3>1. seen \in BOOLEAN
      OBVIOUS
    <3> HIDE DEF seen
    <3>2. x \in History!Contents
      BY DEF History!Contents
    <3>3. [kind |-> "send", stage |-> "asked", text |-> x, target |-> 0, seen |-> TRUE] \in History!Turns
      BY <3>2 DEF History!Turns
    <3>4. [kind |-> "send", stage |-> "asked", text |-> x, target |-> 0, seen |-> FALSE] \in History!Turns
      BY <3>2 DEF History!Turns
    <3>5. QED
      BY <2>1, <3>1, <3>3, <3>4
  <2>3. QED
    BY <1>4, <1>5, <1>6, <2>1, <2>2 DEF Caches
<1>13. ASSUME NEW x \in Texts, NEW d \in History!Ids(screen), History!Rerun(d, x)
       PROVE  Grows /\ Caches /\ historyTurn' \in History!Turns
  <2>1. /\ UNCHANGED <<historyStored, rowCount, poll>>
        /\ History!Sync(History!Prune(screen, d, x))
        /\ historyTurn' = [kind |-> "rerun", stage |-> "asked", text |-> x, target |-> d,
             seen |-> History!Ids(screen) = History!Ids(History!ListMessages)]
    BY <1>13 DEF History!Rerun
  <2>2. d \in Int
    <3>1. \A i \in 1 .. Len(screen) : screen[i] \in History!Messages
      BY <1>1, History!ElementOfSeq DEF Fits
    <3>2. \A m \in History!Messages : m.id \in 1 .. rowCount
      BY DEF History!Messages
    <3>3. QED
      BY <1>2, <3>1, <3>2 DEF History!Ids
  <2>3. x \in History!Contents
    BY DEF History!Contents
  <2>4. historyTurn' \in History!Turns
    BY <2>1, <2>2, <2>3 DEF History!Turns
  <2>5. Fits(History!Prune(screen, d, x))
    BY <1>1, <2>3, EditsFit
  <2>6. QED
    BY <1>5, <1>6, <2>1, <2>4, <2>5, SyncCaches DEF Caches
<1>14. ASSUME NEW r \in History!Roles, NEW b \in BOOLEAN, History!Store(r, b)
       PROVE  Grows /\ Caches /\ historyTurn' \in History!Turns
  <2>1. /\ UNCHANGED <<screen, reasoned, poll>> /\ rowCount' = rowCount + 1
        /\ historyStored' = Append(historyStored,
             [id |-> rowCount + 1, role |-> r, text |-> "", reasoning |-> b])
        /\ \E s \in {"answered", "running"} : historyTurn' = [historyTurn EXCEPT !.stage = s]
    BY <1>14 DEF History!Store, History!Row
  <2>2. historyTurn' \in History!Turns
    BY <1>2, <2>1 DEF History!Turns
  <2>3. Grows
    BY <2>1, NoTextIsContent DEF Grows
  <2>4. QED
    BY <1>4, <1>6, <2>1, <2>2, <2>3 DEF Caches
<1>15. ASSUME NEW b \in BOOLEAN, History!Respond(b)
       PROVE  Grows /\ Caches /\ historyTurn' \in History!Turns
  <2> DEFINE l == History!ListMessages
             final == {i \in 1 .. Len(l) : l[i].role = "assistant"}
             injected == IF b /\ final # {} THEN [l EXCEPT ![History!Max(final)].reasoning = TRUE] ELSE l
  <2>1. /\ UNCHANGED <<historyStored, rowCount>> /\ History!Sync(injected)
        /\ poll' = {} /\ historyTurn' = History!Idle
    BY <1>15 DEF History!Respond
  <2>2. Fits(l) /\ Len(l) \in Nat
    BY <1>1, History!LenProperties DEF Fits
  <2>3. final \in SUBSET (1 .. Len(l))
    OBVIOUS
  <2> HIDE DEF final, l
  <2>4. final # {} => History!Max(final) \in 1 .. Len(l)
    BY <2>2, <2>3, SubsetsOfPositions
  <2>5. Fits(injected)
    BY <2>2, <2>4, InjectionFits
  <2> HIDE DEF injected
  <2>6. QED
    BY <1>3, <1>5, <1>6, <2>1, <2>5, SyncCaches DEF Caches
<1>16. QED
  BY <1>7, <1>8, <1>9, <1>10, <1>11, <1>12, <1>13, <1>14, <1>15 DEF History!Next

\* The rows after a step: those seen before, or the next one.
LEMMA RowsStay ==
    ASSUME History!HistoryInv, Grows, Caches
    PROVE  /\ rowCount' \in Nat /\ {historyStored', screen'} \cup poll' \subseteq Seq(History!Messages')
           /\ \A m, n \in History!Seen' : m.id = n.id => m.role = n.role
<1> DEFINE R == History!Messages  Q == History!Messages'
<1>1. /\ rowCount \in Nat /\ \A m, n \in History!Seen : m.id = n.id => m.role = n.role
      /\ {historyStored, screen} \cup poll \subseteq Seq(R)
  BY DEF History!HistoryInv
<1>2. Fits(historyStored)
  BY RowsFit
<1>3. /\ Fits(screen') /\ \A ms \in poll' : Fits(ms)
  BY DEF Caches
<1>4. rowCount' \in Nat /\ rowCount <= rowCount'
  BY <1>1 DEF Grows
<1>5. R \subseteq Q
  BY <1>1, <1>4 DEF History!Messages
<1>6. \A m \in History!Seen : m.id \in 1 .. rowCount
  <2>1. History!Seen \subseteq R
    <3>1. \A ms \in Seq(R) : History!ToSet(ms) \subseteq R
      BY History!LenProperties, History!ElementOfSeq DEF History!ToSet
    <3> HIDE DEF R
    <3>2. QED
      BY <1>1, <3>1 DEF History!Seen
  <2>2. \A m \in R : m.id \in 1 .. rowCount
    BY DEF History!Messages
  <2>3. QED
    BY <2>1, <2>2
<1>7. /\ screen' \in Seq(Q) /\ \A ms \in poll' : ms \in Seq(Q)
  <2>1. /\ screen' \in Seq(R) /\ \A ms \in poll' : ms \in Seq(R)
    BY <1>3 DEF Fits
  <2> HIDE DEF R, Q
  <2>2. QED
    BY <1>5, <2>1, RowsRemainRows
<1>8. /\ historyStored' \in Seq(Q)
      /\ \E r : \A m \in History!ToSet(historyStored') : Twin(m) \/ (m.id = rowCount + 1 /\ m.role = r)
  <2>1. CASE Fits(historyStored')
    <3>1. historyStored' \in Seq(R) /\ \A m \in History!ToSet(historyStored') : Twin(m)
      BY <2>1 DEF Fits
    <3> HIDE DEF R, Q
    <3>2. QED
      BY <1>5, <3>1, RowsRemainRows
  <2>2. ASSUME rowCount' = rowCount + 1, NEW r \in History!Roles, NEW x \in History!Contents, NEW b \in BOOLEAN,
               historyStored' = Append(historyStored,
                                    [id |-> rowCount + 1, role |-> r, text |-> x, reasoning |-> b])
        PROVE  <1>8!:
    <3> DEFINE row == [id |-> rowCount + 1, role |-> r, text |-> x, reasoning |-> b]
    <3>1. row \in Q /\ row.id = rowCount + 1 /\ row.role = r
      BY <1>1, <2>2 DEF History!Messages
    <3>2. historyStored \in Seq(R) /\ \A m \in History!ToSet(historyStored) : Twin(m)
      BY <1>2 DEF Fits
    <3>3. historyStored' = Append(historyStored, row)
      BY <2>2
    <3> HIDE DEF R, Q, row
    <3>4. historyStored \in Seq(Q)
      BY <1>5, <3>2, RowsRemainRows
    <3>5. /\ Append(historyStored, row) \in Seq(Q)
          /\ History!Members(Append(historyStored, row)) = History!Members(historyStored) \union {row}
      BY <3>1, <3>4, History!AppendKeeps
    <3>6. \A m \in History!ToSet(historyStored') : m = row \/ m \in History!ToSet(historyStored)
      BY <3>3, <3>5 DEF History!Members, History!ToSet
    <3>7. QED
      BY <3>1, <3>2, <3>3, <3>5, <3>6
  <2>3. QED
    BY <2>1, <2>2 DEF Grows
<1> HIDE DEF R, Q
<1>9. PICK r : \A m \in History!ToSet(historyStored') : Twin(m) \/ (m.id = rowCount + 1 /\ m.role = r)
  BY <1>8
<1>10. \A m \in History!Seen' : Twin(m) \/ (m.id = rowCount + 1 /\ m.role = r)
  BY <1>3, <1>9 DEF History!Seen, Fits
<1>11. ASSUME NEW m \in History!Seen', NEW n \in History!Seen', m.id = n.id
       PROVE  m.role = n.role
  <2>1. \A a : Twin(a) => a.id \in 1 .. rowCount
    BY <1>6 DEF Twin
  <2>2. rowCount + 1 \notin 1 .. rowCount
    BY <1>1
  <2>3. CASE Twin(m) /\ Twin(n)
    BY <1>1, <1>11, <2>3 DEF Twin
  <2>4. QED
    BY <1>10, <1>11, <2>1, <2>2, <2>3
<1>12. QED
  BY <1>4, <1>7, <1>8, <1>11 DEF Q

LEMMA HistoryStart == History!Init => History!HistoryInv
<1> SUFFICES ASSUME History!Init PROVE History!HistoryInv
  OBVIOUS
<1>1. PICK n \in 0 .. 1, x \in Texts :
        historyStored = IF n = 0 THEN <<>>
                        ELSE <<[id |-> 1, role |-> "user", text |-> x, reasoning |-> FALSE],
                               [id |-> 2, role |-> "assistant", text |-> "", reasoning |-> FALSE]>>
  BY DEF History!Init
<1>2. /\ rowCount = Len(historyStored) /\ screen = <<>> /\ poll = {} /\ historyTurn = History!Idle
  BY DEF History!Init
<1>3. historyTurn \in History!Turns
  BY <1>2, IdleIsATurn
<1>4. /\ screen \in Seq(History!Messages) /\ History!ToSet(screen) = {}
  BY <1>2 DEF History!ToSet
<1>5. History!Seen = History!ToSet(historyStored)
  BY <1>2, <1>4 DEF History!Seen
<1>6. CASE n = 0
  <2>1. historyStored = <<>> /\ rowCount = 0
    BY <1>1, <1>2, <1>6
  <2>2. historyStored \in Seq(History!Messages) /\ History!ToSet(historyStored) = {}
    BY <2>1 DEF History!ToSet
  <2>3. QED
    BY <1>2, <1>3, <1>4, <1>5, <2>1, <2>2 DEF History!HistoryInv
<1>7. CASE n # 0
  <2> DEFINE a == [id |-> 1, role |-> "user", text |-> x, reasoning |-> FALSE]
             b == [id |-> 2, role |-> "assistant", text |-> "", reasoning |-> FALSE]
  <2>1. historyStored = <<a, b>>
    BY <1>1, <1>7
  <2>2. rowCount = 2
    BY <1>2, <2>1
  <2>3. a \in History!Messages /\ b \in History!Messages
    <3>1. x \in History!Contents
      BY DEF History!Contents
    <3>2. PICK e \in History!Contents : e = ""
      BY NoTextIsContent
    <3>3. b = [id |-> 2, role |-> "assistant", text |-> e, reasoning |-> FALSE]
      BY <3>2
    <3>4. /\ a \in History!Messages
          /\ [id |-> 2, role |-> "assistant", text |-> e, reasoning |-> FALSE] \in History!Messages
      BY <2>2, <3>1 DEF History!Messages, History!Roles
    <3>5. QED
      BY <3>3, <3>4
  <2>4. a.id # b.id
    OBVIOUS
  <2> HIDE DEF a, b
  <2>5. historyStored \in Seq(History!Messages) /\ History!ToSet(historyStored) \subseteq {a, b}
    BY <2>1, <2>3 DEF History!ToSet
  <2>6. \A m, k \in History!Seen : m.id = k.id => m.role = k.role
    BY <1>5, <2>4, <2>5
  <2>7. QED
    BY <1>2, <1>3, <1>4, <2>2, <2>5, <2>6 DEF History!HistoryInv
<1>8. QED
  BY <1>6, <1>7

LEMMA HistoryStep == History!HistoryInv /\ [History!Next]_(History!vars) => History!HistoryInv'
<1> SUFFICES ASSUME History!HistoryInv, [History!Next]_(History!vars) PROVE History!HistoryInv'
  OBVIOUS
<1>1. CASE History!Next
  <2>1. Grows /\ Caches /\ historyTurn' \in History!Turns
    BY <1>1, HistoryMoves
  <2>2. History!Turns' = History!Turns
    BY DEF History!Turns, History!Contents
  <2>3. /\ rowCount' \in Nat /\ {historyStored', screen'} \cup poll' \subseteq Seq(History!Messages')
        /\ \A m, n \in History!Seen' : m.id = n.id => m.role = n.role
    BY <2>1, RowsStay
  <2>4. \A m \in History!ToSet(screen') : m.reasoning => m.id \in reasoned'
    BY <2>1 DEF Caches
  <2>5. QED
    BY <2>1, <2>2, <2>3, <2>4 DEF History!HistoryInv
<1>2. CASE UNCHANGED History!vars
  BY <1>2 DEF History!vars, History!HistoryInv, History!Seen, History!Messages, History!Turns
<1>3. QED
  BY <1>1, <1>2

LEMMA ReasoningStays ==
    ASSUME History!HistoryInv, History!Next
    PROVE  History!ReasoningKeptStep
<1>1. Caches
  BY HistoryMoves
<1>2. \A m, n \in History!Seen : m.id = n.id => m.role = n.role
  BY DEF History!HistoryInv
<1>3. \A m \in History!ToSet(screen) : m.reasoning => m.id \in reasoned
  BY DEF History!HistoryInv
<1>4. SUFFICES ASSUME NEW d \in History!ReasoningEntries, d \in History!Ids(screen')
               PROVE  d \in History!ReasoningEntries'
  BY DEF History!ReasoningKeptStep
<1>5. PICK m \in History!ToSet(screen) :
        m.id = d /\ m.role # "user" /\ (m.reasoning \/ m.id \in reasoned)
  BY DEF History!ReasoningEntries
<1>6. d \in reasoned'
  BY <1>1, <1>3, <1>5 DEF Caches
<1>7. PICK i \in 1 .. Len(screen') : screen'[i].id = d
  BY <1>4 DEF History!Ids
<1>8. screen'[i] \in History!ToSet(screen')
  <2>1. screen' \in Seq(History!Messages)
    BY <1>1 DEF Caches, Fits
  <2>2. QED
    BY <2>1, History!LenProperties DEF History!ToSet
<1>9. Twin(screen'[i])
  BY <1>1, <1>8 DEF Caches, Fits
<1>10. m \in History!Seen
  BY DEF History!Seen
<1>11. screen'[i].role # "user"
  BY <1>2, <1>5, <1>7, <1>9, <1>10 DEF Twin
<1>12. QED
  BY <1>6, <1>7, <1>8, <1>11 DEF History!ReasoningEntries
--------------------------------------------------------------------------------
(* One page moves *)

\* The page stays, and what moves is a step of its own.
LEMMA OnePageMoves ==
    [MCNext]_MCVars =>
        /\ page' = page
        /\ page = "setup" => [Setup!Next]_(Setup!vars)
        /\ page = "connections" => [Providers!Next]_(Providers!vars)
        /\ page = "settings" => [Settings!Next]_(Settings!settingsVars)
        /\ page = "prompt" => [Prompt!Next]_(Prompt!promptVars)
        /\ page = "panels" => [Panels!Next]_(Panels!vars)
        /\ page = "history" => [History!Next]_(History!vars)
<1>1. CASE MCNext
  BY <1>1 DEF MCNext
<1>2. CASE UNCHANGED MCVars
  <2>1. page' = page
    BY <1>2 DEF MCVars
  <2>2. UNCHANGED Settings!settingsVars
    BY <1>2 DEF MCVars, settingsVars, Settings!settingsVars
  <2>3. UNCHANGED Prompt!promptVars
    BY <1>2 DEF MCVars, promptVars, Prompt!promptVars
  <2>4. UNCHANGED Panels!vars
    BY <1>2 DEF MCVars, panelsVars, Panels!vars, Panels!panelVars, Panels!orderVars, Panels!routeVars
  <2>5. UNCHANGED Setup!vars
    BY <1>2 DEF MCVars, setupVars, Setup!vars
  <2>6. UNCHANGED Providers!vars
    BY <1>2 DEF MCVars, providersVars, Providers!vars, Providers!rows, Providers!page,
       Providers!dialogs, Providers!writes
  <2>7. UNCHANGED History!vars
    BY <1>2 DEF MCVars, historyVars, History!vars
  <2>8. QED
    BY <2>1, <2>2, <2>3, <2>4, <2>5, <2>6, <2>7
<1>3. QED
  BY <1>1, <1>2

\* For any models, sessions, collections, tools, texts, sections and bounds: the
\* connection in force is the model's own, a new chat carries the settings over
\* and overrides are of the model they were tuned for; what was typed stays the
\* draft; one panel is open on a narrow screen, each section is listed once, a
\* settled order is the stored one and the route names the session on screen.
THEOREM SettingsAlwaysFollow == MCSpec => []SettingsFollow
<1> DEFINE Inv == /\ page = "settings" => Settings!SettingsInv
                  /\ page = "prompt" => Prompt!PromptInv
                  /\ page = "panels" => Panels!PanelsInv
<1>1. MCInit => Inv
  <2>1. MCInit => /\ page = "settings" => Settings!Init
                  /\ page = "prompt" => Prompt!Init
                  /\ page = "panels" => Panels!Init
    BY DEF MCInit
  <2>2. QED
    BY <2>1, SettingsStart, PromptStart, PanelsStart
<1>2. Inv /\ [MCNext]_MCVars => Inv'
  BY OnePageMoves, SettingsStep, PromptStep, PanelsStep
<1>3. Inv => SettingsFollow
  BY SettingsHold, PromptHolds, PanelsHold DEF SettingsFollow
<1>4. QED
  BY <1>1, <1>2, <1>3, PTL DEF MCSpec

\* For any models and dimensions, index names, backends, provider types and
\* limits: whoever reaches the launch has an index that takes the model's
\* vectors, the dimension in the form is the model's and a collection is
\* installed once; a connection keeps the settings its writers meant, a type
\* its limit, the settled list shows the rows, and what the checklist shows as
\* covered opens the gate.
THEOREM SetupAlwaysHolds == MCSpec => []SetupHolds
<1> DEFINE Inv == /\ page = "setup" => Setup!SetupInv
                  /\ page = "connections" => Providers!ConnectionsInv
<1>1. MCInit => Inv
  <2>1. MCInit => /\ page = "setup" => Setup!Init
                  /\ page = "connections" => Providers!Init
    BY DEF MCInit
  <2>2. QED
    BY <2>1, SetupStart, ConnectionsStart
<1>2. Inv /\ [MCNext]_MCVars => Inv'
  BY OnePageMoves, SetupWizardStep, ConnectionsStep
<1>3. Inv => SetupHolds
  <2>1. Setup!SetupInv => /\ Setup!TypeOK /\ Setup!DimensionFitsModel
                          /\ Setup!LaunchIsServed /\ Setup!InstalledOnce
    BY DEF Setup!SetupInv
  <2>2. QED
    BY <2>1, ConnectionsHold DEF SetupHolds
<1>4. QED
  BY <1>1, <1>2, <1>3, PTL DEF MCSpec

\* For any texts, bounds and page size of the history: reasoning that a bubble
\* shows stays while its message is on screen, whatever a poll, an edit, a load
\* or a response puts there next.
THEOREM ReasoningAlwaysKept == MCSpec => ReasoningKept
<1> DEFINE Inv == page = "history" => History!HistoryInv
<1>1. MCInit => Inv
  <2>1. MCInit /\ page = "history" => History!Init
    BY DEF MCInit
  <2>2. QED
    BY <2>1, HistoryStart
<1>2. Inv /\ [MCNext]_MCVars => Inv'
  BY OnePageMoves, HistoryStep
<1>3. Inv /\ [MCNext]_MCVars => [page = "history" => History!ReasoningKeptStep]_MCVars
  <2>1. MCNext /\ page = "history" => History!Next
    BY DEF MCNext
  <2>2. QED
    BY <2>1, ReasoningStays
<1>4. QED
  BY <1>1, <1>2, <1>3, PTL DEF MCSpec, ReasoningKept
================================================================================
