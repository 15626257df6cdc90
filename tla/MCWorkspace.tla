------------------------------ MODULE MCWorkspace ------------------------------
(***************************************************************************)
(* The workspace for TLC: its session, the evaluation pages, the trace     *)
(* debugger, the playback of a pipeline's runs, and the catalogs and turns *)
(* of the chat, one at a time. A page that does not move is left out       *)
(* (None) or stays in one of its initial states.                           *)
(***************************************************************************)
EXTENDS Naturals, Sequences, FiniteSetTheorems, TLAPS

CONSTANTS
    None,
    Pages,         \* the pages among which one moves
    Slots, Benchmark, Runs, MaxActions,   \* the evaluations' landing page
    Corpora, MatchingPages, Searches, Questions, PageSize, MaxEdits,   \* a dataset's page
    Evaluated,     \* how many queries the followed run evaluates
    Datasets, Ingestion, Limit, ServerKnows, NodeCap, Cutoffs, Typed, Overfetch, MaxTopK,  \* a new run
    Collections, Models, Structured, QuestionKinds, Numbers, MaxQuestions, MaxExamples,  \* a new dataset
    Chunks, Document, Index, RankedLists, Pipeline, Nodes, MaxMoves,   \* the trace debugger
    Registration,  \* whether the server registers accounts: what it may be
    Keys, UserOf, Users, Hooks, KeyOf, MaxVersion, MaxFlights,   \* the catalogs
    Saved, Fresh, MaxTurns                                       \* the chats' turns

\* A sign of nothing is none of the things it stands in for.
ASSUME NoneAssumption ==
    None # 0 /\ None # 1 /\ None # TRUE /\ None # FALSE /\ None # "u"

\* There is a benchmark; what a dataset's page lists are lists, and a page of
\* its queries is not empty.
IsList(s) == s \in Seq({s[i] : i \in DOMAIN s})
ASSUME PagesAssumption ==
    /\ Benchmark \in Slots
    /\ IsList(Corpora) /\ IsList(Questions)
    /\ PageSize \in Nat \ {0} /\ Evaluated \in Nat

\* Every retrieval pipeline has bounds, and its depth variable takes a number;
\* cutoffs, and what is typed, are numbers; the presets ask for two or three
\* questions where the limit is higher, and one example may be given.
ASSUME WizardsAssumption ==
    /\ IsFiniteSet(Cutoffs) /\ Cutoffs \subseteq Nat /\ Typed \subseteq Nat /\ Numbers \subseteq Nat
    /\ \A d \in DOMAIN Datasets : Datasets[d] \in Nat
    /\ \A r \in DOMAIN Limit : Limit[r] \in Nat \ {0} /\ NodeCap[r] \in Nat
    /\ Overfetch \in Nat /\ MaxTopK \in Nat /\ MaxQuestions \in Nat /\ MaxQuestions >= 3
    /\ MaxExamples \in Nat \ {0}

\* What a trace lists are chunks, and every pipeline that ingested one is a
\* sequence of nodes, as is that of retrieval.
ASSUME TraceAssumption ==
    /\ Chunks \subseteq DOMAIN Pipeline /\ MaxMoves \in Nat
    /\ \A l \in RankedLists : IsList(l) /\ \A i \in DOMAIN l : l[i] \in Chunks
    /\ \A p \in {"ingestion", "retrieval"} \cup ({Pipeline[c] : c \in Chunks} \ {None}) :
          IsList(Nodes[p]) /\ Nodes[p] # << >>

\* Every hook watches a key, every key is a user's.
ASSUME CatalogsAssumption ==
    /\ IsFiniteSet(Keys) /\ UserOf \in [Keys -> Users] /\ KeyOf \in [Hooks -> Keys]
    /\ MaxVersion \in Nat \ {0} /\ MaxFlights \in Nat

ASSUME TurnsAssumption == MaxTurns \in Nat

VARIABLES
    page,      \* what the behaviour is about: the page that is open
    catalog, aggregates, item, retrieved, expanded,
    wizard, newRunListed, launched,
    gen, models, generateSent,
    stored, task, datasets, runs, dialog, busyKey, actions,
    arrived, selectedId, search, debounced, timer, docOffset, documents, datasetRows,
    queries, qOffset, editing, asking, datasetFlights,
    status, written, run, items, wasActive, seen, cancels, actionError,
    kind, failedNode, chunkId, navigations, focusState, traceQuery, debuggerMounted,
    selection, graphStage, showFocusedPath, tab, artifactItem, artifactMode, asked,
    moves,
    records, target, origin, legacy, focused,
    edges, steps, activeIndex, phase, playing, completed, autoPlay, left, longHaul,
    clicks,
    token, user, authLoading, requests, signing, mode, config, route, gate,
    completedLocally, cookie, known, open, done, signedOut,
    version, entries, catalogsFlights, catalogsSent, timers, deadlines, catalogsMounted,
    signedIn, told,
    turnsRows, turnsListed, selected, shown, history, pollOf, polls, pending, skip,
    optimistic, turns, started, controller, sending, stopping

\* The catalogs TLC checks: two hooks of a user watch a key, another's watches its own.
HookUsers == [k \in {"u_chat", "v_chat"} |-> IF k = "v_chat" THEN "v" ELSE "u"]
HookKeys == [h \in {"a", "b", "c"} |-> IF h = "c" THEN "v_chat" ELSE "u_chat"]

\* The dataset's page TLC checks: two collections, three queries, and how many
\* pages of documents match, per collection and search text.
TwoCorpora == <<"one", "two">>
ThreeQuestions == <<"q1", "q2", "q3">>
TwoCorporaPages ==
    [p \in {"one", "two"} \X {"", "x"} |->
        IF p = <<"one", "">> THEN 3 ELSE IF p = <<"two", "x">> THEN 0 ELSE 1]

\* The wizards TLC checks: an empty dataset and one of nine queries. The second
\* retrieval pipeline returns fewer results than the deepest cutoff
\* by its variable's bound, the third by a node's own limit.
SizesOf == [small |-> 0, large |-> 9]
Bounds == [broad |-> 8, narrow |-> 2, odd |-> 8]
Caps == [broad |-> 100, narrow |-> 100, odd |-> 3]

\* The trace TLC checks: a1 and a2 are of one document, b of another, which
\* another pipeline ingested.
DocumentOf == [c \in {"a1", "a2", "b"} |-> IF c = "b" THEN "b" ELSE "a"]
PlaceOf == [c \in DOMAIN DocumentOf |-> IF c = "a2" THEN 1 ELSE 0]
ListsOf == {<<"b", "a2", "a1">>, <<"a1", "a2">>}
PipelineOf == [c \in DOMAIN DocumentOf |-> IF c = "b" THEN "other" ELSE "ingestion"]
NodesOf == [ingestion |-> <<"index">>, other |-> <<"split">>, retrieval |-> <<"query", "rank">>]

\* Two pipelines with a node of the same name; retrieval fuses two branches.
Traced ==
    [origin |-> [nodes |-> <<"splitter", "embed", "indexer">>,
                 edges |-> {<<"splitter", "embed">>, <<"embed", "indexer">>}],
     retrieval |-> [nodes |-> <<"embed", "dense", "lexical", "fuse", "rerank">>,
                    edges |-> {<<"embed", "dense">>, <<"embed", "lexical">>, <<"dense", "fuse">>,
                               <<"lexical", "fuse">>, <<"fuse", "rerank">>}]]

\* Both branches read what ingestion wrote, one of them, or neither.
IndexChoices ==
    {[n \in {"indexer", "dense", "lexical"} |-> IF n \in other THEN "i2" ELSE "i1"] :
        other \in {{}, {"lexical"}, {"indexer"}}}

\* Where the nodes of the played graph are drawn.
Column == [n \in {"a", "b", "c", "d"} |-> CASE n = "d" -> 0 [] n = "a" -> 1 [] n = "b" -> 2 [] OTHER -> 4]
Row == [n \in DOMAIN Column |-> IF n = "c" THEN 2 ELSE 1]
Size == [n \in DOMAIN Column |-> IF n = "b" THEN 2 ELSE 1]

\* Every graph of three nodes beside a lone one, and a chain of four with a
\* short cut.
PlayedGraphs == SUBSET {e \in {"a", "b", "c"} \X {"a", "b", "c"} : e[1] # e[2]}
            \cup {{<<"d", "a">>, <<"a", "b">>, <<"b", "c">>, <<"a", "c">>}}

Results == INSTANCE EvalResults WITH
    Catalog <- <<"recall", "ndcg">>, Unlisted <- <<"latency", "tokens">>,
    Cutoffs <- {1, 5}, MaxMetrics <- 2, MaxStages <- 3
NewRun == INSTANCE EvalRunWizard WITH
    listed <- newRunListed
Generate == INSTANCE EvalGenerateWizard WITH
    Kinds <- QuestionKinds, sent <- generateSent
Landing == INSTANCE EvalsPage WITH
    OfDataset <- Benchmark
Dataset == INSTANCE EvalDatasetPage WITH
    Pages <- MatchingPages, Queries <- Questions, MaxFlights <- MaxEdits,
    rows <- datasetRows, flights <- datasetFlights
Run == INSTANCE EvalRunPage WITH
    Queries <- Evaluated
Debugger == INSTANCE TraceDebugger WITH
    Lists <- RankedLists, mounted <- debuggerMounted
RunGraphs == INSTANCE TraceGraphs WITH
    Items <- {"x", "y"}, Definition <- Traced, Indexes <- {"i1", "i2"},
    Targets <- IndexChoices
Playback == INSTANCE FlowPlayback WITH
    Nodes <- DOMAIN Column, Graphs <- PlayedGraphs, Loop <- FALSE, MaxClicks <- 3
Session == INSTANCE ConsoleSession WITH
    Overlap <- FALSE, StatusFails <- TRUE
Catalogs == INSTANCE ModelCatalogs WITH
    flights <- catalogsFlights, sent <- catalogsSent, mounted <- catalogsMounted
Turns == INSTANCE ChatTurns WITH
    rows <- turnsRows, listed <- turnsListed

\* Having read nothing is no answer of the server, no corpus and no query.
ASSUME ReadAssumption ==
    /\ None \notin [Slots -> Landing!DatasetStates] \cup [Runs -> Landing!RunStates]
    /\ None \notin {Corpora[i] : i \in DOMAIN Corpora} \cup {Questions[i] : i \in DOMAIN Questions}
    /\ None \notin Run!Statuses /\ None \notin Debugger!Traces
    /\ None \notin NewRun!Payloads /\ None \notin Generate!Payloads
    /\ None \notin NewRun!Wizards /\ None \notin Generate!Wizards
    /\ None \notin DOMAIN Datasets \cup Ingestion \cup DOMAIN Limit \cup Collections \cup Models

resultsVars == <<catalog, aggregates, item, retrieved, expanded>>
newRunVars == <<wizard, newRunListed, launched>>
generateVars == <<gen, models, generateSent>>
landingVars == <<stored, task, datasets, runs, dialog, busyKey, actions>>
datasetVars == <<arrived, selectedId, search, debounced, timer, docOffset, documents,
    datasetRows, queries, qOffset, editing, asking, datasetFlights>>
runVars == <<status, written, run, items, wasActive, seen, cancels, actionError>>
debuggerVars == <<kind, failedNode, chunkId, navigations, focusState, traceQuery,
    debuggerMounted, selection, graphStage, showFocusedPath, tab, artifactItem,
    artifactMode, asked, moves>>
runGraphsVars == <<records, target, origin, legacy, focused>>
playbackVars == <<edges, steps, activeIndex, phase, playing, completed, autoPlay, left,
    longHaul, clicks>>
sessionVars == <<token, user, authLoading, requests, signing, mode, config, route,
    gate, completedLocally, cookie, known, open, done, signedOut>>
catalogsVars == <<version, entries, catalogsFlights, catalogsSent, timers, deadlines,
    catalogsMounted, signedIn, told>>
turnsVars == <<turnsRows, turnsListed, selected, shown, history, pollOf, polls,
    pending, skip, optimistic, turns, started, controller, sending, stopping>>

vars == <<page, resultsVars, newRunVars, generateVars, landingVars, datasetVars,
          runVars, debuggerVars, runGraphsVars, playbackVars, sessionVars,
          catalogsVars, turnsVars>>

\* What moves starts as it does alone.
Init ==
    /\ page \in Pages
    /\ IF page = "results" THEN Results!Init
       ELSE /\ catalog = None /\ aggregates = None /\ item = None /\ retrieved = None
            /\ expanded = None
    /\ IF page = "newrun" THEN NewRun!Init
       ELSE /\ wizard = None /\ newRunListed = None /\ launched = None
    /\ IF page = "generate" THEN Generate!Init
       ELSE /\ gen = None /\ models = None /\ generateSent = None
    /\ Landing!Init /\ (page = "landing" \/ (\A s \in Slots : stored[s] = "absent"))
    /\ IF page \in {"documents", "review"} THEN Dataset!Init
       ELSE /\ arrived = None /\ selectedId = None /\ search = None /\ debounced = None
            /\ timer = None /\ docOffset = None /\ documents = None
            /\ datasetRows = None /\ queries = None /\ qOffset = None /\ editing = None
            /\ asking = None /\ datasetFlights = None
    /\ Run!Init
    /\ IF page = "trace" THEN Debugger!Init
       ELSE /\ kind = None /\ failedNode = None /\ chunkId = None /\ navigations = None
            /\ focusState = None /\ traceQuery = None /\ debuggerMounted = None
            /\ selection = None /\ graphStage = None /\ showFocusedPath = None
            /\ tab = None /\ artifactItem = None /\ artifactMode = None /\ asked = None
            /\ moves = None
    /\ IF page = "graphs" THEN RunGraphs!Init
       ELSE /\ records = None /\ target = None /\ origin = None /\ legacy = None
            /\ focused = None
    /\ Playback!Init /\ (page = "playback" \/ (edges = {} /\ ~autoPlay))
    /\ Session!Init /\ (page = "session" \/ (~known /\ ~open /\ ~done /\ route = "signin"))
    /\ open \in Registration
    /\ Catalogs!Init
    /\ Turns!Init

InLanding(A) ==
    page = "landing" /\ A
         /\ UNCHANGED <<page, resultsVars, newRunVars, generateVars, datasetVars, runVars, debuggerVars,
                      runGraphsVars, playbackVars, sessionVars, catalogsVars,
                      turnsVars>>
InRun(A) ==
    page = "run" /\ A
         /\ UNCHANGED <<page, resultsVars, newRunVars, generateVars, landingVars, datasetVars,
                      debuggerVars, runGraphsVars, playbackVars, sessionVars,
                      catalogsVars, turnsVars>>
InPlayback(A) ==
    page = "playback" /\ A
         /\ UNCHANGED <<page, resultsVars, newRunVars, generateVars, landingVars, datasetVars, runVars,
                      debuggerVars, runGraphsVars, sessionVars, catalogsVars,
                      turnsVars>>
InSession(A) ==
    page = "session" /\ A
         /\ UNCHANGED <<page, resultsVars, newRunVars, generateVars, landingVars, datasetVars, runVars,
                      debuggerVars, runGraphsVars, playbackVars, catalogsVars,
                      turnsVars>>
InCatalogs(A) ==
    page = "catalogs" /\ A
         /\ UNCHANGED <<page, resultsVars, newRunVars, generateVars, landingVars, datasetVars, runVars,
                      debuggerVars, runGraphsVars, playbackVars, sessionVars,
                      turnsVars>>
InTurns(A) ==
    page = "turns" /\ A
         /\ UNCHANGED <<page, resultsVars, newRunVars, generateVars, landingVars, datasetVars, runVars,
                      debuggerVars, runGraphsVars, playbackVars, sessionVars,
                      catalogsVars>>

Next ==
    \/ page = "results" /\ Results!Next
         /\ UNCHANGED <<page, newRunVars, generateVars, landingVars, datasetVars, runVars, debuggerVars,
                      runGraphsVars, playbackVars, sessionVars, catalogsVars,
                      turnsVars>>
    \/ page = "newrun" /\ NewRun!Next
         /\ UNCHANGED <<page, resultsVars, generateVars, landingVars, datasetVars, runVars,
                      debuggerVars, runGraphsVars, playbackVars, sessionVars,
                      catalogsVars, turnsVars>>
    \/ page = "generate" /\ Generate!Next
         /\ UNCHANGED <<page, resultsVars, newRunVars, landingVars, datasetVars, runVars, debuggerVars,
                      runGraphsVars, playbackVars, sessionVars, catalogsVars,
                      turnsVars>>
    \/ InLanding(Landing!Next)
    \/ page = "documents" /\ Dataset!NextDocuments
         /\ UNCHANGED <<page, resultsVars, newRunVars, generateVars, landingVars, runVars, debuggerVars,
                      runGraphsVars, playbackVars, sessionVars, catalogsVars,
                      turnsVars>>
    \/ page = "review" /\ Dataset!NextReview
         /\ UNCHANGED <<page, resultsVars, newRunVars, generateVars, landingVars, runVars, debuggerVars,
                      runGraphsVars, playbackVars, sessionVars, catalogsVars,
                      turnsVars>>
    \/ InRun(Run!Next)
    \/ page = "trace" /\ Debugger!Next
         /\ UNCHANGED <<page, resultsVars, newRunVars, generateVars, landingVars, datasetVars, runVars,
                      runGraphsVars, playbackVars, sessionVars, catalogsVars,
                      turnsVars>>
    \/ page = "graphs" /\ RunGraphs!Next
         /\ UNCHANGED <<page, resultsVars, newRunVars, generateVars, landingVars, datasetVars, runVars,
                      debuggerVars, playbackVars, sessionVars, catalogsVars,
                      turnsVars>>
    \/ InPlayback(Playback!Next)
    \/ InSession(Session!Next)
    \/ InCatalogs(Catalogs!Next)
    \/ InTurns(Turns!Next)

Spec == Init /\ [][Next]_vars

\* Each of them under its own fairness.
Fairness ==
    /\ \A i \in 1..2 : WF_vars(InCatalogs(\E f \in catalogsFlights : f.id = i /\ (Catalogs!Answer(f) \/ Catalogs!Fail(f))))
    /\ WF_vars(InTurns(\E t \in turns : Turns!Frame(t) \/ Turns!BranchFails(t)))
    /\ WF_vars(InTurns(\E t \in turns : Turns!Answer(t) \/ Turns!Fail(t) \/ Turns!Abort(t)))
    /\ SF_vars(InLanding(Landing!DatasetFinishes(Benchmark)))
    /\ WF_vars(InLanding(Landing!Poll)) /\ SF_vars(InLanding(Landing!ServeDatasets)) /\ SF_vars(InLanding(Landing!LandDatasets))
    /\ WF_vars(InRun(Run!WriteItem)) /\ SF_vars(InRun(Run!Finish)) /\ WF_vars(InRun(Run!RunTick))
    /\ SF_vars(InRun(Run!ServeRun)) /\ SF_vars(InRun(Run!LandRun))
    /\ WF_vars(InPlayback(Playback!Tick)) /\ WF_vars(InPlayback(Playback!WaveEnds))
    /\ WF_vars(InPlayback(Playback!HopEnds)) /\ WF_vars(InPlayback(\E e \in edges : Playback!Expire(e)))
    /\ \A k \in Session!Kinds : WF_vars(InSession(Session!ServerAnswers(k)))
    /\ WF_vars(InSession(Session!ServeStatus)) /\ WF_vars(InSession(Session!StatusAnswers))
    /\ WF_vars(InSession(Session!bootAnswers)) /\ WF_vars(InSession(Session!fetchProfileAnswers))
    /\ WF_vars(InSession(Session!tickAnswers)) /\ WF_vars(InSession(Session!signOutAnswers))
    /\ WF_vars(InSession(Session!registerAnswers)) /\ WF_vars(InSession(Session!signInAnswers))
    /\ WF_vars(InSession(Session!RedirectToSetup)) /\ WF_vars(InSession(Session!SendAway))

FairSpec == Spec /\ Fairness

--------------------------------------------------------------------------------
\* What a settled list, page or run shows is what is stored, however its polls,
\* its searches and the user's own changes were answered; a run never outlives
\* its dataset, and a followed run ends with every item.
PolledPagesAreTrue ==
    /\ page = "landing" =>
          /\ Landing!TypeOK
          /\ Landing!ListsAreTrue
          /\ Landing!RunsHaveDataset
    /\ page \in {"documents", "review"} =>
          /\ Dataset!TypeOK
          /\ Dataset!PageMatchesControls
          /\ Dataset!ReviewIsStored
    /\ page = "run" => Run!TypeOK /\ Run!FinalItems

\* A run that is launched fits its pipelines: without a warning it is served at
\* its depth, and what it measures means something; a dataset is generated under
\* the name the user typed, by a payload the server can use.
WizardsFit ==
    /\ page = "newrun" =>
          /\ NewRun!TypeOK
          /\ NewRun!InputsFit
          /\ NewRun!UnwarnedIsServed
          /\ NewRun!RunIsMeaningful
    /\ page = "generate" =>
          /\ Generate!TypeOK
          /\ Generate!NameIsTheirs
          /\ Generate!PayloadUsable

\* Every metric of a run is shown, the headline is the first card's, and blame
\* falls on a stage that lost the document; the graphs beside them show the
\* run's own ledger, joined where both pipelines meet the index.
ResultsAreTheRun ==
    /\ page = "results" =>
          /\ Results!TypeOK
          /\ Results!HeadlineIsFirstCard
          /\ Results!EveryMetricShown
          /\ Results!BlameIsReal
    /\ page = "graphs" =>
          /\ RunGraphs!TypeOK
          /\ RunGraphs!LedgerIsTheRun
          /\ RunGraphs!MeetAtTheIndex
          /\ RunGraphs!DroppedStaysDropped
          /\ RunGraphs!RanksConnect
          /\ RunGraphs!UnrecordedIsNotAbsent

\* The chunk in focus is one that was asked for, the evidence is that chunk's,
\* and the selection is a node of the graph on screen.
EvidenceIsFocused ==
    page = "trace" =>
        /\ Debugger!TypeOK
        /\ Debugger!FocusIsAsked
        /\ Debugger!EvidenceOfFocus
        /\ Debugger!SelectionIsANode

\* The waves are the levels of the graph, and playback that says it is over
\* shows its last wave, has crossed every edge and plays no more.
PlaybackIsWhole ==
    page = "playback" =>
        /\ Playback!TypeOK
        /\ Playback!WavesAreLevels
        /\ Playback!CompletedIsWhole

\* A wave is not highlighted while the edges into it are still in flight: a
\* comet that outlasts its hop is never one the next wave waits for.
NextWaveArrived == [][page = "playback" => Playback!NextWaveArrivedStep]_vars

\* A user who signed out stays so, a page is shown only with a token, and one
\* who has just completed the set-up is not sent back to it.
SessionHolds ==
    page = "session" =>
        /\ Session!TypeOK
        /\ Session!SignedOutStays
        /\ Session!PageHasToken
        /\ Session!NoBounce

\* The session being refreshed never takes away a page the user works on: what
\* the gate knew stays known while it asks again.
PageStays == [][page = "session" => Session!PageStaysStep]_vars

\* A catalog never shows what it held before an answer that is newer, nor
\* another user's after a sign-out; a spinner stands for a request, and only a
\* watched catalog is polled.
CatalogsAreTrue ==
    page = "catalogs" =>
        /\ Catalogs!TypeOK
        /\ Catalogs!NoStaleCatalog
        /\ Catalogs!ForgottenAtSignOut
        /\ Catalogs!SpinnerHasRequest
        /\ Catalogs!PollsOnlyWatched

\* Only the session on screen is said to load; what is pending, optimistic or
\* can be stopped belongs to a turn that is still running.
TurnsAreTheirs ==
    page = "turns" =>
        /\ Turns!TypeOK
        /\ Turns!OnlySelectedLoads
        /\ Turns!PendingHasTurn
        /\ Turns!OptimisticHasTurn
        /\ Turns!StopReachesTurn

\* Left alone, what plays completes, whatever was clicked before, and no comet
\* stays lit for ever.
PlaysEnd ==
    page = "playback" => Playback!PlayEnds /\ Playback!CometsLand

\* Unless the page is reloaded for ever, the workspace spinner gives way to a
\* page or to the sign-in form, whatever answers the requests get.
SpinnerGivesWay ==
    page = "session" => Session!SpinnerGivesWay

\* What the user waits for comes: a dataset shown as downloading or generating
\* does not stay so, the page of a run notices its end, a watched catalog's
\* spinner ends unless its watchers leave, and sending a message ends.
WaitsEnd ==
    /\ page = "landing" => Landing!OutcomeIsShown
    /\ page = "run" => Run!EndIsNoticed
    /\ page = "catalogs" => Catalogs!LoadingEnds
    /\ page = "turns" => Turns!SendingEnds

--------------------------------------------------------------------------------
(* The page of a run *)

\* What the steps of a query make of one.
LEMMA RunQuerySteps ==
    ASSUME NEW q, Run!IsQuery(q), NEW v
    PROVE  /\ Run!IsQuery(Run!Ask(q)) /\ Run!IsQuery(Run!Serve(q, v))
           /\ Run!IsQuery(Run!Land(q)) /\ Run!IsQuery(Run!Fault(q))
           /\ Run!Ask(q).data = q.data /\ ~Run!Ask(q).served /\ ~Run!Settled(Run!Ask(q))
           /\ Run!Serve(q, v).data = q.data /\ Run!Serve(q, v).answer = v
           /\ Run!Settled(Run!Serve(q, v)) <=> Run!Settled(q)
           /\ Run!Land(q).data = q.answer /\ ~Run!Land(q).served
           /\ Run!Fault(q).data = q.data /\ ~Run!Fault(q).served /\ ~Run!Settled(Run!Fault(q))
BY DEF Run!IsQuery, Run!Ask, Run!Serve, Run!Land, Run!Fault, Run!Settled

\* The invariant in parts: the run, and its items.
RunFacts ==
    /\ status \in Run!Statuses /\ written \in 0 .. Evaluated
    /\ run.data \in Run!Statuses \cup {None}
    /\ run.served => run.answer \in Run!Statuses /\ (run.answer \in Run!Over => status = run.answer)
    /\ run.data \in Run!Over => status = run.data
    /\ status = "completed" => written = Evaluated
    /\ Run!IsQuery(run) /\ wasActive = Run!active /\ (seen => run.data # None)
ItemFacts ==
    /\ Run!IsQuery(items)
    /\ items.data \in 0 .. Evaluated \cup {None} /\ (items.data # None => items.data <= written)
    /\ items.served => items.answer \in 0 .. written
    /\ seen /\ run.data = "completed" =>
          /\ items.served => items.answer = Evaluated
          /\ Run!Settled(items) => items.data = Evaluated

LEMMA RunParts == Run!RunInv <=> RunFacts /\ ItemFacts
BY DEF Run!RunInv, Run!TypeOK, RunFacts, ItemFacts

LEMMA RunPartsNext == RunFacts' /\ ItemFacts' => Run!RunInv'
<1>1. Run!Statuses' = Run!Statuses /\ Run!Over' = Run!Over
  BY DEF Run!Statuses, Run!Over
<1>2. QED
  BY <1>1 DEF Run!RunInv, Run!TypeOK, RunFacts, ItemFacts, Run!IsQuery, Run!Settled, Run!active, Run!isRunActive

\* The server writes items, ends the run or cancels it, and answers.
LEMMA RunServerSteps ==
    ASSUME RunFacts, ItemFacts, Run!WriteItem \/ Run!Finish
    PROVE  RunFacts' /\ ItemFacts'
<1>1. /\ UNCHANGED <<run, items, wasActive, seen>>
      /\ written' \in written .. Evaluated
      /\ status' \in Run!Statuses /\ (status' = status \/ status = "active")
      /\ status' = "completed" => written' = Evaluated
  BY PagesAssumption DEF RunFacts, Run!WriteItem, Run!Finish, Run!page, Run!Statuses
<1>2. written \in Nat /\ written' \in Nat /\ Evaluated \in Nat /\ written <= written' /\ written' <= Evaluated
  BY <1>1, PagesAssumption DEF RunFacts
<1>3. RunFacts'
  BY <1>1, <1>2 DEF RunFacts, Run!Over, Run!active, Run!isRunActive, Run!IsQuery, Run!Statuses
<1>4. ItemFacts'
  BY <1>1, <1>2, PagesAssumption DEF ItemFacts, Run!Settled, Run!IsQuery
<1>5. QED
  BY <1>3, <1>4

\* The run is read.
LEMMA RunReadSteps ==
    ASSUME RunFacts, ItemFacts, Run!RunTick \/ Run!ServeRun \/ Run!LoseRun
    PROVE  RunFacts' /\ ItemFacts'
<1>1. /\ UNCHANGED <<status, written, items, wasActive, seen>>
      /\ run' \in {Run!Ask(run), Run!Serve(run, status), Run!Fault(run)}
  BY DEF Run!RunTick, Run!ServeRun, Run!LoseRun, Run!server
<1>2. /\ Run!IsQuery(run') /\ run'.data = run.data
      /\ run'.served => run'.answer = status
  BY <1>1, RunQuerySteps DEF RunFacts
<1>3. RunFacts'
  BY <1>1, <1>2 DEF RunFacts, Run!active, Run!isRunActive, Run!Statuses, Run!Over, Run!IsQuery
<1>4. ItemFacts'
  BY <1>1, <1>2 DEF ItemFacts, Run!Settled, Run!IsQuery
<1>5. QED
  BY <1>3, <1>4

\* The items are read.
LEMMA ItemReadSteps ==
    ASSUME RunFacts, ItemFacts, Run!ItemsTick \/ Run!ServeItems \/ Run!LandItems \/ Run!LoseItems
    PROVE  RunFacts' /\ ItemFacts'
<1>1. /\ UNCHANGED <<status, written, run, wasActive, seen>>
      /\ \/ items' \in {Run!Ask(items), Run!Serve(items, written), Run!Fault(items)}
         \/ items.served /\ items' = Run!Land(items)
  BY DEF Run!ItemsTick, Run!ServeItems, Run!LandItems, Run!LoseItems, Run!server
<1>2. RunFacts'
  BY <1>1 DEF RunFacts, Run!active, Run!isRunActive, Run!Statuses, Run!Over, Run!IsQuery
<1>3. written \in Nat /\ Evaluated \in Nat /\ written <= Evaluated /\ Run!IsQuery(items)
  BY PagesAssumption DEF RunFacts, ItemFacts
<1>4. seen /\ run.data = "completed" => written = Evaluated
  BY DEF RunFacts, Run!Over, Run!Statuses
<1>5. CASE items' \in {Run!Ask(items), Run!Fault(items)}
  <2>1. Run!IsQuery(items') /\ items'.data = items.data /\ ~items'.served /\ ~Run!Settled(items')
    BY <1>3, <1>5, RunQuerySteps
  <2>2. QED
    BY <1>1, <1>2, <1>3, <2>1 DEF ItemFacts, Run!IsQuery, Run!Settled
<1>6. CASE items' = Run!Serve(items, written)
  <2>1. /\ Run!IsQuery(items') /\ items'.data = items.data /\ items'.answer = written
        /\ Run!Settled(items') <=> Run!Settled(items)
    BY <1>3, <1>6, RunQuerySteps
  <2>2. QED
    BY <1>1, <1>2, <1>3, <1>4, <2>1 DEF ItemFacts, Run!IsQuery, Run!Settled
<1>7. CASE items.served /\ items' = Run!Land(items)
  <2>1. Run!IsQuery(items') /\ items'.data = items.answer /\ ~items'.served
    BY <1>3, <1>7, RunQuerySteps
  <2>2. QED
    BY <1>1, <1>2, <1>3, <1>7, <2>1 DEF ItemFacts, Run!IsQuery, Run!Settled
<1>8. QED
  BY <1>1, <1>5, <1>6, <1>7

\* The page learns what became of the run: once it is over, the items are asked
\* for again if it has been seen active.
LEMMA LandRunStep ==
    ASSUME RunFacts, ItemFacts, Run!LandRun
    PROVE  RunFacts' /\ ItemFacts'
<1>1. /\ run.served /\ run' = Run!Land(run) /\ UNCHANGED <<status, written>>
      /\ wasActive' = (run.answer = "active") /\ seen' = (seen \/ run.answer = "active")
      /\ items' = IF wasActive /\ run.answer # "active" THEN Run!Ask(items) ELSE items
  BY DEF Run!LandRun, Run!LeaveActive, Run!isRunActive, Run!server
<1>2. Run!IsQuery(run') /\ run'.data = run.answer /\ ~run'.served
  BY <1>1, RunQuerySteps DEF RunFacts
<1>3. RunFacts'
  BY <1>1, <1>2, ReadAssumption DEF RunFacts, Run!active, Run!isRunActive, Run!Statuses, Run!Over, Run!IsQuery
<1>4. /\ Run!IsQuery(items') /\ items'.data = items.data
      /\ items' = items \/ (~items'.served /\ ~Run!Settled(items'))
  BY <1>1, RunQuerySteps DEF ItemFacts
<1>5. \/ ~(seen' /\ run'.data = "completed" /\ items' = items)
      \/ ~items'.served /\ ~Run!Settled(items')
      \/ seen /\ run.data = "completed"
  <2> SUFFICES ASSUME seen', run'.data = "completed", items' = items,
                      items'.served \/ Run!Settled(items')
               PROVE  seen /\ run.data = "completed"
    OBVIOUS
  <2>1. run.answer = "completed" /\ status = "completed" /\ seen
    BY <1>1, <1>2 DEF RunFacts, Run!Over, Run!Statuses
  <2>2. ~wasActive
    BY <1>1, <2>1, RunQuerySteps DEF ItemFacts
  <2>3. QED
    BY <2>1, <2>2 DEF RunFacts, Run!active, Run!isRunActive, Run!Over, Run!Statuses
<1>6. ItemFacts'
  BY <1>1, <1>2, <1>4, <1>5 DEF ItemFacts, Run!IsQuery, Run!Settled
<1>7. QED
  BY <1>3, <1>6

\* A cancellation is asked for and answered.
LEMMA CancelSteps ==
    ASSUME RunFacts, ItemFacts, Run!Cancel \/ Run!CancelAnswers
    PROVE  RunFacts' /\ ItemFacts'
<1>1. /\ UNCHANGED <<written, items, wasActive, seen>>
      /\ \/ UNCHANGED <<status, run>>
         \/ status = "active" /\ status' = "cancelled" /\ run' = Run!Ask(run)
  BY DEF Run!Cancel, Run!CancelAnswers, Run!isRunActive, Run!server
<1>2. Run!IsQuery(run') /\ run'.data = run.data /\ (run' = run \/ ~run'.served)
  BY <1>1, RunQuerySteps DEF RunFacts
<1>3. RunFacts'
  BY <1>1, <1>2 DEF RunFacts, Run!active, Run!isRunActive, Run!Statuses, Run!Over, Run!IsQuery
<1>4. ItemFacts'
  BY <1>1, <1>2 DEF ItemFacts, Run!IsQuery, Run!Settled
<1>5. QED
  BY <1>3, <1>4

LEMMA RunStep == Run!RunInv /\ [Run!Next]_(Run!vars) => Run!RunInv'
<1> SUFFICES ASSUME RunFacts, ItemFacts, [Run!Next]_(Run!vars)
             PROVE  RunFacts' /\ ItemFacts'
  BY RunParts, RunPartsNext
<1>1. CASE UNCHANGED Run!vars
  BY <1>1 DEF Run!vars, RunFacts, ItemFacts, Run!IsQuery, Run!Settled, Run!active, Run!isRunActive,
     Run!Statuses, Run!Over
<1>2. QED
  BY <1>1, RunServerSteps, RunReadSteps, ItemReadSteps, LandRunStep, CancelSteps DEF Run!Next

LEMMA RunStart == Run!Init => Run!RunInv
<1> SUFFICES ASSUME Run!Init PROVE RunFacts /\ ItemFacts
  BY RunParts
<1>1. Run!IsQuery(Run!NewQuery) /\ Run!NewQuery.data = None
  BY DEF Run!NewQuery, Run!IsQuery
<1>2. /\ Run!IsQuery(Run!Ask(Run!NewQuery)) /\ Run!Ask(Run!NewQuery).data = None
      /\ ~Run!Ask(Run!NewQuery).served /\ ~Run!Settled(Run!Ask(Run!NewQuery))
  BY <1>1, RunQuerySteps
<1>3. run = Run!Ask(Run!NewQuery) /\ items = Run!Ask(Run!NewQuery)
  BY DEF Run!Init
<1>4. /\ status = "active" /\ written = 0 /\ wasActive = FALSE /\ seen = FALSE
      /\ None \notin Run!Statuses /\ Evaluated \in Nat
  BY ReadAssumption, PagesAssumption DEF Run!Init
<1>5. run.data # "active" /\ run.data \notin Run!Over
  BY <1>2, <1>3, <1>4 DEF Run!Statuses, Run!Over
<1>6. wasActive = Run!active
  <2>1. Run!active = FALSE
    BY <1>5 DEF Run!active, Run!isRunActive
  <2>2. QED
    BY <1>4, <2>1, Zenon
<1>7. RunFacts
  BY <1>2, <1>3, <1>4, <1>5, <1>6 DEF RunFacts, Run!Statuses
<1>8. ItemFacts
  BY <1>2, <1>3, <1>4 DEF ItemFacts
<1>9. QED
  BY <1>7, <1>8

LEMMA RunMeans == Run!RunInv => Run!TypeOK /\ Run!FinalItems
BY DEF Run!RunInv, Run!FinalItems

--------------------------------------------------------------------------------
(* The landing page of evaluations *)

\* What the steps of a query make of one.
LEMMA ListQuerySteps ==
    ASSUME NEW q, Landing!IsQuery(q), NEW v
    PROVE  /\ Landing!IsQuery(Landing!Ask(q)) /\ Landing!IsQuery(Landing!Serve(q, v))
           /\ Landing!IsQuery(Landing!Land(q)) /\ Landing!IsQuery(Landing!Fault(q))
           /\ ~Landing!Ask(q).served /\ ~Landing!Settled(Landing!Ask(q))
           /\ Landing!Serve(q, v).answer = v /\ Landing!Serve(q, v).data = q.data
           /\ Landing!Settled(Landing!Serve(q, v)) <=> Landing!Settled(q)
           /\ Landing!Land(q).data = q.answer /\ ~Landing!Land(q).served
           /\ ~Landing!Fault(q).served /\ ~Landing!Settled(Landing!Fault(q))
BY DEF Landing!IsQuery, Landing!Ask, Landing!Serve, Landing!Land, Landing!Fault, Landing!Settled

\* The invariant in parts: what is stored, and each of the two lists.
StoredFacts ==
    /\ stored \in [Slots -> Landing!DatasetStates] /\ task \in [Runs -> Landing!RunStates]
    /\ actions \subseteq Slots \cup Runs \cup {"upload", "generate"} /\ busyKey \in BOOLEAN
    /\ Landing!RunsHaveDataset
DatasetsFacts ==
    /\ Landing!IsQuery(datasets)
    /\ datasets.served => datasets.answer \in [Slots -> Landing!DatasetStates] /\ Landing!SameRows(datasets.answer)
    /\ Landing!Settled(datasets) => /\ datasets.data \in [Slots -> Landing!DatasetStates]
                                   /\ Landing!SameRows(datasets.data)
RunsFacts ==
    /\ Landing!IsQuery(runs)
    /\ runs.served => runs.answer \in [Runs -> Landing!RunStates] /\ Landing!SameRuns(runs.answer)
    /\ Landing!Settled(runs) => runs.data \in [Runs -> Landing!RunStates] /\ Landing!SameRuns(runs.data)

LEMMA ListsParts == Landing!ListsInv <=> StoredFacts /\ DatasetsFacts /\ RunsFacts
BY DEF Landing!ListsInv, Landing!TypeOK, StoredFacts, DatasetsFacts, RunsFacts

LEMMA ListsPartsNext == StoredFacts' /\ DatasetsFacts' /\ RunsFacts' => Landing!ListsInv'
BY DEF Landing!ListsInv, Landing!TypeOK, StoredFacts, DatasetsFacts, RunsFacts, Landing!IsQuery,
   Landing!Settled, Landing!SameRows, Landing!SameRuns, Landing!RunsHaveDataset, Landing!DatasetStates,
   Landing!RunStates, Landing!NoRow, Landing!Busy

\* A list that is asked for again, or read as it was while its rows stay, is
\* what is stored.
LEMMA DatasetsFollow ==
    ASSUME DatasetsFacts,
           \/ datasets' \in {Landing!Ask(datasets), Landing!Fault(datasets)}
           \/ datasets' = datasets /\ \A s \in Slots : stored'[s] \in Landing!NoRow <=> stored[s] \in Landing!NoRow
    PROVE  DatasetsFacts'
<1>1. CASE datasets' \in {Landing!Ask(datasets), Landing!Fault(datasets)}
  <2>1. Landing!IsQuery(datasets)
    BY DEF DatasetsFacts
  <2>2. Landing!IsQuery(datasets') /\ ~datasets'.served /\ ~Landing!Settled(datasets')
    BY <1>1, <2>1, ListQuerySteps
  <2>3. QED
    BY <2>2 DEF DatasetsFacts, Landing!IsQuery, Landing!Settled
<1>2. CASE datasets' = datasets /\ \A s \in Slots : stored'[s] \in Landing!NoRow <=> stored[s] \in Landing!NoRow
  BY <1>2 DEF DatasetsFacts, Landing!IsQuery, Landing!Settled, Landing!SameRows, Landing!DatasetStates,
     Landing!NoRow, Landing!Busy
<1>3. QED
  BY <1>1, <1>2

LEMMA RunsFollow ==
    ASSUME RunsFacts,
           \/ runs' \in {Landing!Ask(runs), Landing!Fault(runs)}
           \/ runs' = runs /\ \A r \in Runs : task'[r] = "absent" <=> task[r] = "absent"
    PROVE  RunsFacts'
<1>1. CASE runs' \in {Landing!Ask(runs), Landing!Fault(runs)}
  <2>1. Landing!IsQuery(runs)
    BY DEF RunsFacts
  <2>2. Landing!IsQuery(runs') /\ ~runs'.served /\ ~Landing!Settled(runs')
    BY <1>1, <2>1, ListQuerySteps
  <2>3. QED
    BY <2>2 DEF RunsFacts, Landing!IsQuery, Landing!Settled
<1>2. CASE runs' = runs /\ \A r \in Runs : task'[r] = "absent" <=> task[r] = "absent"
  BY <1>2 DEF RunsFacts, Landing!IsQuery, Landing!Settled, Landing!SameRuns, Landing!RunStates
<1>3. QED
  BY <1>1, <1>2

\* The tasks of the server change the state of a row, and of no other list.
LEMMA ListTaskSteps ==
    ASSUME StoredFacts, DatasetsFacts, RunsFacts,
           \/ \E s \in Slots : Landing!DatasetFinishes(s)
           \/ \E r \in Runs : Landing!RunFinishes(r)
    PROVE  StoredFacts' /\ DatasetsFacts' /\ RunsFacts'
<1>1. /\ UNCHANGED <<datasets, runs, actions, busyKey>>
      /\ stored' \in [Slots -> Landing!DatasetStates] /\ task' \in [Runs -> Landing!RunStates]
      /\ \A s \in Slots : stored'[s] \in Landing!NoRow <=> stored[s] \in Landing!NoRow
      /\ \A r \in Runs : task'[r] = "absent" <=> task[r] = "absent"
  <2>1. ASSUME NEW s \in Slots, Landing!DatasetFinishes(s) PROVE <1>1
    BY <2>1 DEF StoredFacts, Landing!DatasetFinishes, Landing!page, Landing!DatasetStates, Landing!NoRow,
       Landing!Busy
  <2>2. ASSUME NEW r \in Runs, Landing!RunFinishes(r) PROVE <1>1
    BY <2>2 DEF StoredFacts, Landing!RunFinishes, Landing!page, Landing!RunStates
  <2>3. QED
    BY <2>1, <2>2
<1>2. StoredFacts'
  BY <1>1, PagesAssumption DEF StoredFacts, Landing!RunsHaveDataset, Landing!DatasetStates, Landing!RunStates,
     Landing!NoRow, Landing!Busy
<1>3. QED
  BY <1>1, <1>2, DatasetsFollow, RunsFollow

\* The lists are served what is stored, and land.
LEMMA ListAnswerSteps ==
    ASSUME StoredFacts, DatasetsFacts, RunsFacts,
           \/ Landing!ServeDatasets \/ Landing!ServeRuns \/ Landing!LandDatasets \/ Landing!LandRuns
    PROVE  StoredFacts' /\ DatasetsFacts' /\ RunsFacts'
<1>1. /\ UNCHANGED <<stored, task, actions, busyKey>>
      /\ \/ datasets' = datasets
         \/ datasets' = Landing!Serve(datasets, stored)
         \/ datasets.served /\ datasets' = Landing!Land(datasets)
      /\ \/ runs' = runs
         \/ runs' = Landing!Serve(runs, task)
         \/ runs.served /\ runs' = Landing!Land(runs)
  BY DEF Landing!ServeDatasets, Landing!ServeRuns, Landing!LandDatasets, Landing!LandRuns, Landing!page
<1>2. StoredFacts'
  BY <1>1 DEF StoredFacts, Landing!RunsHaveDataset, Landing!DatasetStates, Landing!RunStates, Landing!NoRow,
     Landing!Busy
<1>3. DatasetsFacts'
  <2>1. CASE datasets' = datasets
    BY <1>1, <2>1, DatasetsFollow
  <2>2. CASE datasets' = Landing!Serve(datasets, stored)
    <3>1. /\ Landing!IsQuery(datasets') /\ datasets'.answer = stored /\ datasets'.data = datasets.data
          /\ Landing!Settled(datasets') <=> Landing!Settled(datasets)
      BY <2>2, ListQuerySteps DEF DatasetsFacts
    <3>2. QED
      BY <1>1, <3>1 DEF DatasetsFacts, StoredFacts, Landing!IsQuery, Landing!Settled, Landing!SameRows,
         Landing!DatasetStates, Landing!NoRow, Landing!Busy
  <2>3. CASE datasets.served /\ datasets' = Landing!Land(datasets)
    <3>1. Landing!IsQuery(datasets') /\ datasets'.data = datasets.answer /\ ~datasets'.served
      BY <2>3, ListQuerySteps DEF DatasetsFacts
    <3>2. QED
      BY <1>1, <2>3, <3>1 DEF DatasetsFacts, Landing!IsQuery, Landing!Settled, Landing!SameRows,
         Landing!DatasetStates, Landing!NoRow, Landing!Busy
  <2>4. QED
    BY <1>1, <2>1, <2>2, <2>3
<1>4. RunsFacts'
  <2>1. CASE runs' = runs
    BY <1>1, <2>1, RunsFollow
  <2>2. CASE runs' = Landing!Serve(runs, task)
    <3>1. /\ Landing!IsQuery(runs') /\ runs'.answer = task /\ runs'.data = runs.data
          /\ Landing!Settled(runs') <=> Landing!Settled(runs)
      BY <2>2, ListQuerySteps DEF RunsFacts
    <3>2. QED
      BY <1>1, <3>1 DEF RunsFacts, StoredFacts, Landing!IsQuery, Landing!Settled, Landing!SameRuns,
         Landing!RunStates
  <2>3. CASE runs.served /\ runs' = Landing!Land(runs)
    <3>1. Landing!IsQuery(runs') /\ runs'.data = runs.answer /\ ~runs'.served
      BY <2>3, ListQuerySteps DEF RunsFacts
    <3>2. QED
      BY <1>1, <2>3, <3>1 DEF RunsFacts, Landing!IsQuery, Landing!Settled, Landing!SameRuns, Landing!RunStates
  <2>4. QED
    BY <1>1, <2>1, <2>2, <2>3
<1>5. QED
  BY <1>2, <1>3, <1>4

\* The page polls, loses an answer, and opens, closes and confirms dialogs.
LEMMA ListPageSteps ==
    ASSUME StoredFacts, DatasetsFacts, RunsFacts,
           \/ Landing!Lose \/ Landing!Poll \/ Landing!CloseDialog \/ Landing!Import \/ Landing!Confirm
           \/ \E d \in {"import", "upload"} \cup Slots \cup Runs : Landing!OpenDialog(d)
           \/ \E k \in {"upload", "generate"} : Landing!Add(k)
    PROVE  StoredFacts' /\ DatasetsFacts' /\ RunsFacts'
<1>1. /\ UNCHANGED <<stored, task>>
      /\ actions' \subseteq Slots \cup Runs \cup {"upload", "generate"} /\ busyKey' \in BOOLEAN
      /\ datasets' \in {datasets, Landing!Ask(datasets), Landing!Fault(datasets)}
      /\ runs' \in {runs, Landing!Ask(runs), Landing!Fault(runs)}
  BY DEF StoredFacts, Landing!Lose, Landing!Poll, Landing!CloseDialog, Landing!Import, Landing!Confirm,
     Landing!OpenDialog, Landing!Add, Landing!page
<1>2. StoredFacts'
  BY <1>1 DEF StoredFacts, Landing!RunsHaveDataset, Landing!DatasetStates, Landing!RunStates, Landing!NoRow,
     Landing!Busy
<1>3. QED
  BY <1>1, <1>2, DatasetsFollow, RunsFollow

\* A dataset is added or removed: the list is asked for again, and the benchmark
\* is only removed when no run is left of it.
LEMMA ListChangeSteps ==
    ASSUME StoredFacts, DatasetsFacts, RunsFacts,
           \/ Landing!ImportAnswers
           \/ \E k \in {"upload", "generate"} : Landing!AddAnswers(k)
           \/ \E s \in Slots : Landing!RemoveDataset(s)
    PROVE  StoredFacts' /\ DatasetsFacts' /\ RunsFacts'
<1> DEFINE Changed(s, v) ==
        /\ stored' = [stored EXCEPT ![s] = v] /\ v \in Landing!DatasetStates
        /\ datasets' = Landing!Ask(datasets)
        /\ v \in Landing!NoRow /\ s = Benchmark => \A r \in Runs : task[r] = "absent"
<1>1. /\ UNCHANGED <<task, runs>>
      /\ actions' \subseteq actions /\ busyKey' \in BOOLEAN
      /\ \/ UNCHANGED <<stored, datasets>>
         \/ datasets' = Landing!Ask(datasets) /\ UNCHANGED stored
         \/ \E s \in Slots, v \in Landing!DatasetStates : Changed(s, v)
  <2>1. CASE Landing!ImportAnswers
    BY <2>1 DEF StoredFacts, Landing!ImportAnswers,
       Landing!DatasetStates, Landing!NoRow, Landing!Busy
  <2>2. ASSUME NEW k \in {"upload", "generate"}, Landing!AddAnswers(k) PROVE <1>1
    BY <2>2 DEF StoredFacts, Landing!AddAnswers, Landing!DatasetStates, Landing!NoRow, Landing!Busy
  <2>3. ASSUME NEW s \in Slots, Landing!RemoveDataset(s) PROVE <1>1
    BY <2>3 DEF StoredFacts, Landing!RemoveDataset, Landing!DatasetStates, Landing!NoRow, Landing!Busy
  <2>4. QED
    BY <2>1, <2>2, <2>3
<1>2. RunsFacts'
  BY <1>1, RunsFollow
<1>3. DatasetsFacts'
  BY <1>1, DatasetsFollow
<1>4. stored' \in [Slots -> Landing!DatasetStates]
  BY <1>1 DEF StoredFacts
<1>5. stored'[Benchmark] \in Landing!NoRow =>
          stored[Benchmark] \in Landing!NoRow \/ \A r \in Runs : task[r] = "absent"
  BY <1>1, PagesAssumption DEF StoredFacts
<1>6. StoredFacts'
  BY <1>1, <1>4, <1>5 DEF StoredFacts, Landing!RunsHaveDataset, Landing!DatasetStates, Landing!RunStates,
     Landing!NoRow, Landing!Busy
<1>7. QED
  BY <1>2, <1>3, <1>6

LEMMA RemoveRunStep ==
    ASSUME StoredFacts, DatasetsFacts, RunsFacts, NEW r \in Runs, Landing!RemoveRun(r)
    PROVE  StoredFacts' /\ DatasetsFacts' /\ RunsFacts'
<1>1. /\ UNCHANGED <<stored, datasets, busyKey>> /\ actions' \subseteq actions
      /\ \/ UNCHANGED <<task, runs>>
         \/ task' = [task EXCEPT ![r] = "absent"] /\ runs' = Landing!Ask(runs)
  BY DEF Landing!RemoveRun
<1>2. task' \in [Runs -> Landing!RunStates] /\ \A q \in Runs : task'[q] \in {task[q], "absent"}
  BY <1>1 DEF StoredFacts, Landing!RunStates
<1>3. StoredFacts'
  BY <1>1, <1>2 DEF StoredFacts, Landing!RunsHaveDataset, Landing!DatasetStates, Landing!RunStates,
     Landing!NoRow, Landing!Busy
<1>4. QED
  BY <1>1, <1>3, DatasetsFollow, RunsFollow

LEMMA ListsStep == Landing!ListsInv /\ [Landing!Next]_(Landing!vars) => Landing!ListsInv'
<1> SUFFICES ASSUME StoredFacts, DatasetsFacts, RunsFacts, [Landing!Next]_(Landing!vars)
             PROVE  StoredFacts' /\ DatasetsFacts' /\ RunsFacts'
  BY ListsParts, ListsPartsNext
<1>1. CASE UNCHANGED Landing!vars
  <2>1. UNCHANGED <<stored, task, datasets, runs, actions, busyKey>>
    BY <1>1 DEF Landing!vars
  <2>2. StoredFacts'
    BY <2>1 DEF StoredFacts, Landing!RunsHaveDataset, Landing!DatasetStates, Landing!RunStates, Landing!NoRow,
       Landing!Busy
  <2>3. QED
    BY <2>1, <2>2, DatasetsFollow, RunsFollow
<1>2. QED
  BY <1>1, ListTaskSteps, ListAnswerSteps, ListPageSteps, ListChangeSteps, RemoveRunStep DEF Landing!Next

LEMMA ListsStart == Landing!Init => Landing!ListsInv
<1> SUFFICES ASSUME Landing!Init PROVE StoredFacts /\ DatasetsFacts /\ RunsFacts
  BY ListsParts
<1>1. Landing!IsQuery(Landing!NewQuery)
  BY DEF Landing!NewQuery, Landing!IsQuery
<1>2. DatasetsFacts /\ RunsFacts
  BY <1>1, ListQuerySteps DEF Landing!Init, DatasetsFacts, RunsFacts
<1>3. StoredFacts
  BY PagesAssumption DEF Landing!Init, StoredFacts, Landing!RunsHaveDataset, Landing!DatasetStates,
     Landing!RunStates, Landing!NoRow, Landing!Busy
<1>4. QED
  BY <1>2, <1>3

LEMMA ListsMean ==
    Landing!ListsInv => Landing!TypeOK /\ Landing!ListsAreTrue /\ Landing!RunsHaveDataset
<1> SUFFICES ASSUME Landing!ListsInv PROVE Landing!ListsAreTrue
  BY DEF Landing!ListsInv
<1>1. ASSUME Landing!Settled(datasets) PROVE Landing!Listed = {s \in Slots : stored[s] \notin Landing!NoRow}
  <2>1. datasets.data \in [Slots -> Landing!DatasetStates] /\ Landing!SameRows(datasets.data)
    BY <1>1 DEF Landing!ListsInv
  <2>2. datasets.data # None
    BY <2>1, ReadAssumption
  <2>3. QED
    BY <2>1, <2>2 DEF Landing!Listed, Landing!SameRows
<1>2. ASSUME Landing!Settled(runs) PROVE Landing!ListedRuns = {r \in Runs : task[r] # "absent"}
  <2>1. runs.data \in [Runs -> Landing!RunStates] /\ Landing!SameRuns(runs.data)
    BY <1>2 DEF Landing!ListsInv
  <2>2. runs.data # None
    BY <2>1, ReadAssumption
  <2>3. QED
    BY <2>1, <2>2 DEF Landing!ListedRuns, Landing!SameRuns
<1>3. QED
  BY <1>1, <1>2 DEF Landing!ListsAreTrue

--------------------------------------------------------------------------------
(* The page of a dataset *)

\* What the steps of a query make of one.
LEMMA PageQuerySteps ==
    ASSUME NEW q, Dataset!IsQuery(q), NEW v
    PROVE  /\ Dataset!IsQuery(Dataset!Ask(q)) /\ Dataset!IsQuery(Dataset!Serve(q, v))
           /\ Dataset!IsQuery(Dataset!Land(q)) /\ Dataset!IsQuery(Dataset!Fault(q))
           /\ Dataset!Ask(q).data = q.data /\ ~Dataset!Ask(q).served /\ ~Dataset!Settled(Dataset!Ask(q))
           /\ Dataset!Serve(q, v).answer = v /\ Dataset!Serve(q, v).data = q.data
           /\ Dataset!Settled(Dataset!Serve(q, v)) <=> Dataset!Settled(q)
           /\ Dataset!Land(q).data = q.answer /\ ~Dataset!Land(q).served
           /\ Dataset!Fault(q).data = q.data /\ ~Dataset!Fault(q).served /\ ~Dataset!Settled(Dataset!Fault(q))
BY DEF Dataset!IsQuery, Dataset!Ask, Dataset!Serve, Dataset!Land, Dataset!Fault, Dataset!Settled

LEMMA NothingRead ==
    /\ Dataset!IsQuery(Dataset!NewQuery) /\ Dataset!NewQuery.data = None
    /\ ~Dataset!NewQuery.loading /\ ~Dataset!NewQuery.served
BY DEF Dataset!NewQuery, Dataset!IsQuery

CorporaOf == {Corpora[i] : i \in DOMAIN Corpora}

\* The invariant in parts: what is selected, searched and paged, and what was
\* read for it.
ControlFacts ==
    /\ arrived \in BOOLEAN /\ timer \in BOOLEAN /\ docOffset \in Nat
    /\ selectedId \in {None} \cup CorporaOf
    /\ arrived => selectedId # None
    /\ selectedId = None => search = Dataset!NoText /\ debounced = Dataset!NoText /\ docOffset = 0
    /\ ~timer => debounced = search
DocumentFacts ==
    /\ Dataset!IsQuery(documents)
    /\ selectedId = None => documents = Dataset!NewQuery
    /\ documents.served => documents.answer = Dataset!deps
    /\ Dataset!Settled(documents) /\ selectedId # None => documents.data = Dataset!deps

LEMMA DocumentsParts == Dataset!DocumentsInv <=> ControlFacts /\ DocumentFacts
BY DEF Dataset!DocumentsInv, ControlFacts, DocumentFacts, CorporaOf

LEMMA DocumentsPartsNext == ControlFacts' /\ DocumentFacts' => Dataset!DocumentsInv'
BY DEF Dataset!DocumentsInv, ControlFacts, DocumentFacts, CorporaOf, Dataset!IsQuery, Dataset!Settled,
   Dataset!deps, Dataset!NewQuery

\* Whatever changes what the documents are read for asks for them again.
LEMMA Refetched ==
    ASSUME DocumentFacts, Dataset!Refetch, selectedId' = None => Dataset!deps' = Dataset!deps,
           selectedId = None => selectedId' = None \/ Dataset!deps' # Dataset!deps
    PROVE  DocumentFacts'
<1>1. CASE Dataset!deps' = Dataset!deps
  <2>1. documents' = documents /\ selectedId' = selectedId
    BY <1>1 DEF Dataset!Refetch, Dataset!deps
  <2>2. QED
    BY <1>1, <2>1 DEF DocumentFacts, Dataset!IsQuery, Dataset!Settled, Dataset!NewQuery
<1>2. CASE Dataset!deps' # Dataset!deps
  <2>1. documents' = Dataset!Ask(documents) /\ selectedId' # None /\ Dataset!IsQuery(documents)
    BY <1>2 DEF Dataset!Refetch, DocumentFacts
  <2>2. Dataset!IsQuery(documents') /\ ~documents'.served /\ ~Dataset!Settled(documents')
    BY <2>1, PageQuerySteps
  <2>3. QED
    BY <2>1, <2>2 DEF DocumentFacts, Dataset!IsQuery, Dataset!Settled
<1>3. QED
  BY <1>1, <1>2

\* A corpus, a search and a page are chosen.
LEMMA ControlSteps ==
    ASSUME ControlFacts, DocumentFacts,
           \/ Dataset!CollectionsArrive \/ Dataset!Debounce
           \/ \E i \in DOMAIN Corpora : Dataset!selectCollection(Corpora[i])
           \/ \E d \in {"next", "back"} : Dataset!TurnPage(d)
    PROVE  ControlFacts' /\ DocumentFacts'
<1>1. None \notin CorporaOf
  BY ReadAssumption DEF CorporaOf
<1>2. Dataset!Refetch
  BY DEF Dataset!CollectionsArrive, Dataset!Debounce, Dataset!selectCollection, Dataset!TurnPage
<1>3. CASE Dataset!CollectionsArrive
  <2>1. Corpora[1] \in CorporaOf
    <3>1. Corpora \in Seq({Corpora[i] : i \in DOMAIN Corpora}) /\ Corpora # << >>
      BY <1>3, PagesAssumption DEF IsList, Dataset!CollectionsArrive
    <3>2. Len(Corpora) # 0 /\ Len(Corpora) \in Nat /\ DOMAIN Corpora = 1 .. Len(Corpora)
      BY <3>1, Dataset!EmptySeq, Dataset!LenProperties
    <3>3. QED
      BY <3>2 DEF CorporaOf
  <2>2. ControlFacts' /\ selectedId' # None /\ (selectedId = None => selectedId' # selectedId)
    BY <1>1, <1>3, <2>1 DEF ControlFacts, CorporaOf, Dataset!CollectionsArrive
  <2>3. QED
    BY <1>2, <2>2, Refetched DEF Dataset!deps
<1>4. ASSUME NEW i \in DOMAIN Corpora, Dataset!selectCollection(Corpora[i])
      PROVE  ControlFacts' /\ DocumentFacts'
  <2>1. Corpora[i] \in CorporaOf
    BY DEF CorporaOf
  <2>2. ControlFacts' /\ selectedId' # None /\ selectedId # None
    BY <1>1, <1>4, <2>1 DEF ControlFacts, CorporaOf, Dataset!selectCollection
  <2>3. QED
    BY <1>2, <2>2, Refetched
<1>5. CASE Dataset!Debounce
  <2>1. ControlFacts' /\ selectedId' = selectedId
    BY <1>5 DEF ControlFacts, CorporaOf, Dataset!Debounce
  <2>2. selectedId = None => Dataset!deps' = Dataset!deps
    BY <1>5, <2>1 DEF ControlFacts, Dataset!Debounce, Dataset!deps
  <2>3. QED
    BY <1>2, <2>1, <2>2, Refetched
<1>6. ASSUME NEW d \in {"next", "back"}, Dataset!TurnPage(d)
      PROVE  ControlFacts' /\ DocumentFacts'
  <2>1. Dataset!total > 1 /\ selectedId' = selectedId /\ UNCHANGED <<arrived, search, debounced, timer>>
    BY <1>6 DEF Dataset!TurnPage
  <2>2. documents.data # None
    <3>1. documents.data = None => Dataset!total = 0
      BY DEF Dataset!total
    <3>2. QED
      BY <2>1, <3>1
  <2>3. selectedId # None
    BY <2>2, NothingRead DEF DocumentFacts
  <2>4. docOffset' \in Nat
    <3>1. docOffset' = docOffset + 1 \/ (docOffset > 0 /\ docOffset' = docOffset - 1)
      BY <1>6 DEF Dataset!TurnPage
    <3>2. docOffset \in Nat
      BY DEF ControlFacts
    <3>3. QED
      BY <3>1, <3>2
  <2>5. ControlFacts'
    BY <2>1, <2>3, <2>4 DEF ControlFacts, CorporaOf
  <2>6. QED
    BY <1>2, <2>1, <2>3, <2>5, Refetched
<1>7. QED
  BY <1>3, <1>4, <1>5, <1>6

\* Typing only starts the pause; an answer only lands.
LEMMA TypingStep ==
    ASSUME ControlFacts, DocumentFacts, NEW s, Dataset!setSearch(s)
    PROVE  ControlFacts' /\ DocumentFacts'
<1>1. /\ selectedId # None /\ timer' = TRUE
      /\ UNCHANGED <<arrived, selectedId, debounced, docOffset, documents>>
  BY DEF Dataset!setSearch
<1>2. QED
  BY <1>1 DEF ControlFacts, DocumentFacts, CorporaOf, Dataset!deps, Dataset!IsQuery, Dataset!Settled

LEMMA DocumentsAnswerStep ==
    ASSUME ControlFacts, DocumentFacts, Dataset!DocumentsAnswer
    PROVE  ControlFacts' /\ DocumentFacts'
<1>1. /\ UNCHANGED <<arrived, selectedId, search, debounced, timer, docOffset>>
      /\ documents.loading /\ Dataset!IsQuery(documents)
      /\ \/ documents' = Dataset!Serve(documents, Dataset!deps)
         \/ documents.served /\ documents' = Dataset!Land(documents)
         \/ documents' = Dataset!Fault(documents)
  BY DEF Dataset!DocumentsAnswer, DocumentFacts
<1>2. ControlFacts' /\ Dataset!deps' = Dataset!deps /\ selectedId # None
  BY <1>1, NothingRead DEF ControlFacts, CorporaOf, DocumentFacts, Dataset!deps
<1>3. CASE documents' = Dataset!Serve(documents, Dataset!deps)
  <2>1. /\ Dataset!IsQuery(documents') /\ documents'.answer = Dataset!deps
        /\ documents'.data = documents.data /\ (Dataset!Settled(documents') <=> Dataset!Settled(documents))
    BY <1>1, <1>3, PageQuerySteps
  <2>2. QED
    BY <1>1, <1>2, <2>1 DEF DocumentFacts, Dataset!IsQuery, Dataset!Settled
<1>4. CASE documents.served /\ documents' = Dataset!Land(documents)
  <2>1. Dataset!IsQuery(documents') /\ documents'.data = documents.answer /\ ~documents'.served
    BY <1>1, <1>4, PageQuerySteps
  <2>2. QED
    BY <1>1, <1>2, <1>4, <2>1 DEF DocumentFacts, Dataset!IsQuery, Dataset!Settled
<1>5. CASE documents' = Dataset!Fault(documents)
  <2>1. Dataset!IsQuery(documents') /\ ~documents'.served /\ ~Dataset!Settled(documents')
    BY <1>1, <1>5, PageQuerySteps
  <2>2. QED
    BY <1>1, <1>2, <2>1 DEF DocumentFacts, Dataset!IsQuery, Dataset!Settled
<1>6. QED
  BY <1>1, <1>3, <1>4, <1>5

LEMMA DocumentsStep == Dataset!DocumentsInv /\ [Dataset!NextDocuments]_(Dataset!docs) => Dataset!DocumentsInv'
<1> SUFFICES ASSUME ControlFacts, DocumentFacts, [Dataset!NextDocuments]_(Dataset!docs)
             PROVE  ControlFacts' /\ DocumentFacts'
  BY DocumentsParts, DocumentsPartsNext
<1>1. CASE UNCHANGED Dataset!docs
  BY <1>1 DEF Dataset!docs, ControlFacts, DocumentFacts, CorporaOf, Dataset!deps, Dataset!IsQuery,
     Dataset!Settled, Dataset!NewQuery
<1>2. QED
  BY <1>1, ControlSteps, TypingStep, DocumentsAnswerStep DEF Dataset!NextDocuments

LEMMA DocumentsStart == Dataset!Init => Dataset!DocumentsInv
<1> SUFFICES ASSUME Dataset!Init PROVE ControlFacts /\ DocumentFacts
  BY DocumentsParts
<1>1. QED
  BY NothingRead DEF Dataset!Init, ControlFacts, DocumentFacts

\* The review of queries: the invariant in parts, what is listed and what the
\* user does to it.
ListFacts ==
    /\ DOMAIN datasetRows = {Questions[i] : i \in DOMAIN Questions}
    /\ Dataset!IsQuery(queries)
    /\ queries.served => queries.answer = Dataset!list_queries
    /\ Dataset!Settled(queries) => queries.data = Dataset!list_queries
    /\ queries.data # None => Dataset!Offered(queries.data)
CurationFacts ==
    /\ qOffset \in Nat /\ \E k \in 0 .. qOffset : qOffset = k * PageSize
    /\ editing # None => Dataset!IsItem(editing)
    /\ asking \in {None} \cup DOMAIN datasetRows
    /\ \A f \in datasetFlights : Dataset!IsRequest(f)

LEMMA ReviewParts == Dataset!ReviewInv => ListFacts /\ CurationFacts
BY DEF Dataset!ReviewInv, ListFacts, CurationFacts

LEMMA ReviewPartsNext == ListFacts' /\ CurationFacts' => Dataset!ReviewInv'
BY DEF Dataset!ReviewInv, ListFacts, CurationFacts, Dataset!IsQuery, Dataset!Settled, Dataset!Offered,
   Dataset!IsItem, Dataset!IsRequest, Dataset!list_queries, Dataset!Kept

\* What is listed are the dataset's own queries.
LEMMA ListedAreKept ==
    ASSUME ListFacts, qOffset \in Nat
    PROVE  Dataset!Offered(Dataset!list_queries)
<1> DEFINE gone == {q \in DOMAIN datasetRows : datasetRows[q] = "gone"}
           kept == Dataset!Without(Questions, gone)
           size == Dataset!Least(PageSize, IF Len(kept) > qOffset THEN Len(kept) - qOffset ELSE 0)
           list == Dataset!list_queries
<1>1. Questions \in Seq(DOMAIN datasetRows)
  BY PagesAssumption DEF ListFacts, IsList
<1> HIDE DEF gone
<1>2. kept \in Seq(DOMAIN datasetRows)
  BY <1>1, Dataset!WithoutKeeps
<1>3. Dataset!Kept = kept
  BY DEF Dataset!Kept, gone
<1> HIDE DEF kept
<1>4. Len(kept) \in Nat /\ \A i \in 1 .. Len(kept) : kept[i] \in DOMAIN datasetRows
  BY <1>2, Dataset!ElementOfSeq, Dataset!LenProperties
<1>5. size \in Nat /\ (Len(kept) <= qOffset => size = 0) /\ size <= PageSize
      /\ (Len(kept) > qOffset => size <= Len(kept) - qOffset)
  BY <1>4, PagesAssumption DEF Dataset!Least
<1>6. list.items = [i \in 1 .. size |-> [id |-> kept[qOffset + i], text |-> datasetRows[kept[qOffset + i]]]]
  BY <1>3 DEF Dataset!list_queries
<1> HIDE DEF size, list
<1>7. ASSUME NEW i \in 1 .. size PROVE Dataset!IsItem(list.items[i])
  <2>1. qOffset + i \in 1 .. Len(kept)
    BY <1>4, <1>5, <1>7
  <2>2. kept[qOffset + i] \in DOMAIN datasetRows
    BY <1>4, <2>1
  <2>3. list.items[i] = [id |-> kept[qOffset + i], text |-> datasetRows[kept[qOffset + i]]]
    BY <1>6, <1>7
  <2>4. QED
    BY <2>2, <2>3 DEF Dataset!IsItem
<1>8. QED
  BY <1>6, <1>7 DEF Dataset!Offered, list

\* An item the page shows is one of the dataset's queries.
LEMMA ShownAreOffered ==
    ASSUME ListFacts, NEW x \in Dataset!Items
    PROVE  Dataset!IsItem(x)
BY DEF ListFacts, Dataset!Items, Dataset!Offered

\* While neither the rows nor the page change, the list is the same.
LEMMA SameList ==
    ASSUME UNCHANGED <<datasetRows, qOffset>>
    PROVE  /\ Dataset!list_queries' = Dataset!list_queries
           /\ \A x : (Dataset!IsItem(x))' <=> Dataset!IsItem(x)
BY DEF Dataset!list_queries, Dataset!Kept, Dataset!IsItem

\* Asking for the list again, whatever became of its rows, or reading it as it is.
LEMMA ListAsked ==
    ASSUME ListFacts, queries' = Dataset!Ask(queries), DOMAIN datasetRows' = DOMAIN datasetRows
    PROVE  ListFacts'
<1>1. Dataset!IsQuery(queries)
  BY DEF ListFacts
<1>2. Dataset!IsQuery(queries') /\ queries'.data = queries.data /\ ~queries'.served /\ ~Dataset!Settled(queries')
  BY <1>1, PageQuerySteps
<1>3. QED
  BY <1>2 DEF ListFacts, Dataset!IsQuery, Dataset!Settled, Dataset!Offered, Dataset!IsItem

LEMMA ListSame ==
    ASSUME ListFacts, UNCHANGED <<datasetRows, qOffset, queries>>
    PROVE  ListFacts'
BY SameList DEF ListFacts, Dataset!IsQuery, Dataset!Settled, Dataset!Offered, Dataset!IsItem

LEMMA QueriesAnswerStep ==
    ASSUME ListFacts, CurationFacts, Dataset!QueriesAnswer
    PROVE  ListFacts' /\ CurationFacts'
<1>1. /\ UNCHANGED <<datasetRows, qOffset, editing, asking, datasetFlights>>
      /\ Dataset!IsQuery(queries)
      /\ \/ queries' = Dataset!Serve(queries, Dataset!list_queries)
         \/ queries.served /\ queries' = Dataset!Land(queries)
         \/ queries' = Dataset!Fault(queries)
  BY DEF Dataset!QueriesAnswer, ListFacts
<1>2. CurationFacts'
  BY <1>1 DEF CurationFacts, Dataset!IsItem, Dataset!IsRequest
<1>3. Dataset!list_queries' = Dataset!list_queries /\ Dataset!Offered(Dataset!list_queries)
  BY <1>1, SameList, ListedAreKept DEF CurationFacts
<1>4. \A l : (Dataset!Offered(l))' <=> Dataset!Offered(l)
  BY <1>1 DEF Dataset!Offered, Dataset!IsItem
<1>5. CASE queries' = Dataset!Serve(queries, Dataset!list_queries)
  <2>1. /\ Dataset!IsQuery(queries') /\ queries'.answer = Dataset!list_queries
        /\ queries'.data = queries.data /\ (Dataset!Settled(queries') <=> Dataset!Settled(queries))
    BY <1>1, <1>5, PageQuerySteps
  <2>2. queries'.data # None => Dataset!Offered(queries'.data)
    BY <2>1 DEF ListFacts
  <2>3. QED
    BY <1>1, <1>2, <1>3, <1>4, <2>1, <2>2 DEF ListFacts, Dataset!IsQuery, Dataset!Settled, Dataset!Offered,
       Dataset!IsItem
<1>6. CASE queries.served /\ queries' = Dataset!Land(queries)
  <2>1. Dataset!IsQuery(queries') /\ queries'.data = queries.answer /\ ~queries'.served
    BY <1>1, <1>6, PageQuerySteps
  <2>2. queries'.data = Dataset!list_queries
    BY <1>6, <2>1 DEF ListFacts
  <2>3. QED
    BY <1>1, <1>2, <1>3, <1>4, <2>1, <2>2 DEF ListFacts, Dataset!IsQuery, Dataset!Settled, Dataset!Offered,
       Dataset!IsItem
<1>7. CASE queries' = Dataset!Fault(queries)
  <2>1. Dataset!IsQuery(queries') /\ queries'.data = queries.data /\ ~queries'.served /\ ~Dataset!Settled(queries')
    BY <1>1, <1>7, PageQuerySteps
  <2>2. QED
    BY <1>1, <1>2, <1>4, <2>1 DEF ListFacts, Dataset!IsQuery, Dataset!Settled, Dataset!Offered, Dataset!IsItem
<1>8. QED
  BY <1>1, <1>5, <1>6, <1>7

\* Another page of the list: its offset stays a multiple of the page's size.
LEMMA TurnQueriesStep ==
    ASSUME ListFacts, CurationFacts, NEW d \in {"next", "back"}, Dataset!TurnQueries(d)
    PROVE  ListFacts' /\ CurationFacts'
<1>1. /\ UNCHANGED <<datasetRows, editing, asking, datasetFlights>>
      /\ queries' = Dataset!Ask(queries)
      /\ \/ qOffset' = qOffset + PageSize
         \/ qOffset > 0 /\ qOffset' = qOffset - PageSize
  BY DEF Dataset!TurnQueries
<1>2. PageSize \in Nat /\ PageSize > 0
  BY PagesAssumption
<1>3. PICK k \in 0 .. qOffset : qOffset = k * PageSize
  BY DEF CurationFacts
<1>4. qOffset \in Nat /\ k \in Nat
  BY <1>3 DEF CurationFacts
<1>5. qOffset' \in Nat /\ \E n \in 0 .. qOffset' : qOffset' = n * PageSize
  <2>1. CASE qOffset' = qOffset + PageSize
    <3>1. (k + 1) * PageSize = k * PageSize + PageSize
      BY <1>2, <1>4
    <3>2. k + 1 \in 0 .. qOffset' /\ qOffset' \in Nat
      BY <1>2, <1>3, <1>4, <2>1
    <3>3. QED
      BY <1>3, <2>1, <3>1, <3>2
  <2>2. CASE qOffset > 0 /\ qOffset' = qOffset - PageSize
    <3>1. k > 0
      BY <1>2, <1>3, <1>4, <2>2
    <3>2. (k - 1) * PageSize = k * PageSize - PageSize /\ k - 1 \in Nat
      BY <1>2, <1>4, <3>1
    <3>3. (k - 1) * PageSize >= k - 1
      BY <1>2, <3>2
    <3>4. qOffset' = (k - 1) * PageSize /\ qOffset' \in Nat
      BY <1>2, <1>3, <1>4, <2>2, <3>2, <3>3
    <3>5. k - 1 \in 0 .. qOffset'
      BY <3>2, <3>3, <3>4
    <3>6. QED
      BY <3>4, <3>5
  <2>3. QED
    BY <1>1, <2>1, <2>2
<1>6. CurationFacts'
  BY <1>1, <1>5 DEF CurationFacts, Dataset!IsItem, Dataset!IsRequest
<1>7. QED
  BY <1>1, <1>6, ListAsked

\* The user edits, asks for a deletion, and sends what was decided.
LEMMA CurateSteps ==
    ASSUME ListFacts, CurationFacts,
           Dataset!Edit \/ Dataset!save \/ Dataset!AskDelete \/ Dataset!removeQuery
    PROVE  ListFacts' /\ CurationFacts'
<1>1. /\ UNCHANGED <<datasetRows, qOffset, queries>>
      /\ \A x \in Dataset!Items : Dataset!IsItem(x)
  BY ShownAreOffered DEF Dataset!Edit, Dataset!save, Dataset!AskDelete, Dataset!removeQuery
<1>2. ListFacts'
  BY <1>1, ListSame
<1>3. ASSUME NEW op \in {"save", "delete"}, NEW id \in DOMAIN datasetRows, NEW text,
             op = "save" => text # Dataset!NoText, Dataset!Send(op, id, text)
      PROVE  \A f \in datasetFlights' : Dataset!IsRequest(f)
  <2> DEFINE sent == [op |-> op, id |-> id, text |-> text, checked |-> FALSE]
  <2>1. Dataset!IsRequest(sent)
    BY <1>3 DEF Dataset!IsRequest
  <2>2. datasetFlights' = datasetFlights \cup {sent}
    BY <1>3 DEF Dataset!Send
  <2>3. QED
    BY <2>1, <2>2 DEF CurationFacts
<1>4. CASE Dataset!Edit
  <2>1. UNCHANGED <<asking, datasetFlights>> /\ (editing' # None => Dataset!IsItem(editing'))
    <3>1. ASSUME editing # None, NEW t \in {"new", Dataset!NoText}, editing' = [editing EXCEPT !.text = t]
          PROVE  Dataset!IsItem(editing')
      BY <3>1 DEF CurationFacts, Dataset!IsItem
    <3>2. QED
      BY <1>1, <1>4, <3>1 DEF Dataset!Edit
  <2>2. QED
    BY <1>1, <1>2, <2>1 DEF CurationFacts, Dataset!IsItem, Dataset!IsRequest
<1>5. CASE Dataset!save
  <2>1. \A f \in datasetFlights' : Dataset!IsRequest(f)
    BY <1>3, <1>5 DEF CurationFacts, Dataset!save, Dataset!IsItem
  <2>2. UNCHANGED <<editing, asking>>
    BY <1>5 DEF Dataset!save
  <2>3. QED
    BY <1>1, <1>2, <2>1, <2>2 DEF CurationFacts, Dataset!IsItem, Dataset!IsRequest
<1>6. CASE Dataset!AskDelete
  <2>1. UNCHANGED <<editing, datasetFlights>> /\ asking' \in {None} \cup DOMAIN datasetRows
    BY <1>1, <1>6 DEF Dataset!AskDelete, Dataset!IsItem
  <2>2. QED
    BY <1>1, <1>2, <2>1 DEF CurationFacts, Dataset!IsItem, Dataset!IsRequest
<1>7. CASE Dataset!removeQuery
  <2>1. \A f \in datasetFlights' : Dataset!IsRequest(f)
    BY <1>3, <1>7 DEF CurationFacts, Dataset!removeQuery
  <2>2. UNCHANGED <<editing, asking>>
    BY <1>7 DEF Dataset!removeQuery
  <2>3. QED
    BY <1>1, <1>2, <2>1, <2>2 DEF CurationFacts, Dataset!IsItem, Dataset!IsRequest
<1>8. QED
  BY <1>4, <1>5, <1>6, <1>7

\* The server answers: whatever changes a row has the list read again.
LEMMA CurationAnswers ==
    ASSUME ListFacts, CurationFacts, NEW f \in datasetFlights,
           Dataset!update_query_text(f) \/ Dataset!count_queries(f) \/ Dataset!delete_query(f)
    PROVE  ListFacts' /\ CurationFacts'
<1>1. Dataset!IsRequest(f)
  BY DEF CurationFacts
<1>2. DOMAIN datasetRows' = DOMAIN datasetRows
  BY DEF Dataset!update_query_text, Dataset!count_queries, Dataset!delete_query
<1>3. /\ qOffset' = qOffset /\ (editing' = editing \/ editing' = None)
      /\ (asking' = asking \/ asking' = None)
      /\ (UNCHANGED <<datasetRows, queries>> \/ queries' = Dataset!Ask(queries))
  BY DEF Dataset!update_query_text, Dataset!count_queries, Dataset!delete_query
<1>4. ListFacts'
  BY <1>2, <1>3, ListAsked, ListSame
<1>5. datasetFlights' \subseteq datasetFlights \cup {[f EXCEPT !.checked = TRUE]}
  BY DEF Dataset!update_query_text, Dataset!count_queries, Dataset!delete_query
<1>6. Dataset!IsRequest([f EXCEPT !.checked = TRUE])
  BY <1>1 DEF Dataset!IsRequest
<1>7. CurationFacts'
  <2>1. \A g \in datasetFlights' : Dataset!IsRequest(g)
    BY <1>5, <1>6 DEF CurationFacts
  <2>2. QED
    BY <1>2, <1>3, <2>1 DEF CurationFacts, Dataset!IsItem, Dataset!IsRequest
<1>8. QED
  BY <1>4, <1>7

LEMMA ReviewStep == Dataset!ReviewInv /\ [Dataset!NextReview]_(Dataset!review) => Dataset!ReviewInv'
<1> SUFFICES ASSUME ListFacts, CurationFacts, [Dataset!NextReview]_(Dataset!review)
             PROVE  ListFacts' /\ CurationFacts'
  BY ReviewParts, ReviewPartsNext
<1>1. CASE UNCHANGED Dataset!review
  <2>1. UNCHANGED <<datasetRows, queries, qOffset, editing, asking, datasetFlights>>
    BY <1>1 DEF Dataset!review
  <2>2. CurationFacts'
    BY <2>1 DEF CurationFacts, Dataset!IsItem, Dataset!IsRequest
  <2>3. QED
    BY <2>1, <2>2, ListSame
<1>2. QED
  BY <1>1, QueriesAnswerStep, TurnQueriesStep, CurateSteps, CurationAnswers DEF Dataset!NextReview

LEMMA ReviewStart == Dataset!Init => Dataset!ReviewInv
<1> SUFFICES ASSUME Dataset!Init PROVE Dataset!ReviewInv
  OBVIOUS
<1>1. /\ Dataset!IsQuery(queries) /\ queries.data = None
      /\ ~queries.served /\ ~Dataset!Settled(queries)
  <2>1. queries = Dataset!Ask(Dataset!NewQuery)
    BY DEF Dataset!Init
  <2>2. QED
    BY <2>1, NothingRead, PageQuerySteps
<1>2. /\ DOMAIN datasetRows = {Questions[i] : i \in DOMAIN Questions}
      /\ qOffset = 0 /\ editing = None /\ asking = None /\ datasetFlights = {}
  BY DEF Dataset!Init
<1>3. 0 \in 0 .. qOffset /\ qOffset = 0 * PageSize
  BY <1>2, PagesAssumption
<1>4. QED
  BY <1>1, <1>2, <1>3 DEF Dataset!ReviewInv

\* The half of the page that does not move stays as it starts.
Still == Dataset!DocumentsInv /\ Dataset!ReviewInv
LEMMA DatasetMeans ==
    Still => Dataset!TypeOK /\ Dataset!PageMatchesControls /\ Dataset!ReviewIsStored
<1> SUFFICES ASSUME Still PROVE Dataset!TypeOK /\ Dataset!PageMatchesControls
  BY DEF Still, Dataset!ReviewInv, Dataset!ReviewIsStored
<1>1. Dataset!TypeOK
  BY DEF Still, Dataset!DocumentsInv, Dataset!ReviewInv, Dataset!TypeOK, Dataset!IsItem, Dataset!IsRequest
<1>2. Dataset!PageMatchesControls
  BY DEF Still, Dataset!DocumentsInv, Dataset!PageMatchesControls, Dataset!deps
<1>3. QED
  BY <1>1, <1>2

LEMMA DatasetStep ==
    /\ Still /\ [Dataset!NextDocuments]_(Dataset!vars) => Still'
    /\ Still /\ [Dataset!NextReview]_(Dataset!vars) => Still'
<1>1. ASSUME Still, UNCHANGED Dataset!docs PROVE Dataset!DocumentsInv'
  BY <1>1, DocumentsStep DEF Still
<1>2. ASSUME Still, UNCHANGED Dataset!review PROVE Dataset!ReviewInv'
  BY <1>2, ReviewStep DEF Still
<1>3. Dataset!NextDocuments => UNCHANGED Dataset!review
  BY DEF Dataset!NextDocuments, Dataset!CollectionsArrive, Dataset!Debounce, Dataset!DocumentsAnswer,
     Dataset!selectCollection, Dataset!setSearch, Dataset!TurnPage
<1>4. Dataset!NextReview => UNCHANGED Dataset!docs
  BY DEF Dataset!NextReview, Dataset!QueriesAnswer, Dataset!Edit, Dataset!save, Dataset!AskDelete,
     Dataset!removeQuery, Dataset!TurnQueries, Dataset!update_query_text, Dataset!count_queries,
     Dataset!delete_query
<1>5. UNCHANGED Dataset!vars => UNCHANGED Dataset!docs /\ UNCHANGED Dataset!review
  BY DEF Dataset!vars, Dataset!docs, Dataset!review
<1>6. QED
  BY <1>1, <1>2, <1>3, <1>4, <1>5, DocumentsStep, ReviewStep DEF Still

--------------------------------------------------------------------------------
(* The chat's turns *)

\* A turn that goes on keeps its identity and kind; one that runs goes on
\* running, and a send keeps its session.
Carried(t, u) ==
    /\ u.id = t.id /\ u.kind = t.kind
    /\ t.kind = "send" => u.session = t.session
    /\ t.stage = "running" => u.stage = "running"

\* The invariant in parts: what is selected and on screen, the turns, what they
\* are the reason of.
ScreenFacts ==
    /\ turnsRows \subseteq Turns!Sessions /\ turnsListed \subseteq Turns!Sessions
    /\ pending \subseteq Turns!Sessions
    /\ selected \in Turns!Sessions \cup {None} /\ history \in Turns!Sessions \cup {None}
    /\ pollOf \in Turns!Sessions \cup {None} /\ skip \in Turns!Sessions \cup {None}
    /\ shown \in Turns!Sessions \cup {None} /\ history \in {None, selected}
TurnFacts ==
    /\ started \in 0 .. MaxTurns /\ controller \in 0 .. MaxTurns
    /\ turns \subseteq Turns!Records
    /\ \A t \in turns : t.stage = "branching" => t.kind # "send"
ReasonFacts ==
    /\ \A s \in pending : \E t \in turns : t.session = s /\ t.kind = "send"
    /\ \A o \in optimistic : \E t \in turns : t.id = o.id /\ t.stage = "running"
    /\ sending => \E t \in turns : t.id = controller /\ t.stage = "running"

LEMMA TurnsParts == Turns!TurnsInv <=> ScreenFacts /\ TurnFacts /\ ReasonFacts
<1>1. TurnFacts => \A t \in turns : t.stage \in {"frame", "branching", "running"} /\ t.session \in Turns!Sessions
  BY DEF TurnFacts, Turns!Records
<1>2. QED
  BY <1>1 DEF Turns!TurnsInv, Turns!TypeOK, Turns!OnlySelectedLoads, Turns!StopReachesTurn,
     ScreenFacts, TurnFacts, ReasonFacts

LEMMA TurnsPartsNext == ScreenFacts' /\ TurnFacts' /\ ReasonFacts' => Turns!TurnsInv'
<1>1. TurnFacts' => \A t \in turns' : t.stage \in {"frame", "branching", "running"} /\ t.session \in Turns!Sessions
  BY DEF TurnFacts, Turns!Records
<1>2. Turns!Sessions' = Turns!Sessions
  BY DEF Turns!Sessions
<1>3. QED
  BY <1>1, <1>2 DEF Turns!TurnsInv, Turns!TypeOK, Turns!OnlySelectedLoads, Turns!StopReachesTurn,
     ScreenFacts, TurnFacts, ReasonFacts

\* Aborting marks a turn and leaves it otherwise as it was.
LEMMA AbortedKeeps ==
    ASSUME NEW T, T \subseteq Turns!Records, \A t \in T : t.stage = "branching" => t.kind # "send"
    PROVE  /\ Turns!Aborted(T) \subseteq Turns!Records
           /\ \A u \in Turns!Aborted(T) : u.stage = "branching" => u.kind # "send"
           /\ \A t \in T : \E u \in Turns!Aborted(T) : Carried(t, u) /\ u.session = t.session
<1> DEFINE f(t) == IF t.id = controller THEN [t EXCEPT !.aborted = TRUE] ELSE t
<1>1. \A t \in Turns!Records : /\ f(t) \in Turns!Records
                               /\ f(t).id = t.id /\ f(t).kind = t.kind
                               /\ f(t).stage = t.stage /\ f(t).session = t.session
  BY ZenonT(60) DEF Turns!Records
<1>2. Turns!Aborted(T) = {f(t) : t \in T}
  BY DEF Turns!Aborted
<1> HIDE DEF f
<1>3. QED
  BY <1>1, <1>2 DEF Carried

\* Selecting a session cancels the load of another and drops its placeholders.
LEMMA MovedLoads ==
    ASSUME ScreenFacts, NEW s \in Turns!Sessions \cup {None}, NEW P,
           NEW M \in Turns!Sessions \cup {None}, NEW sk, NEW O,
           Turns!Moved(s, P, M, sk, O)
    PROVE  /\ history' \in {None, s} /\ shown' \in {None, M}
           /\ pollOf' \in {None, pollOf} /\ optimistic' \subseteq O
BY DEF ScreenFacts, Turns!Moved, Turns!LoadFor, Turns!PollFor, Turns!KeepOptimistic

\* While the turns stay as they are, fewer of them may be needed.
LEMMA QuietTurns ==
    ASSUME TurnFacts, ReasonFacts, UNCHANGED <<turns, started, controller, sending>>,
           pending' \subseteq pending, optimistic' \subseteq optimistic
    PROVE  TurnFacts' /\ ReasonFacts'
BY DEF TurnFacts, ReasonFacts, Turns!Records

\* The steps of the screen.
LEMMA ScreenSteps ==
    ASSUME ScreenFacts, TurnFacts, ReasonFacts,
           \/ \E s \in Turns!Sessions \cup {None} :
                \/ Turns!SelectSession(s) \/ Turns!PollLands(s)
                \/ \E old \in Turns!Sessions \cup {None} : Turns!Delete(s, old)
           \/ Turns!HistoryLands \/ Turns!ListLands \/ Turns!PollTick \/ Turns!StartNewChat
    PROVE  ScreenFacts' /\ TurnFacts' /\ ReasonFacts'
<1> DEFINE Quiet == /\ UNCHANGED <<turns, started, controller, sending>>
                    /\ pending' \subseteq pending /\ optimistic' \subseteq optimistic
<1>1. ASSUME NEW s \in Turns!Sessions \cup {None}, Turns!SelectSession(s)
      PROVE  ScreenFacts' /\ Quiet
  <2>1. /\ selected' = s /\ Turns!Moved(s, pending, shown, skip, optimistic)
        /\ UNCHANGED <<turnsRows, turnsListed, polls, pending, skip, turns, started, controller,
                       sending, stopping>>
    BY <1>1 DEF Turns!SelectSession
  <2>2. shown \in Turns!Sessions \cup {None}
    BY DEF ScreenFacts
  <2>3. /\ history' \in {None, s} /\ shown' \in {None, shown}
        /\ pollOf' \in {None, pollOf} /\ optimistic' \subseteq optimistic
    BY <2>1, <2>2, MovedLoads
  <2>4. QED
    BY <2>1, <2>3 DEF ScreenFacts
<1>2. ASSUME NEW s \in Turns!Sessions \cup {None}, Turns!PollLands(s)
      PROVE  ScreenFacts' /\ Quiet
  BY <1>2 DEF Turns!PollLands, ScreenFacts
<1>3. ASSUME NEW s \in Turns!Sessions \cup {None}, NEW old \in Turns!Sessions \cup {None},
             Turns!Delete(s, old)
      PROVE  ScreenFacts' /\ Quiet
  <2>1. /\ turnsRows' = turnsRows \ {s} /\ turnsListed' = turnsListed \ {s}
        /\ UNCHANGED <<polls, skip, turns, started, controller, sending, stopping>>
    BY <1>3 DEF Turns!Delete
  <2>2. \/ UNCHANGED <<selected, shown, history, pollOf, pending, optimistic>>
        \/ Turns!ToNewChat
        \/ /\ pending' = pending
           /\ \E n \in turnsListed : /\ selected' = n
                                     /\ Turns!Moved(n, pending, shown, skip, optimistic)
    BY <1>3 DEF Turns!Delete
  <2>3. CASE UNCHANGED <<selected, shown, history, pollOf, pending, optimistic>>
    BY <2>1, <2>3 DEF ScreenFacts
  <2>4. CASE Turns!ToNewChat
    BY <2>1, <2>4 DEF ScreenFacts, Turns!ToNewChat
  <2>5. ASSUME pending' = pending, NEW n \in turnsListed, selected' = n,
               Turns!Moved(n, pending, shown, skip, optimistic)
        PROVE  ScreenFacts' /\ Quiet
    <3>1. n \in Turns!Sessions /\ shown \in Turns!Sessions \cup {None}
      BY DEF ScreenFacts
    <3>2. /\ history' \in {None, n} /\ shown' \in {None, shown}
          /\ pollOf' \in {None, pollOf} /\ optimistic' \subseteq optimistic
      BY <2>5, <3>1, MovedLoads
    <3>3. QED
      BY <2>1, <2>5, <3>1, <3>2 DEF ScreenFacts
  <2>6. QED
    BY <2>2, <2>3, <2>4, <2>5
<1>4. ASSUME Turns!HistoryLands PROVE ScreenFacts' /\ Quiet
  BY <1>4 DEF Turns!HistoryLands, ScreenFacts
<1>5. ASSUME Turns!ListLands PROVE ScreenFacts' /\ Quiet
  BY <1>5 DEF Turns!ListLands, Turns!loads, ScreenFacts
<1>6. ASSUME Turns!PollTick PROVE ScreenFacts' /\ Quiet
  BY <1>6 DEF Turns!PollTick, ScreenFacts
<1>7. ASSUME Turns!StartNewChat PROVE ScreenFacts' /\ Quiet
  BY <1>7 DEF Turns!StartNewChat, Turns!ToNewChat, ScreenFacts
<1>8. ScreenFacts' /\ Quiet
  BY <1>1, <1>2, <1>3, <1>4, <1>5, <1>6, <1>7
<1>9. QED
  BY <1>8, QuietTurns

\* The records of turns grow with the number started.
TurnRecordsUpTo(n) ==
    [id : 1 .. n, kind : {"send", "retry", "edit", "branch"},
     stage : {"frame", "branching", "running"}, session : Turns!Sessions, new : BOOLEAN,
     stream : BOOLEAN, aborted : BOOLEAN, served : BOOLEAN]

LEMMA RecordsGrow ==
    /\ Turns!Records = TurnRecordsUpTo(started)
    /\ Turns!Records' = TurnRecordsUpTo(started')
    /\ \A m, n \in Nat : m <= n => TurnRecordsUpTo(m) \subseteq TurnRecordsUpTo(n)
<1>1. \A m, n \in Nat : m <= n => 1 .. m \subseteq 1 .. n
  OBVIOUS
<1>2. QED
  BY <1>1 DEF Turns!Records, TurnRecordsUpTo, Turns!Sessions

\* A turn begins to run, alone or in place of what it was before: the one that
\* ran is told to abort, and Stop reaches the new one.
LEMMA PerformKeeps ==
    ASSUME TurnFacts, ReasonFacts, NEW T \in SUBSET turns, NEW t, t \in Turns!Records',
           started' \in 0 .. MaxTurns, started <= started',
           Turns!Perform(T, t)
    PROVE  /\ TurnFacts'
           /\ \A u \in T : \E v \in turns' : Carried(u, v)
           /\ \E v \in turns' : /\ v.id = t.id /\ v.kind = t.kind /\ v.session = t.session
                                /\ v.stage = "running" /\ v.id = controller'
<1> DEFINE r == [t EXCEPT !.stage = "running"]
<1>1. /\ turns' = Turns!Aborted(T) \cup {r} /\ controller' = t.id
  BY DEF Turns!Perform
<1>2. /\ r \in Turns!Records' /\ r.id = t.id /\ r.kind = t.kind /\ r.session = t.session
      /\ r.stage = "running" /\ t.id \in 1 .. started'
  BY SMTT(60) DEF Turns!Records
<1> HIDE DEF r
<1>3. /\ T \subseteq Turns!Records /\ \A u \in T : u.stage = "branching" => u.kind # "send"
      /\ started \in Nat /\ started' \in Nat /\ MaxTurns \in Nat
  BY TurnsAssumption DEF TurnFacts
<1>4. Turns!Records \subseteq Turns!Records'
  BY <1>3, RecordsGrow
<1>5. /\ Turns!Aborted(T) \subseteq Turns!Records
      /\ \A u \in Turns!Aborted(T) : u.stage = "branching" => u.kind # "send"
      /\ \A u \in T : \E v \in Turns!Aborted(T) : Carried(u, v)
  BY <1>3, AbortedKeeps
<1>6. controller' \in 0 .. MaxTurns
  BY <1>1, <1>2, <1>3
<1>7. TurnFacts'
  BY <1>1, <1>2, <1>4, <1>5, <1>6 DEF TurnFacts
<1>8. QED
  BY <1>1, <1>2, <1>5, <1>7

\* The reasons stay when every turn but those given up is carried on.
LEMMA ReasonsStay ==
    ASSUME ReasonFacts, NEW gone,
           \A t \in turns \ gone : \E u \in turns' : Carried(t, u),
           \A s \in pending' : \/ s \in pending /\ \A t \in gone : t.kind # "send" \/ t.session # s
                               \/ \E u \in turns' : u.session = s /\ u.kind = "send",
           \A o \in optimistic' : \/ /\ o \in optimistic
                                     /\ \A t \in gone : t.stage = "running" => t.id # o.id
                                  \/ \E u \in turns' : u.id = o.id /\ u.stage = "running",
           sending' => \E u \in turns' : u.id = controller' /\ u.stage = "running"
    PROVE  ReasonFacts'
<1>1. ASSUME NEW s \in pending' PROVE \E u \in turns' : u.session = s /\ u.kind = "send"
  <2>1. CASE s \in pending /\ \A t \in gone : t.kind # "send" \/ t.session # s
    <3>1. PICK t \in turns : t.session = s /\ t.kind = "send"
      BY <2>1 DEF ReasonFacts
    <3>2. t \notin gone
      BY <2>1, <3>1
    <3>3. QED
      BY <3>1, <3>2 DEF Carried
  <2>2. QED
    BY <2>1
<1>2. ASSUME NEW o \in optimistic' PROVE \E u \in turns' : u.id = o.id /\ u.stage = "running"
  <2>1. CASE o \in optimistic /\ \A t \in gone : t.stage = "running" => t.id # o.id
    <3>1. PICK t \in turns : t.id = o.id /\ t.stage = "running"
      BY <2>1 DEF ReasonFacts
    <3>2. t \notin gone
      BY <2>1, <3>1
    <3>3. QED
      BY <3>1, <3>2 DEF Carried
  <2>2. QED
    BY <2>1
<1>3. QED
  BY <1>1, <1>2 DEF ReasonFacts

\* A new turn's record.
LEMMA NewTurn ==
    ASSUME TurnFacts, NEW k \in {"send", "retry", "edit", "branch"},
           NEW g \in {"frame", "branching", "running"}, NEW s \in Turns!Sessions,
           NEW b \in BOOLEAN, NEW c \in BOOLEAN, started < MaxTurns, started' = started + 1
    PROVE  /\ Turns!Turn(k, g, s, b, c) \in Turns!Records'
           /\ started' \in 0 .. MaxTurns /\ started <= started'
<1>1. started \in Nat /\ MaxTurns \in Nat
  BY TurnsAssumption DEF TurnFacts
<1>2. started' \in 0 .. MaxTurns /\ started <= started' /\ started + 1 \in 1 .. started'
  BY <1>1
<1>3. Turns!Turn(k, g, s, b, c) \in Turns!Records'
  BY <1>2 DEF Turns!Turn, Turns!Records, Turns!Sessions
<1>4. QED
  BY <1>2, <1>3

\* Sending, retrying and the frame that was waited for.
LEMMA SendSteps ==
    ASSUME ScreenFacts, TurnFacts, ReasonFacts, NEW b \in BOOLEAN, Turns!Send(b) \/ Turns!Retry(b)
    PROVE  ScreenFacts' /\ TurnFacts' /\ ReasonFacts'
<1>1. ASSUME NEW k \in {"send", "retry"}, NEW t, t = Turns!Turn(k, "running", selected, FALSE, b),
             started < MaxTurns, selected # None, started' = started + 1,
             Turns!Perform(turns, t), Turns!StartPolling(t), optimistic' \subseteq optimistic \cup {t},
             UNCHANGED <<turnsRows, turnsListed, selected, shown, history, pending, skip>>
      PROVE  ScreenFacts' /\ TurnFacts' /\ ReasonFacts'
  <2>1. selected \in Turns!Sessions
    BY <1>1 DEF ScreenFacts
  <2>2. t \in Turns!Records' /\ started' \in 0 .. MaxTurns /\ started <= started'
    BY <1>1, <2>1, NewTurn
  <2>3. /\ TurnFacts'
        /\ \A u \in turns : \E v \in turns' : Carried(u, v)
        /\ \E v \in turns' : v.id = t.id /\ v.stage = "running" /\ v.id = controller'
    BY <1>1, <2>2, PerformKeeps
  <2>4. t.session = selected
    BY <1>1 DEF Turns!Turn
  <2>5. ScreenFacts'
    BY <1>1, <2>1, <2>4 DEF ScreenFacts, Turns!StartPolling
  <2>6. ReasonFacts'
    <3> DEFINE gone == {}
    <3>1. /\ \A s \in pending' : s \in pending
          /\ \A o \in optimistic' : o \in optimistic \/ \E v \in turns' : v.id = o.id /\ v.stage = "running"
      BY <1>1, <2>3
    <3>2. QED
      BY <2>3, <3>1, ReasonsStay
  <2>7. QED
    BY <2>3, <2>5, <2>6
<1>2. CASE Turns!Send(b)
  BY <1>1, <1>2 DEF Turns!Send, Turns!CanSend
<1>3. CASE Turns!Retry(b)
  BY <1>1, <1>3 DEF Turns!Retry, Turns!CanRerun
<1>4. QED
  BY <1>2, <1>3

LEMMA FrameStep ==
    ASSUME ScreenFacts, TurnFacts, ReasonFacts, NEW t \in turns, Turns!Frame(t)
    PROVE  ScreenFacts' /\ TurnFacts' /\ ReasonFacts'
<1>1. /\ t.kind = "send" /\ t.stage = "frame" /\ optimistic' = optimistic \cup {t}
      /\ Turns!Perform(turns \ {t}, t) /\ Turns!StartPolling(t)
      /\ UNCHANGED <<turnsRows, turnsListed, selected, shown, history, pending, skip, started>>
  BY DEF Turns!Frame
<1>2. t \in Turns!Records' /\ started' \in 0 .. MaxTurns /\ started <= started'
  <2>1. Turns!Records' = Turns!Records /\ started' = started /\ started \in 0 .. MaxTurns
    BY <1>1, RecordsGrow DEF TurnFacts
  <2>2. QED
    BY <2>1 DEF TurnFacts
<1>3. t.session \in Turns!Sessions
  BY DEF TurnFacts, Turns!Records
<1>4. /\ TurnFacts'
      /\ \A u \in turns \ {t} : \E v \in turns' : Carried(u, v)
      /\ \E v \in turns' : /\ v.id = t.id /\ v.kind = t.kind /\ v.session = t.session
                           /\ v.stage = "running" /\ v.id = controller'
  BY <1>1, <1>2, PerformKeeps
<1>5. ScreenFacts'
  BY <1>1, <1>3 DEF ScreenFacts, Turns!StartPolling
<1>6. ReasonFacts'
  <2>1. \A u \in turns \ {} : \E v \in turns' : Carried(u, v)
    BY <1>1, <1>4 DEF Carried
  <2>2. /\ \A s \in pending' : s \in pending
        /\ \A o \in optimistic' : o \in optimistic \/ \E v \in turns' : v.id = o.id /\ v.stage = "running"
    BY <1>1, <1>4
  <2>3. QED
    BY <1>4, <2>1, <2>2, ReasonsStay
<1>7. QED
  BY <1>4, <1>5, <1>6

\* A turn that waits: for the frame of a new chat, or for its branch.
LEMMA WaitingTurn ==
    ASSUME TurnFacts, NEW t \in Turns!Records', t.stage = "branching" => t.kind # "send",
           started < MaxTurns, started' = started + 1, turns' = turns \cup {t}, controller' = controller
    PROVE  TurnFacts' /\ \A u \in turns : \E v \in turns' : Carried(u, v)
<1>1. started \in Nat /\ MaxTurns \in Nat /\ started' \in 0 .. MaxTurns /\ started <= started'
  BY TurnsAssumption DEF TurnFacts
<1>2. Turns!Records \subseteq Turns!Records'
  BY <1>1, RecordsGrow
<1>3. QED
  BY <1>1, <1>2 DEF TurnFacts, Carried

LEMMA SendNewStep ==
    ASSUME ScreenFacts, TurnFacts, ReasonFacts, NEW s \in Fresh, NEW b \in BOOLEAN, Turns!SendNew(s, b)
    PROVE  ScreenFacts' /\ TurnFacts' /\ ReasonFacts'
<1> DEFINE t == Turns!Turn("send", "frame", s, TRUE, b)
<1>1. /\ started < MaxTurns /\ started' = started + 1 /\ turns' = turns \cup {t}
      /\ turnsListed' = turnsListed \cup {s} /\ pending' = pending \cup {s}
      /\ selected' = s /\ Turns!Moved(s, pending', None, skip, {})
      /\ UNCHANGED <<turnsRows, polls, skip, controller, sending, stopping>>
  BY DEF Turns!SendNew, Turns!CanSend
<1>2. s \in Turns!Sessions
  BY DEF Turns!Sessions
<1>3. /\ t \in Turns!Records' /\ t.stage # "branching" /\ t.session = s /\ t.kind = "send"
  <2>1. t \in Turns!Records'
    BY <1>1, <1>2, NewTurn
  <2>2. QED
    BY <2>1 DEF Turns!Turn
<1> HIDE DEF t
<1>4. TurnFacts' /\ \A u \in turns : \E v \in turns' : Carried(u, v)
  BY <1>1, <1>3, WaitingTurn
<1>5. /\ history' \in {None, s} /\ shown' \in {None} /\ pollOf' \in {None, pollOf}
      /\ optimistic' \subseteq {}
  <2>1. None \in Turns!Sessions \cup {None} /\ s \in Turns!Sessions \cup {None}
    BY <1>2
  <2>2. QED
    BY <1>1, <2>1, MovedLoads
<1>6. ScreenFacts'
  BY <1>1, <1>2, <1>5 DEF ScreenFacts
<1>7. ReasonFacts'
  <2>1. \A r \in pending' : r \in pending \/ \E v \in turns' : v.session = r /\ v.kind = "send"
    BY <1>1, <1>3
  <2>2. sending' => \E v \in turns' : v.id = controller' /\ v.stage = "running"
    <3>1. sending' = sending /\ controller' = controller
      BY <1>1
    <3>2. sending => \E v \in turns : v.id = controller /\ v.stage = "running"
      BY DEF ReasonFacts
    <3>3. QED
      BY <1>4, <3>1, <3>2 DEF Carried
  <2>3. QED
    BY <1>4, <1>5, <2>1, <2>2, ReasonsStay
<1>8. QED
  BY <1>4, <1>6, <1>7

\* While Stop is where it was, it reaches the turn it reached.
LEMMA StopReaches ==
    ASSUME ReasonFacts, sending' = sending, controller' = controller, NEW gone,
           \A t \in gone : t.stage # "running",
           \A t \in turns \ gone : \E u \in turns' : Carried(t, u)
    PROVE  sending' => \E u \in turns' : u.id = controller' /\ u.stage = "running"
<1>1. SUFFICES ASSUME sending' PROVE \E u \in turns' : u.id = controller' /\ u.stage = "running"
  OBVIOUS
<1>2. PICK t \in turns : t.id = controller /\ t.stage = "running"
  BY <1>1 DEF ReasonFacts
<1>3. t \notin gone
  BY <1>2
<1>4. QED
  BY <1>2, <1>3 DEF Carried

LEMMA RequestBranchStep ==
    ASSUME ScreenFacts, TurnFacts, ReasonFacts, NEW k \in {"edit", "branch"}, NEW b \in BOOLEAN,
           Turns!RequestBranch(k, b)
    PROVE  ScreenFacts' /\ TurnFacts' /\ ReasonFacts'
<1> DEFINE t == Turns!Turn(k, "branching", selected, FALSE, b)
<1>1. /\ started < MaxTurns /\ started' = started + 1 /\ turns' = turns \cup {t} /\ selected # None
      /\ UNCHANGED <<turnsRows, turnsListed, selected, shown, history, pollOf, polls, pending, skip,
                     optimistic, controller, sending, stopping>>
  BY DEF Turns!RequestBranch, Turns!CanRerun, Turns!loads
<1>2. selected \in Turns!Sessions
  BY <1>1 DEF ScreenFacts
<1>3. t \in Turns!Records' /\ t.kind # "send"
  <2>1. t \in Turns!Records'
    BY <1>1, <1>2, NewTurn
  <2>2. QED
    BY <2>1 DEF Turns!Turn
<1> HIDE DEF t
<1>4. TurnFacts' /\ \A u \in turns \ {} : \E v \in turns' : Carried(u, v)
  BY <1>1, <1>3, WaitingTurn
<1>5. ScreenFacts'
  BY <1>1 DEF ScreenFacts
<1>6. ReasonFacts'
  <2>1. sending' => \E v \in turns' : v.id = controller' /\ v.stage = "running"
    <3>1. sending' = sending /\ controller' = controller
      BY <1>1
    <3>2. sending => \E v \in turns : v.id = controller /\ v.stage = "running"
      BY DEF ReasonFacts
    <3>3. QED
      BY <1>4, <3>1, <3>2 DEF Carried
  <2>2. QED
    BY <1>1, <1>4, <2>1, ReasonsStay
<1>7. QED
  BY <1>4, <1>5, <1>6

LEMMA BranchFailsStep ==
    ASSUME ScreenFacts, TurnFacts, ReasonFacts, NEW t \in turns, Turns!BranchFails(t)
    PROVE  ScreenFacts' /\ TurnFacts' /\ ReasonFacts'
<1>1. /\ t.stage = "branching" /\ turns' = turns \ {t}
      /\ UNCHANGED <<turnsRows, turnsListed, selected, shown, history, pollOf, polls, pending, skip,
                     optimistic, started, controller, sending, stopping>>
  BY DEF Turns!BranchFails, Turns!loads
<1>2. t.kind # "send"
  BY <1>1 DEF TurnFacts
<1>3. ScreenFacts'
  BY <1>1 DEF ScreenFacts
<1>4. Turns!Records' = Turns!Records
  BY <1>1, RecordsGrow
<1>5. TurnFacts' /\ \A u \in turns \ {t} : \E v \in turns' : Carried(u, v)
  BY <1>1, <1>4 DEF TurnFacts, Carried
<1>6. sending' => \E v \in turns' : v.id = controller' /\ v.stage = "running"
  BY <1>1, <1>5, StopReaches
<1>7. ReasonFacts'
  BY <1>1, <1>2, <1>5, <1>6, ReasonsStay
<1>8. QED
  BY <1>3, <1>5, <1>7

LEMMA BranchLandsStep ==
    ASSUME ScreenFacts, TurnFacts, ReasonFacts, NEW t \in turns, NEW b \in Fresh, Turns!BranchLands(t, b)
    PROVE  ScreenFacts' /\ TurnFacts' /\ ReasonFacts'
<1> DEFINE r == [t EXCEPT !.session = b]
<1>1. /\ t.stage = "branching"
      /\ turnsRows' = turnsRows \cup {b} /\ turnsListed' = turnsListed \cup {b}
      /\ skip' \in {b, skip} /\ selected' = b /\ history' \in {None, b} /\ shown' = b
      /\ optimistic' = {} /\ pollOf' \in {None, b}
      /\ UNCHANGED <<pending, started>>
  BY DEF Turns!BranchLands
<1>2. b \in Turns!Sessions
  BY DEF Turns!Sessions
<1>3. t.kind # "send" /\ t \in Turns!Records
  BY <1>1 DEF TurnFacts
<1>4. ScreenFacts'
  BY <1>1, <1>2 DEF ScreenFacts
<1>5. Turns!Records' = Turns!Records /\ started' = started /\ started \in 0 .. MaxTurns
  BY <1>1, RecordsGrow DEF TurnFacts
<1>6. r \in Turns!Records'
  BY <1>2, <1>3, <1>5 DEF Turns!Records
<1>7. CASE t.kind = "edit"
  <2>1. Turns!Perform(turns \ {t}, r)
    BY <1>7 DEF Turns!BranchLands
  <2> HIDE DEF r
  <2>2. /\ TurnFacts'
        /\ \A u \in turns \ {t} : \E v \in turns' : Carried(u, v)
        /\ \E v \in turns' : v.stage = "running" /\ v.id = controller'
    BY <1>5, <1>6, <2>1, PerformKeeps
  <2>3. ReasonFacts'
    BY <1>1, <1>3, <2>2, ReasonsStay
  <2>4. QED
    BY <1>4, <2>2, <2>3
<1>8. CASE t.kind # "edit"
  <2>1. turns' = turns \ {t} /\ UNCHANGED <<controller, sending>>
    BY <1>8 DEF Turns!BranchLands
  <2>2. TurnFacts' /\ \A u \in turns \ {t} : \E v \in turns' : Carried(u, v)
    BY <1>5, <2>1 DEF TurnFacts, Carried
  <2>3. sending' => \E v \in turns' : v.id = controller' /\ v.stage = "running"
    BY <1>1, <2>1, <2>2, StopReaches
  <2>4. ReasonFacts'
    BY <1>1, <1>3, <2>2, <2>3, ReasonsStay
  <2>5. QED
    BY <1>4, <2>2, <2>4
<1>9. QED
  BY <1>7, <1>8

LEMMA ServeStep ==
    ASSUME ScreenFacts, TurnFacts, ReasonFacts, NEW t \in turns, Turns!Serve(t)
    PROVE  ScreenFacts' /\ TurnFacts' /\ ReasonFacts'
<1> DEFINE r == [t EXCEPT !.served = TRUE]
<1>1. /\ t.stage = "running" /\ turns' = (turns \ {t}) \cup {r} /\ turnsRows' = turnsRows \cup {t.session}
      /\ UNCHANGED <<turnsListed, selected, shown, history, pollOf, polls, pending, skip,
                     optimistic, started, controller, sending, stopping>>
  BY DEF Turns!Serve, Turns!loads
<1>2. /\ r \in Turns!Records /\ r.id = t.id /\ r.kind = t.kind /\ r.stage = t.stage
      /\ r.session = t.session /\ t.session \in Turns!Sessions
  BY DEF TurnFacts, Turns!Records
<1> HIDE DEF r
<1>3. ScreenFacts'
  BY <1>1, <1>2 DEF ScreenFacts
<1>4. Turns!Records' = Turns!Records
  BY <1>1, RecordsGrow
<1>5. TurnFacts' /\ \A u \in turns \ {} : \E v \in turns' : Carried(u, v)
  <2>1. turns' \subseteq Turns!Records /\ started' = started /\ controller' = controller
    BY <1>1, <1>2 DEF TurnFacts
  <2>2. \A u \in turns' : u.stage = "branching" => u.kind # "send"
    BY <1>1, <1>2 DEF TurnFacts
  <2>3. TurnFacts'
    BY <1>4, <2>1, <2>2 DEF TurnFacts
  <2>4. Carried(t, r) /\ \A u : Carried(u, u)
    BY <1>2 DEF Carried
  <2>5. QED
    BY <1>1, <2>3, <2>4
<1>6. sending' => \E v \in turns' : v.id = controller' /\ v.stage = "running"
  <2>1. sending' = sending /\ controller' = controller
    BY <1>1
  <2>2. sending => \E v \in turns : v.id = controller /\ v.stage = "running"
    BY DEF ReasonFacts
  <2>3. QED
    BY <1>5, <2>1, <2>2 DEF Carried
<1>7. ReasonFacts'
  BY <1>1, <1>5, <1>6, ReasonsStay
<1>8. QED
  BY <1>3, <1>5, <1>7

LEMMA StopStep ==
    ASSUME ScreenFacts, TurnFacts, ReasonFacts, Turns!StopGeneration
    PROVE  ScreenFacts' /\ TurnFacts' /\ ReasonFacts'
<1>1. /\ turns' = Turns!Aborted(turns) /\ pollOf' = None
      /\ UNCHANGED <<turnsRows, turnsListed, selected, shown, history, polls, pending, skip,
                     optimistic, started, controller, sending>>
  BY DEF Turns!StopGeneration
<1>2. ScreenFacts'
  BY <1>1 DEF ScreenFacts
<1>3. Turns!Records' = Turns!Records
  BY <1>1, RecordsGrow
<1>4. /\ turns' \subseteq Turns!Records
      /\ \A u \in turns' : u.stage = "branching" => u.kind # "send"
      /\ \A t \in turns \ {} : \E u \in turns' : Carried(t, u)
  BY <1>1, AbortedKeeps DEF TurnFacts
<1>5. TurnFacts'
  <2>1. turns' \subseteq Turns!Records' /\ started' = started /\ controller' = controller
    BY <1>1, <1>3, <1>4
  <2>2. QED
    BY <1>4, <2>1 DEF TurnFacts
<1>6. sending' => \E v \in turns' : v.id = controller' /\ v.stage = "running"
  <2>1. sending' = sending /\ controller' = controller
    BY <1>1
  <2>2. sending => \E v \in turns : v.id = controller /\ v.stage = "running"
    BY DEF ReasonFacts
  <2>3. QED
    BY <1>4, <2>1, <2>2 DEF Carried
<1>7. ReasonFacts'
  BY <1>1, <1>4, <1>6, ReasonsStay
<1>8. QED
  BY <1>2, <1>5, <1>7

\* A turn ends: answered, failed or aborted.
LEMMA EndSteps ==
    ASSUME ScreenFacts, TurnFacts, ReasonFacts, NEW t \in turns,
           Turns!Answer(t) \/ Turns!Fail(t) \/ Turns!Abort(t)
    PROVE  ScreenFacts' /\ TurnFacts' /\ ReasonFacts'
<1>1. t.session \in Turns!Sessions /\ t.stage \in {"frame", "branching", "running"}
  BY DEF TurnFacts, Turns!Records
<1>2. Turns!Ended(t) /\ UNCHANGED <<turnsRows, polls, started>>
  BY DEF Turns!Answer, Turns!Fail, Turns!Abort
<1>3. /\ turns' = turns \ {t} /\ pollOf' = None /\ sending' = FALSE /\ controller' = 0
      /\ skip' \in {None, skip}
  BY <1>2 DEF Turns!Ended
<1>4. Turns!Records' = Turns!Records /\ MaxTurns \in Nat
  BY <1>2, RecordsGrow, TurnsAssumption
<1>5. TurnFacts' /\ \A u \in turns \ {t} : \E v \in turns' : Carried(u, v)
  BY <1>2, <1>3, <1>4 DEF TurnFacts, Carried
<1>6. /\ pending' \subseteq pending
      /\ t.kind = "send" => t.session \notin pending'
  BY DEF Turns!Answer, Turns!Fail, Turns!Abort
<1>7. \A o \in optimistic' : o \in optimistic /\ o.id # t.id
  BY DEF Turns!Answer, Turns!Fail, Turns!Abort, Turns!KeepOptimistic
<1>8. ReasonFacts'
  <2>1. \A s \in pending' : s \in pending /\ \A u \in {t} : u.kind # "send" \/ u.session # s
    BY <1>6
  <2>2. \A o \in optimistic' : o \in optimistic /\ \A u \in {t} : u.stage = "running" => u.id # o.id
    BY <1>7
  <2>3. QED
    BY <1>3, <1>5, <2>1, <2>2, ReasonsStay
<1>9. /\ selected' \in {selected, t.session, None} /\ shown' \in {shown, t.session, None}
      /\ history' \in {None, selected'}
      /\ turnsListed' \subseteq turnsListed \cup {t.session}
  <2>1. history \in {None, selected}
    BY DEF ScreenFacts
  <2>2. CASE Turns!Answer(t)
    BY <2>1, <2>2 DEF Turns!Answer
  <2>3. CASE Turns!Fail(t)
    BY <2>1, <2>3 DEF Turns!Fail
  <2>4. CASE Turns!Abort(t)
    BY <2>1, <2>4 DEF Turns!Abort
  <2>5. QED
    BY <2>2, <2>3, <2>4
<1>10. ScreenFacts'
  BY <1>1, <1>2, <1>3, <1>6, <1>9 DEF ScreenFacts
<1>11. QED
  BY <1>5, <1>8, <1>10

LEMMA TurnsStep == Turns!TurnsInv /\ [Turns!Next]_(Turns!vars) => Turns!TurnsInv'
<1> SUFFICES ASSUME Turns!TurnsInv, [Turns!Next]_(Turns!vars) PROVE Turns!TurnsInv'
  OBVIOUS
<1>1. ScreenFacts /\ TurnFacts /\ ReasonFacts
  BY TurnsParts
<1>2. CASE Turns!Next
  <2>1. \/ \/ \E s \in Turns!Sessions \cup {None} :
                \/ Turns!SelectSession(s) \/ Turns!PollLands(s)
                \/ \E old \in Turns!Sessions \cup {None} : Turns!Delete(s, old)
           \/ Turns!HistoryLands \/ Turns!ListLands \/ Turns!PollTick \/ Turns!StartNewChat
        \/ \E b \in BOOLEAN : Turns!Send(b) \/ Turns!Retry(b)
        \/ \E b \in BOOLEAN, s \in Fresh : Turns!SendNew(s, b)
        \/ \E b \in BOOLEAN, k \in {"edit", "branch"} : Turns!RequestBranch(k, b)
        \/ \E t \in turns : Turns!Frame(t)
        \/ \E t \in turns : Turns!BranchFails(t)
        \/ \E t \in turns : Turns!Serve(t)
        \/ \E t \in turns : Turns!Answer(t) \/ Turns!Fail(t) \/ Turns!Abort(t)
        \/ \E t \in turns, b \in Fresh : Turns!BranchLands(t, b)
        \/ Turns!StopGeneration
    BY <1>2 DEF Turns!Next
  <2>2. ScreenFacts' /\ TurnFacts' /\ ReasonFacts'
    BY <1>1, <2>1, ScreenSteps, SendSteps, SendNewStep, RequestBranchStep, FrameStep,
       BranchFailsStep, ServeStep, EndSteps, BranchLandsStep, StopStep
  <2>3. QED
    BY <2>2, TurnsPartsNext
<1>3. CASE UNCHANGED Turns!vars
  <2>1. UNCHANGED <<turnsRows, turnsListed, selected, shown, history, pollOf, pending, skip,
                    optimistic, turns, started, controller, sending>>
    BY <1>3 DEF Turns!vars, Turns!loads
  <2>2. ScreenFacts' /\ TurnFacts' /\ ReasonFacts'
    BY <1>1, <2>1, QuietTurns DEF ScreenFacts
  <2>3. QED
    BY <2>2, TurnsPartsNext
<1>4. QED
  BY <1>2, <1>3

LEMMA TurnsStart == Turns!Init => Turns!TurnsInv
<1> SUFFICES ASSUME Turns!Init PROVE Turns!TurnsInv
  OBVIOUS
<1>1. ScreenFacts
  BY DEF Turns!Init, ScreenFacts, Turns!Sessions
<1>2. TurnFacts
  BY TurnsAssumption DEF Turns!Init, TurnFacts
<1>3. ReasonFacts
  BY DEF Turns!Init, ReasonFacts
<1>4. QED
  BY <1>1, <1>2, <1>3, TurnsParts

LEMMA TurnsHold ==
    Turns!TurnsInv => /\ Turns!TypeOK /\ Turns!OnlySelectedLoads /\ Turns!PendingHasTurn
                      /\ Turns!OptimisticHasTurn /\ Turns!StopReachesTurn
BY DEF Turns!TurnsInv, Turns!PendingHasTurn, Turns!OptimisticHasTurn

--------------------------------------------------------------------------------
(* The console session *)

\* The invariant in parts: the types, who is signed in, what is out.
SessionTypes ==
    /\ token \in {None, 0, 1} /\ user \in {None, "u"} /\ authLoading \in BOOLEAN
    /\ route \in Session!Gated \cup {"signin"} /\ config \in BOOLEAN \cup {None}
    /\ requests \in [Session!Kinds -> Session!Outcomes] /\ gate \in Session!GateQueries
    /\ mode \in {"login", "register"} /\ signing \in {"idle", "login", "register", "profile"}
    /\ completedLocally \in BOOLEAN /\ signedOut \in BOOLEAN /\ open \in BOOLEAN /\ done \in BOOLEAN
WhoFacts ==
    /\ user # None => token # None
    /\ gate.loading => Session!Enabled(token, user, route)
OutFacts ==
    /\ \A k, l \in Session!Kinds : Session!Out(k) /\ Session!Out(l) => k = l
    /\ signing \in {"login", "register"} => Session!Out(signing)
    /\ signing = "profile" => Session!Out("profile")
    /\ Session!Out("boot") => token = None /\ user = None
    /\ Session!Out("profile") => token # None
    /\ Session!Out("login") \/ Session!Out("register") => route = "signin"
    /\ signedOut => token = None /\ user = None /\ \A k \in Session!Kinds : ~Session!Out(k)

LEMMA SessionParts == Session!SessionInv <=> SessionTypes /\ WhoFacts /\ OutFacts
BY DEF Session!SessionInv, Session!TypeOK, SessionTypes, WhoFacts, OutFacts

LEMMA SessionPartsNext == SessionTypes' /\ WhoFacts' /\ OutFacts' => Session!SessionInv'
BY DEF Session!SessionInv, Session!TypeOK, SessionTypes, WhoFacts, OutFacts,
   Session!Kinds, Session!Outcomes, Session!Gated, Session!GateQueries

\* What the steps of a query make of one.
LEMMA QuerySteps ==
    /\ Session!NewQuery \in Session!GateQueries
    /\ ~Session!NewQuery.loading /\ ~Session!NewQuery.error
    /\ \A q \in Session!GateQueries :
         /\ Session!Ask(q) \in Session!GateQueries
         /\ Session!Ask(q).data = q.data /\ Session!Ask(q).error = FALSE
         /\ \A v \in BOOLEAN : /\ Session!Serve(q, v) \in Session!GateQueries
                               /\ Session!Serve(q, v).loading = q.loading
         /\ Session!Land(q) \in Session!GateQueries /\ ~Session!Land(q).loading
         /\ Session!Fault(q) \in Session!GateQueries /\ ~Session!Fault(q).loading
<1>1. /\ Session!NewQuery \in Session!GateQueries
      /\ ~Session!NewQuery.loading /\ ~Session!NewQuery.error
  BY DEF Session!NewQuery, Session!GateQueries
<1>2. ASSUME NEW q \in Session!GateQueries
      PROVE  /\ Session!Ask(q) \in Session!GateQueries
             /\ Session!Ask(q).data = q.data /\ Session!Ask(q).error = FALSE
             /\ \A v \in BOOLEAN : /\ Session!Serve(q, v) \in Session!GateQueries
                                   /\ Session!Serve(q, v).loading = q.loading
             /\ Session!Land(q) \in Session!GateQueries /\ ~Session!Land(q).loading
             /\ Session!Fault(q) \in Session!GateQueries /\ ~Session!Fault(q).loading
  BY DEF Session!GateQueries, Session!Ask, Session!Serve, Session!Land, Session!Fault
<1>3. QED
  BY <1>1, <1>2

\* The gate follows who is signed in and where the browser is.
LEMMA BecomesKeeps ==
    ASSUME SessionTypes, WhoFacts, NEW t \in {None, 0, 1}, NEW u \in {None, "u"},
           NEW r \in Session!Gated \cup {"signin"}, u # None => t # None, Session!Becomes(t, u, r)
    PROVE  /\ token' = t /\ user' = u /\ route' = r
           /\ gate' \in Session!GateQueries /\ completedLocally' \in BOOLEAN
           /\ WhoFacts'
<1>1. /\ token' = t /\ user' = u /\ route' = r /\ gate' = Session!GateAfter(t, u, r)
      /\ completedLocally' = (completedLocally /\ r \in Session!Gated)
  BY DEF Session!Becomes
<1>2. gate \in Session!GateQueries
  BY DEF SessionTypes
<1>3. gate' \in Session!GateQueries
  BY <1>1, <1>2, QuerySteps DEF Session!GateAfter
<1>4. gate'.loading => Session!Enabled(t, u, r)
  BY <1>1, QuerySteps DEF Session!GateAfter
<1>5. completedLocally' \in BOOLEAN
  BY <1>1 DEF SessionTypes
<1>6. QED
  BY <1>1, <1>3, <1>4, <1>5 DEF WhoFacts, Session!Enabled, Session!Gated

\* What a request's mark says is out.
LEMMA PutMarks ==
    ASSUME requests \in [Session!Kinds -> Session!Outcomes], NEW k \in Session!Kinds,
           NEW s \in Session!Outcomes, Session!Put(k, s)
    PROVE  /\ requests' \in [Session!Kinds -> Session!Outcomes] /\ requests'[k] = s
           /\ \A j \in Session!Kinds : j # k => requests'[j] = requests[j]
           /\ \A j \in Session!Kinds : j # k => Session!Out(j)' = Session!Out(j)
           /\ Session!Out(k)' <=> s # "none"
BY DEF Session!Put, Session!Out

LEMMA ChainMarks ==
    ASSUME requests \in [Session!Kinds -> Session!Outcomes], NEW k \in Session!Kinds,
           NEW l \in Session!Kinds, k # l,
           requests' = [requests EXCEPT ![k] = "none", ![l] = "sent"]
    PROVE  /\ requests' \in [Session!Kinds -> Session!Outcomes]
           /\ \A j \in Session!Kinds : j \notin {k, l} => Session!Out(j)' = Session!Out(j)
           /\ ~Session!Out(k)' /\ Session!Out(l)'
BY DEF Session!Out, Session!Outcomes

LEMMA KindsOfRequests ==
    /\ Session!Kinds = {"boot", "tick", "profile", "login", "register", "logout"}
    /\ Session!Outcomes = {"none", "sent", "ok", "bad"}
BY DEF Session!Kinds, Session!Outcomes

\* Only one request is out, so with it answered none is, and with another sent
\* in its place only that one.
OnlyOut(j) == \A k \in Session!Kinds : Session!Out(k) => k = j
NoneOut == \A k \in Session!Kinds : ~Session!Out(k)

LEMMA Answered ==
    ASSUME SessionTypes, OutFacts, NEW k \in Session!Kinds, Session!Out(k), Session!Put(k, "none")
    PROVE  NoneOut' /\ requests' \in [Session!Kinds -> Session!Outcomes]
<1>1. requests \in [Session!Kinds -> Session!Outcomes] /\ "none" \in Session!Outcomes
  BY KindsOfRequests DEF SessionTypes
<1>2. \A j \in Session!Kinds : j # k => ~Session!Out(j)
  BY DEF OutFacts
<1>3. QED
  BY <1>1, <1>2, PutMarks DEF NoneOut

LEMMA ChainedTo ==
    ASSUME SessionTypes, OutFacts, NEW k \in Session!Kinds, Session!Out(k), NEW l \in Session!Kinds,
           k # l, requests' = [requests EXCEPT ![k] = "none", ![l] = "sent"]
    PROVE  OnlyOut(l)' /\ Session!Out(l)' /\ requests' \in [Session!Kinds -> Session!Outcomes]
<1>1. requests \in [Session!Kinds -> Session!Outcomes]
  BY DEF SessionTypes
<1>2. \A j \in Session!Kinds : j # k => ~Session!Out(j)
  BY DEF OutFacts
<1>3. QED
  BY <1>1, <1>2, ChainMarks DEF OnlyOut

LEMMA SentAlone ==
    ASSUME SessionTypes, Session!Quiet, NEW k \in Session!Kinds, Session!Put(k, "sent")
    PROVE  OnlyOut(k)' /\ Session!Out(k)' /\ requests' \in [Session!Kinds -> Session!Outcomes]
<1>1. requests \in [Session!Kinds -> Session!Outcomes] /\ "sent" \in Session!Outcomes
  BY KindsOfRequests DEF SessionTypes
<1>2. \A j \in Session!Kinds : ~Session!Out(j)
  BY DEF Session!Quiet
<1>3. QED
  BY <1>1, <1>2, PutMarks DEF OnlyOut

\* What a step leaves of the session's types when it moves only some of them.
LEMMA OutAlone ==
    ASSUME NEW j \in Session!Kinds, OnlyOut(j)', ~signedOut',
           signing' \in {"login", "register"} => signing' = j /\ Session!Out(j)',
           signing' = "profile" => j = "profile" /\ Session!Out(j)',
           j = "boot" => token' = None /\ user' = None, j = "profile" => token' # None,
           j \in {"login", "register"} => route' = "signin"
    PROVE  OutFacts'
BY KindsOfRequests DEF OnlyOut, OutFacts

LEMMA OutNone ==
    ASSUME NoneOut', signing' = "idle", signedOut' => token' = None /\ user' = None
    PROVE  OutFacts'
BY KindsOfRequests DEF NoneOut, OutFacts

LEMMA OutSame ==
    ASSUME OutFacts, \A k \in Session!Kinds : Session!Out(k)' = Session!Out(k),
           signing' = signing, signedOut' = signedOut,
           token' = token /\ user' = user,
           route' = route \/ route # "signin"
    PROVE  OutFacts'
<1>1. /\ Session!Out("boot")' = Session!Out("boot") /\ Session!Out("profile")' = Session!Out("profile")
      /\ Session!Out("login")' = Session!Out("login") /\ Session!Out("register")' = Session!Out("register")
  BY KindsOfRequests
<1>2. QED
  BY <1>1 DEF OutFacts

LEMMA SameOut ==
    ASSUME requests' = requests
    PROVE  \A k \in Session!Kinds : Session!Out(k)' = Session!Out(k)
BY DEF Session!Out

\* Whoever sees a page is signed in and did not sign out.
LEMMA Visible ==
    ASSUME WhoFacts, OutFacts, Session!Showing
    PROVE  /\ user # None /\ token # None /\ ~signedOut /\ ~Session!Out("boot")
           /\ route \in Session!Gated /\ route # "signin"
BY KindsOfRequests DEF WhoFacts, OutFacts, Session!Showing, Session!Gated

\* The steps of the gate and the layout.
LEMMA GateSteps ==
    ASSUME SessionTypes, WhoFacts, OutFacts,
           \/ Session!ServeStatus \/ Session!StatusAnswers \/ Session!RedirectToSetup
           \/ Session!markComplete \/ Session!SendAway \/ Session!Revoked
           \/ \E r \in {"console", "settings"} : Session!FollowLink(r)
    PROVE  SessionTypes' /\ WhoFacts' /\ OutFacts'
<1>1. gate \in Session!GateQueries /\ done \in BOOLEAN /\ Session!Gated = {"console", "setup", "settings"}
  BY DEF SessionTypes, Session!Gated
<1>2. ASSUME gate' \in Session!GateQueries, gate'.loading => gate.loading,
             UNCHANGED <<token, user, authLoading, requests, signing, mode, config, route,
                         completedLocally, known, open, done, signedOut>>
      PROVE  SessionTypes' /\ WhoFacts' /\ OutFacts'
  <2>1. SessionTypes' /\ WhoFacts'
    BY <1>1, <1>2 DEF SessionTypes, WhoFacts, Session!Enabled
  <2>2. QED
    BY <1>2, <2>1, OutSame, SameOut
<1>3. ASSUME NEW r \in {"console", "setup", "settings", "signin"}, route # "signin",
             Session!Becomes(token, user, r),
             UNCHANGED <<authLoading, requests, signing, mode, config, known, open, done, signedOut>>
      PROVE  SessionTypes' /\ WhoFacts' /\ OutFacts'
  <2>1. /\ token \in {None, 0, 1} /\ user \in {None, "u"} /\ (user # None => token # None)
        /\ r \in Session!Gated \cup {"signin"}
    BY <1>1 DEF SessionTypes, WhoFacts
  <2>2. /\ token' = token /\ user' = user /\ route' = r
        /\ gate' \in Session!GateQueries /\ completedLocally' \in BOOLEAN /\ WhoFacts'
    BY <1>3, <2>1, BecomesKeeps
  <2>3. SessionTypes'
    BY <1>1, <1>3, <2>1, <2>2 DEF SessionTypes
  <2>4. QED
    BY <1>3, <2>2, <2>3, OutSame, SameOut
<1>4. CASE Session!ServeStatus
  <2>1. /\ gate' = Session!Serve(gate, done)
        /\ UNCHANGED <<token, user, authLoading, requests, signing, mode, config, route,
                       completedLocally, known, open, done, signedOut>>
    BY <1>4 DEF Session!ServeStatus, Session!auth, Session!form, Session!server
  <2>2. QED
    BY <1>1, <1>2, <2>1, QuerySteps
<1>5. CASE Session!StatusAnswers
  <2>1. /\ gate' = Session!Land(gate) \/ gate' = Session!Fault(gate)
        /\ UNCHANGED <<token, user, authLoading, requests, signing, mode, config, route,
                       completedLocally, known, open, done, signedOut>>
    BY <1>5 DEF Session!StatusAnswers, Session!auth, Session!form, Session!server
  <2>2. QED
    BY <1>1, <1>2, <2>1, QuerySteps
<1>6. CASE Session!RedirectToSetup
  <2>1. /\ route \in Session!Gated /\ Session!Becomes(token, user, "setup")
        /\ UNCHANGED <<authLoading, requests, signing, mode, config, known, open, done, signedOut>>
    BY <1>6 DEF Session!RedirectToSetup, Session!form, Session!server
  <2>2. QED
    BY <1>1, <1>3, <2>1
<1>7. CASE Session!markComplete
  <2>1. /\ Session!Showing /\ route = "setup" /\ route' = "console" /\ completedLocally' = TRUE
        /\ done' = TRUE
        /\ UNCHANGED <<token, user, authLoading, requests, signing, mode, config, gate, known, open, signedOut>>
    BY <1>7 DEF Session!markComplete, Session!auth, Session!form
  <2>2. SessionTypes'
    BY <1>1, <2>1 DEF SessionTypes
  <2>3. WhoFacts'
    BY <1>1, <2>1, Visible DEF WhoFacts, Session!Enabled
  <2>4. QED
    BY <2>1, <2>2, <2>3, OutSame, SameOut
<1>8. CASE Session!SendAway
  <2>1. /\ route \in Session!Gated /\ Session!Becomes(token, user, "signin")
        /\ UNCHANGED <<authLoading, requests, signing, mode, config, known, open, done, signedOut>>
    BY <1>8 DEF Session!SendAway, Session!form, Session!server
  <2>2. QED
    BY <1>1, <1>3, <2>1
<1>9. CASE Session!Revoked
  <2>1. UNCHANGED <<token, user, authLoading, requests, signing, mode, config, route, gate,
                    completedLocally, known, open, done, signedOut>>
    BY <1>9 DEF Session!Revoked, Session!auth, Session!form, Session!shell
  <2>2. QED
    BY <1>1, <1>2, <2>1
<1>10. ASSUME NEW r \in {"console", "settings"}, Session!FollowLink(r)
       PROVE  SessionTypes' /\ WhoFacts' /\ OutFacts'
  <2>1. /\ Session!Showing /\ Session!Becomes(token, user, r)
        /\ UNCHANGED <<authLoading, requests, signing, mode, config, known, open, done, signedOut>>
    BY <1>10 DEF Session!FollowLink, Session!form, Session!server
  <2>2. QED
    BY <1>1, <1>3, <2>1, Visible
<1>11. QED
  BY <1>4, <1>5, <1>6, <1>7, <1>8, <1>9, <1>10

\* Opening the page afresh, and what the server does with a request.
LEMMA ReloadStep ==
    ASSUME SessionTypes, WhoFacts, OutFacts, Session!Reload
    PROVE  SessionTypes' /\ WhoFacts' /\ OutFacts'
<1>1. /\ token' = None /\ user' = None /\ authLoading' = TRUE /\ requests' = Session!Restoring
      /\ signing' = "idle" /\ mode' = "login" /\ config' = None
      /\ gate' = Session!NewQuery /\ completedLocally' = FALSE /\ signedOut' = FALSE
      /\ UNCHANGED <<route, open, done>>
  BY DEF Session!Reload, Session!server
<1>2. /\ requests' \in [Session!Kinds -> Session!Outcomes] /\ OnlyOut("boot")'
      /\ "boot" \in Session!Kinds
  BY <1>1, KindsOfRequests DEF Session!Restoring, Session!NoRequests, OnlyOut, Session!Out
<1>3. SessionTypes'
  BY <1>1, <1>2, QuerySteps DEF SessionTypes
<1>4. WhoFacts'
  BY <1>1, QuerySteps DEF WhoFacts
<1>5. OutFacts'
  BY <1>1, <1>2, OutAlone
<1>6. QED
  BY <1>3, <1>4, <1>5

LEMMA ServerAnswersStep ==
    ASSUME SessionTypes, WhoFacts, OutFacts, NEW k \in Session!Kinds, Session!ServerAnswers(k)
    PROVE  SessionTypes' /\ WhoFacts' /\ OutFacts'
<1>1. /\ requests[k] = "sent" /\ (Session!Put(k, "ok") \/ Session!Put(k, "bad"))
      /\ UNCHANGED <<token, user, authLoading, signing, mode, config, route, gate, completedLocally,
                     open, done, signedOut>>
  BY DEF Session!ServerAnswers, Session!auth, Session!form, Session!shell
<1>2. /\ requests' \in [Session!Kinds -> Session!Outcomes]
      /\ \A j \in Session!Kinds : j # k => Session!Out(j)' = Session!Out(j)
      /\ Session!Out(k)'
  BY <1>1, PutMarks, KindsOfRequests DEF SessionTypes
<1>3. Session!Out(k)
  BY <1>1 DEF Session!Out
<1>4. SessionTypes'
  BY <1>1, <1>2 DEF SessionTypes
<1>5. WhoFacts'
  BY <1>1 DEF WhoFacts, Session!Enabled
<1>6. \A j \in Session!Kinds : Session!Out(j)' = Session!Out(j)
  <2>1. Session!Out(k)' = Session!Out(k)
    BY <1>2, <1>3 DEF Session!Out
  <2>2. QED
    BY <1>2, <2>1
<1>7. QED
  BY <1>1, <1>4, <1>5, <1>6, OutSame

\* The answers to the session's requests.
LEMMA NewTokens == Session!NewToken \in {0, 1} /\ Session!NewToken # None /\ None \notin {0, 1}
BY NoneAssumption DEF Session!NewToken

LEMMA bootStep ==
    ASSUME SessionTypes, WhoFacts, OutFacts, Session!bootAnswers
    PROVE  SessionTypes' /\ WhoFacts' /\ OutFacts'
<1>1. Session!Out("boot") /\ "boot" \in Session!Kinds /\ "profile" \in Session!Kinds
  BY KindsOfRequests DEF Session!bootAnswers, Session!Out
<1>2. UNCHANGED <<signing, mode, config, cookie, known, open, done, signedOut>>
  BY DEF Session!bootAnswers, Session!form, Session!server
<1>3. token = None /\ user = None /\ ~signedOut /\ signing = "idle" /\ route \in Session!Gated \cup {"signin"}
  BY <1>1, KindsOfRequests DEF OutFacts, SessionTypes
<1>4. CASE requests.boot = "ok"
  <2>1. /\ Session!Becomes(Session!NewToken, user, route) /\ authLoading' = TRUE
        /\ requests' = [requests EXCEPT !["boot"] = "none", !["profile"] = "sent"]
    BY <1>4 DEF Session!bootAnswers
  <2>2. OnlyOut("profile")' /\ Session!Out("profile")' /\ requests' \in [Session!Kinds -> Session!Outcomes]
    BY <1>1, <2>1, ChainedTo
  <2>3. /\ token' = Session!NewToken /\ user' = None /\ route' = route
        /\ gate' \in Session!GateQueries /\ completedLocally' \in BOOLEAN /\ WhoFacts'
    BY <1>3, <2>1, NewTokens, BecomesKeeps
  <2>4. SessionTypes'
    BY <1>2, <2>1, <2>2, <2>3, NewTokens DEF SessionTypes
  <2>5. OutFacts'
    BY <1>1, <1>2, <1>3, <2>2, <2>3, NewTokens, OutAlone
  <2>6. QED
    BY <2>3, <2>4, <2>5
<1>5. CASE requests.boot # "ok"
  <2>1. /\ Session!Put("boot", "none") /\ authLoading' = FALSE
        /\ UNCHANGED <<token, user, route, gate, completedLocally>>
    BY <1>5 DEF Session!bootAnswers, Session!shell
  <2>2. NoneOut' /\ requests' \in [Session!Kinds -> Session!Outcomes]
    BY <1>1, <2>1, Answered
  <2>3. SessionTypes'
    BY <1>2, <2>1, <2>2, ZenonT(60) DEF SessionTypes
  <2>4. WhoFacts'
    BY <2>1 DEF WhoFacts, Session!Enabled
  <2>5. OutFacts'
    BY <1>2, <1>3, <2>1, <2>2, OutNone
  <2>6. QED
    BY <2>3, <2>4, <2>5
<1>6. QED
  BY <1>4, <1>5

LEMMA profileStep ==
    ASSUME SessionTypes, WhoFacts, OutFacts, Session!fetchProfileAnswers
    PROVE  SessionTypes' /\ WhoFacts' /\ OutFacts'
<1>1. Session!Out("profile") /\ "profile" \in Session!Kinds
  BY KindsOfRequests DEF Session!fetchProfileAnswers, Session!Out
<1>2. /\ Session!Put("profile", "none") /\ authLoading' = FALSE
      /\ UNCHANGED <<mode, config, open, done, signedOut>>
      /\ signing' = IF signing = "profile" THEN "idle" ELSE signing
  BY DEF Session!fetchProfileAnswers, Session!server
<1>3. token # None /\ ~signedOut /\ signing \notin {"login", "register"}
  BY <1>1, KindsOfRequests DEF OutFacts
<1>4. PICK r \in Session!Gated \cup {"signin"}, t \in {None, token}, u \in {None, "u"} :
        Session!Becomes(t, u, r) /\ (u # None => t # None)
  <2>1. /\ "console" \in Session!Gated \cup {"signin"} /\ route \in Session!Gated \cup {"signin"}
    BY DEF SessionTypes, Session!Gated
  <2>2. QED
    BY <1>3, <2>1 DEF Session!fetchProfileAnswers
<1>5. t \in {None, 0, 1}
  BY DEF SessionTypes
<1>6. /\ token' = t /\ user' = u /\ route' = r
      /\ gate' \in Session!GateQueries /\ completedLocally' \in BOOLEAN /\ WhoFacts'
  BY <1>4, <1>5, BecomesKeeps
<1>7. NoneOut' /\ requests' \in [Session!Kinds -> Session!Outcomes]
  BY <1>1, <1>2, Answered
<1>8. signing' = "idle" /\ ~signedOut'
  BY <1>2, <1>3 DEF SessionTypes
<1>9. SessionTypes'
  BY <1>2, <1>5, <1>6, <1>7, <1>8 DEF SessionTypes
<1>10. OutFacts'
  BY <1>7, <1>8, OutNone
<1>11. QED
  BY <1>6, <1>9, <1>10

LEMMA tickStep ==
    ASSUME SessionTypes, WhoFacts, OutFacts, Session!tickAnswers
    PROVE  SessionTypes' /\ WhoFacts' /\ OutFacts'
<1>1. Session!Out("tick") /\ "tick" \in Session!Kinds
  BY KindsOfRequests DEF Session!tickAnswers, Session!Out
<1>2. Session!Put("tick", "none") /\ UNCHANGED <<authLoading, signing, mode, config, open, done, signedOut>>
  BY DEF Session!tickAnswers, Session!form, Session!server
<1>3. ~signedOut /\ signing = "idle" /\ route \in Session!Gated \cup {"signin"} /\ user \in {None, "u"}
  BY <1>1, KindsOfRequests DEF OutFacts, SessionTypes
<1>4. PICK t \in {None, Session!NewToken}, u \in {None, user} :
        Session!Becomes(t, u, route) /\ (u # None => t # None)
  BY NewTokens DEF Session!tickAnswers
<1>5. t \in {None, 0, 1} /\ u \in {None, "u"}
  BY <1>3, NewTokens
<1>6. /\ token' = t /\ user' = u /\ route' = route
      /\ gate' \in Session!GateQueries /\ completedLocally' \in BOOLEAN /\ WhoFacts'
  BY <1>3, <1>4, <1>5, BecomesKeeps
<1>7. NoneOut' /\ requests' \in [Session!Kinds -> Session!Outcomes]
  BY <1>1, <1>2, Answered
<1>8. SessionTypes'
  BY <1>2, <1>5, <1>6, <1>7 DEF SessionTypes
<1>9. OutFacts'
  BY <1>2, <1>3, <1>7, OutNone
<1>10. QED
  BY <1>6, <1>8, <1>9

LEMMA signOutStep ==
    ASSUME SessionTypes, WhoFacts, OutFacts, Session!signOutAnswers
    PROVE  SessionTypes' /\ WhoFacts' /\ OutFacts'
<1>1. Session!Out("logout") /\ "logout" \in Session!Kinds
  BY KindsOfRequests DEF Session!signOutAnswers, Session!Out
<1>2. Session!Put("logout", "none") /\ UNCHANGED <<authLoading, signing, mode, config, open, done>>
  BY DEF Session!signOutAnswers, Session!form, Session!server
<1>3. ~signedOut /\ signing = "idle" /\ route \in Session!Gated \cup {"signin"}
  BY <1>1, KindsOfRequests DEF OutFacts, SessionTypes
<1>4. NoneOut' /\ requests' \in [Session!Kinds -> Session!Outcomes]
  BY <1>1, <1>2, Answered
<1>5. CASE requests.logout = "ok"
  <2>1. Session!Becomes(None, None, route) /\ signedOut' = TRUE
    BY <1>5 DEF Session!signOutAnswers
  <2>2. /\ token' = None /\ user' = None /\ route' = route
        /\ gate' \in Session!GateQueries /\ completedLocally' \in BOOLEAN /\ WhoFacts'
    BY <1>3, <2>1, BecomesKeeps
  <2>3. SessionTypes'
    BY <1>2, <1>4, <2>1, <2>2 DEF SessionTypes
  <2>4. QED
    BY <1>2, <1>3, <1>4, <2>2, <2>3, OutNone
<1>6. CASE requests.logout # "ok"
  <2>1. UNCHANGED <<token, user, route, gate, completedLocally, signedOut>>
    BY <1>6 DEF Session!signOutAnswers, Session!shell
  <2>2. SessionTypes'
    BY <1>2, <1>4, <2>1 DEF SessionTypes
  <2>3. WhoFacts'
    BY <2>1 DEF WhoFacts, Session!Enabled
  <2>4. QED
    BY <1>2, <1>3, <1>4, <2>1, <2>2, <2>3, OutNone
<1>7. QED
  BY <1>5, <1>6

\* What the user and the timer ask for while nothing is out.
LEMMA AskSteps ==
    ASSUME SessionTypes, WhoFacts, OutFacts,
           Session!refreshProfile \/ Session!Tick \/ Session!signOut
    PROVE  SessionTypes' /\ WhoFacts' /\ OutFacts'
<1>1. PICK k \in {"profile", "tick", "logout"} : Session!Put(k, "sent")
  BY DEF Session!refreshProfile, Session!Tick, Session!signOut
<1>2. /\ Session!Quiet /\ token # None /\ authLoading' \in BOOLEAN
      /\ UNCHANGED <<token, user, signing, mode, config, route, gate, completedLocally, open, done, signedOut>>
  BY Visible DEF Session!refreshProfile, Session!Tick, Session!signOut, SessionTypes,
     Session!form, Session!shell, Session!server, Session!auth
<1>3. /\ k \in Session!Kinds /\ OnlyOut(k)' /\ Session!Out(k)'
      /\ requests' \in [Session!Kinds -> Session!Outcomes]
  BY <1>1, <1>2, SentAlone, KindsOfRequests
<1>4. signing = "idle" /\ ~signedOut
  BY <1>2, KindsOfRequests DEF SessionTypes, OutFacts, Session!Quiet
<1>5. SessionTypes'
  BY <1>2, <1>3 DEF SessionTypes
<1>6. WhoFacts'
  BY <1>2 DEF WhoFacts, Session!Enabled
<1>7. OutFacts'
  BY <1>1, <1>2, <1>3, <1>4, OutAlone
<1>8. QED
  BY <1>5, <1>6, <1>7

\* The sign-in page.
LEMMA FormSteps ==
    ASSUME SessionTypes, WhoFacts, OutFacts,
           Session!ReadConfig \/ Session!switchMode \/ Session!handleSubmit
    PROVE  SessionTypes' /\ WhoFacts' /\ OutFacts'
<1>1. CASE Session!ReadConfig \/ Session!switchMode
  <2>1. /\ UNCHANGED <<token, user, authLoading, requests, signing, route, gate, completedLocally,
                       open, done, signedOut>>
        /\ config' \in BOOLEAN \cup {None} /\ mode' \in {"login", "register"}
    BY <1>1 DEF Session!ReadConfig, Session!switchMode, Session!auth, Session!shell, Session!server, SessionTypes
  <2>2. SessionTypes' /\ WhoFacts'
    BY <2>1 DEF SessionTypes, WhoFacts, Session!Enabled
  <2>3. QED
    BY <2>1, <2>2, OutSame, SameOut
<1>2. CASE Session!handleSubmit
  <2>1. /\ Session!Quiet /\ route = "signin" /\ signing' = mode /\ Session!Put(mode, "sent")
        /\ signedOut' = FALSE
        /\ UNCHANGED <<token, user, authLoading, mode, config, route, gate, completedLocally, open, done>>
    BY <1>2 DEF Session!handleSubmit, Session!auth, Session!shell, Session!server
  <2>2. mode \in {"login", "register"} /\ mode \in Session!Kinds
    BY KindsOfRequests DEF SessionTypes
  <2>3. OnlyOut(mode)' /\ Session!Out(mode)' /\ requests' \in [Session!Kinds -> Session!Outcomes]
    <3>1. PICK k \in Session!Kinds : k = mode
      BY <2>2
    <3>2. OnlyOut(k)' /\ Session!Out(k)' /\ requests' \in [Session!Kinds -> Session!Outcomes]
      BY <2>1, <3>1, SentAlone
    <3>3. mode' = k
      BY <2>1, <3>1
    <3>4. QED
      BY <3>1, <3>2, <3>3 DEF OnlyOut, Session!Out
  <2>4. SessionTypes'
    BY <2>1, <2>2, <2>3 DEF SessionTypes
  <2>5. WhoFacts'
    BY <2>1 DEF WhoFacts, Session!Enabled
  <2>6. OutFacts'
    <3>1. PICK k \in {"login", "register"} : k = mode
      BY <2>2
    <3>2. OnlyOut(k)' /\ Session!Out(k)' /\ k \in Session!Kinds /\ mode' = k
      BY <2>1, <2>2, <2>3, <3>1 DEF OnlyOut, Session!Out
    <3>3. QED
      BY <2>1, <3>1, <3>2, OutAlone
  <2>7. QED
    BY <2>4, <2>5, <2>6
<1>3. QED
  BY <1>1, <1>2

LEMMA registerStep ==
    ASSUME SessionTypes, WhoFacts, OutFacts, Session!registerAnswers
    PROVE  SessionTypes' /\ WhoFacts' /\ OutFacts'
<1>1. Session!Out("register") /\ "register" \in Session!Kinds /\ "login" \in Session!Kinds
  BY KindsOfRequests DEF Session!registerAnswers, Session!Out
<1>2. UNCHANGED <<token, user, authLoading, mode, config, route, gate, completedLocally, open, done, signedOut>>
  BY DEF Session!registerAnswers, Session!auth, Session!shell, Session!server
<1>3. route = "signin" /\ ~signedOut
  BY <1>1 DEF OutFacts
<1>4. WhoFacts'
  BY <1>2 DEF WhoFacts, Session!Enabled
<1>5. CASE requests.register = "ok"
  <2>1. signing' = "login" /\ requests' = [requests EXCEPT !["register"] = "none", !["login"] = "sent"]
    BY <1>5 DEF Session!registerAnswers
  <2>2. OnlyOut("login")' /\ Session!Out("login")' /\ requests' \in [Session!Kinds -> Session!Outcomes]
    BY <1>1, <2>1, ChainedTo
  <2>3. SessionTypes'
    BY <1>2, <2>1, <2>2, SMTT(30) DEF SessionTypes
  <2>4. QED
    BY <1>1, <1>2, <1>3, <1>4, <2>1, <2>2, <2>3, OutAlone
<1>6. CASE requests.register # "ok"
  <2>1. signing' = "idle" /\ Session!Put("register", "none")
    BY <1>6 DEF Session!registerAnswers
  <2>2. NoneOut' /\ requests' \in [Session!Kinds -> Session!Outcomes]
    BY <1>1, <2>1, Answered
  <2>3. SessionTypes'
    BY <1>2, <2>1, <2>2, SMTT(30) DEF SessionTypes
  <2>4. QED
    BY <1>2, <1>3, <1>4, <2>1, <2>2, <2>3, OutNone
<1>7. QED
  BY <1>5, <1>6

LEMMA signInStep ==
    ASSUME SessionTypes, WhoFacts, OutFacts, Session!signInAnswers
    PROVE  SessionTypes' /\ WhoFacts' /\ OutFacts'
<1>1. Session!Out("login") /\ "profile" \in Session!Kinds /\ "login" \in Session!Kinds
  BY KindsOfRequests DEF Session!signInAnswers, Session!Out
<1>2. UNCHANGED <<mode, config, open, done, signedOut>>
  BY DEF Session!signInAnswers, Session!server
<1>3. route = "signin" /\ ~signedOut /\ user \in {None, "u"} /\ route \in Session!Gated \cup {"signin"}
  BY <1>1 DEF OutFacts, SessionTypes
<1>4. CASE requests.login = "ok"
  <2>1. /\ signing' = "profile" /\ authLoading' = TRUE /\ Session!Becomes(Session!NewToken, user, route)
        /\ requests' = [requests EXCEPT !["login"] = "none", !["profile"] = "sent"]
    BY <1>4 DEF Session!signInAnswers
  <2>2. OnlyOut("profile")' /\ Session!Out("profile")' /\ requests' \in [Session!Kinds -> Session!Outcomes]
    BY <1>1, <2>1, ChainedTo
  <2>3. /\ token' = Session!NewToken /\ user' = user /\ route' = route
        /\ gate' \in Session!GateQueries /\ completedLocally' \in BOOLEAN /\ WhoFacts'
    BY <1>3, <2>1, NewTokens, BecomesKeeps
  <2>4. SessionTypes'
    BY <1>2, <1>3, <2>1, <2>2, <2>3, NewTokens DEF SessionTypes
  <2>5. OutFacts'
    BY <1>1, <1>2, <1>3, <2>1, <2>2, <2>3, NewTokens, OutAlone
  <2>6. QED
    BY <2>3, <2>4, <2>5
<1>5. CASE requests.login # "ok"
  <2>1. /\ signing' = "idle" /\ Session!Put("login", "none")
        /\ UNCHANGED <<token, user, authLoading, route, gate, completedLocally>>
    BY <1>5 DEF Session!signInAnswers, Session!auth, Session!shell
  <2>2. NoneOut' /\ requests' \in [Session!Kinds -> Session!Outcomes]
    BY <1>1, <2>1, Answered
  <2>3. SessionTypes'
    BY <1>2, <2>1, <2>2, SMTT(30) DEF SessionTypes
  <2>4. WhoFacts'
    BY <2>1 DEF WhoFacts, Session!Enabled
  <2>5. QED
    BY <1>2, <1>3, <2>1, <2>2, <2>3, <2>4, OutNone
<1>6. QED
  BY <1>4, <1>5

LEMMA SessionStep == Session!SessionInv /\ [Session!Next]_(Session!vars) => Session!SessionInv'
<1> SUFFICES ASSUME Session!SessionInv, [Session!Next]_(Session!vars) PROVE Session!SessionInv'
  OBVIOUS
<1>1. SessionTypes /\ WhoFacts /\ OutFacts
  BY SessionParts
<1>2. CASE Session!Next
  <2>1. SessionTypes' /\ WhoFacts' /\ OutFacts'
    BY <1>1, <1>2, GateSteps, ReloadStep, ServerAnswersStep, bootStep, profileStep, tickStep,
       signOutStep, AskSteps, FormSteps, registerStep, signInStep DEF Session!Next
  <2>2. QED
    BY <2>1, SessionPartsNext
<1>3. CASE UNCHANGED Session!vars
  <2>1. UNCHANGED <<token, user, authLoading, requests, signing, mode, config, route, gate,
                    completedLocally, open, done, signedOut>>
    BY <1>3 DEF Session!vars, Session!auth, Session!form, Session!shell, Session!server
  <2>2. SessionTypes' /\ WhoFacts'
    BY <1>1, <2>1 DEF SessionTypes, WhoFacts, Session!Enabled
  <2>3. OutFacts'
    BY <1>1, <2>1, OutSame, SameOut
  <2>4. QED
    BY <2>2, <2>3, SessionPartsNext
<1>4. QED
  BY <1>2, <1>3

LEMMA SessionStart == Session!Init => Session!SessionInv
<1> SUFFICES ASSUME Session!Init PROVE Session!SessionInv
  OBVIOUS
<1>1. /\ token = None /\ user = None /\ authLoading = TRUE /\ requests = Session!Restoring
      /\ signing = "idle" /\ mode = "login" /\ config = None
      /\ gate = Session!NewQuery /\ completedLocally = FALSE /\ signedOut = FALSE
      /\ route \in Session!Gated \cup {"signin"} /\ open \in BOOLEAN /\ done \in BOOLEAN
  BY DEF Session!Init
<1>2. requests \in [Session!Kinds -> Session!Outcomes] /\ OnlyOut("boot")
  BY <1>1, KindsOfRequests DEF Session!Restoring, Session!NoRequests, OnlyOut, Session!Out
<1>3. SessionTypes
  BY <1>1, <1>2, QuerySteps DEF SessionTypes
<1>4. WhoFacts
  BY <1>1, QuerySteps DEF WhoFacts
<1>5. OutFacts
  BY <1>1, <1>2, KindsOfRequests DEF OutFacts, OnlyOut
<1>6. QED
  BY <1>3, <1>4, <1>5, SessionParts

LEMMA SessionMeans ==
    Session!SessionInv => /\ Session!TypeOK /\ Session!SignedOutStays /\ Session!PageHasToken
                          /\ Session!NoBounce
<1>1. Session!SessionInv => Session!TypeOK /\ Session!SignedOutStays
  BY DEF Session!SessionInv, Session!SignedOutStays
<1>2. Session!SessionInv => Session!PageHasToken
  BY DEF Session!SessionInv, Session!PageHasToken, Session!Showing
<1>3. Session!NoBounce
  BY DEF Session!NoBounce, Session!redirectingToSetup, Session!status
<1>4. QED
  BY <1>1, <1>2, <1>3

\* A page on screen stays there under a new token: the gate asks again with what
\* it knew kept.
LEMMA PageStaysUnderToken ==
    ASSUME SessionTypes, WhoFacts, Session!Showing, gate.data # None, NEW t \in {0, 1},
           Session!Becomes(t, user, route)
    PROVE  Session!Showing'
<1>1. route \in Session!Gated /\ user # None /\ ~Session!Blocked /\ token # None
  BY DEF Session!Showing, WhoFacts
<1>2. /\ token' = t /\ user' = user /\ route' = route /\ gate' = Session!GateAfter(t, user, route)
      /\ completedLocally' = completedLocally
  BY <1>1 DEF Session!Becomes, SessionTypes
<1>3. gate'.data = gate.data /\ gate \in Session!GateQueries
  <2>1. t # None
    BY NewTokens
  <2>2. Session!Enabled(t, user, route) /\ Session!Enabled(token, user, route)
    BY <1>1, <2>1 DEF Session!Enabled
  <2>3. gate' \in {gate, Session!Ask(gate)}
    BY <1>2, <2>2 DEF Session!GateAfter
  <2>4. QED
    BY <2>3, QuerySteps DEF SessionTypes
<1>4. Session!status' = Session!status
  BY <1>2, <1>3 DEF Session!status
<1>5. Session!status # None
  BY NoneAssumption DEF Session!status
<1>6. Session!Exempt' = Session!Exempt
  BY <1>2 DEF Session!Exempt, Session!EXEMPT_PREFIXES
<1>7. ~Session!checkingStatus'
  BY <1>4, <1>5 DEF Session!checkingStatus
<1>8. Session!redirectingToSetup' <=> Session!redirectingToSetup
  BY <1>4, <1>6 DEF Session!redirectingToSetup
<1>9. ~Session!Blocked'
  BY <1>1, <1>2, <1>6, <1>7, <1>8 DEF Session!Blocked
<1>10. QED
  BY <1>1, <1>2, <1>9 DEF Session!Showing, Session!Gated

LEMMA PageStaysStep ==
    Session!SessionInv /\ [Session!Next]_(Session!vars) => Session!PageStaysStep
<1> SUFFICES ASSUME Session!SessionInv, [Session!Next]_(Session!vars), Session!Showing,
                    token' # None, token' # token, gate.data # None
             PROVE  Session!Showing'
  BY DEF Session!PageStaysStep
<1>1. SessionTypes /\ WhoFacts /\ OutFacts
  BY SessionParts
<1>2. ~Session!Out("boot") /\ ~Session!Out("login")
  BY <1>1, Visible DEF OutFacts
<1>3. token' # token => Session!Next
  BY DEF Session!vars, Session!auth
<1>4. /\ ~Session!bootAnswers /\ ~(Session!signInAnswers /\ requests.login = "ok")
  BY <1>2 DEF Session!bootAnswers, Session!signInAnswers, Session!Out
<1>5. \E t \in {0, 1} : Session!Becomes(t, user, route)
  <2>1. Session!tickAnswers => Session!Becomes(Session!NewToken, user, route) \/ token' = None
    BY DEF Session!tickAnswers, Session!Becomes
  <2>2. \/ Session!tickAnswers
        \/ token' = None \/ token' = token
    <3>1. \/ Session!ServeStatus \/ Session!StatusAnswers \/ Session!markComplete \/ Session!Revoked
          \/ Session!refreshProfile \/ Session!Tick \/ Session!signOut \/ Session!ReadConfig
          \/ Session!switchMode \/ Session!handleSubmit \/ Session!registerAnswers
          \/ (\E k \in Session!Kinds : Session!ServerAnswers(k))
          => token' = token
      BY DEF Session!ServeStatus, Session!StatusAnswers, Session!markComplete, Session!Revoked,
         Session!refreshProfile, Session!Tick, Session!signOut, Session!ReadConfig,
         Session!switchMode, Session!handleSubmit, Session!registerAnswers, Session!ServerAnswers,
         Session!auth
    <3>2. \/ Session!RedirectToSetup \/ Session!SendAway \/ Session!Reload
          \/ (\E r \in {"console", "settings"} : Session!FollowLink(r))
          \/ Session!fetchProfileAnswers \/ Session!signOutAnswers
          => token' \in {None, token}
      BY DEF Session!RedirectToSetup, Session!SendAway, Session!Reload, Session!FollowLink,
         Session!fetchProfileAnswers, Session!signOutAnswers, Session!Becomes
    <3>3. Session!signInAnswers => token' = token
      BY <1>4 DEF Session!signInAnswers, Session!auth
    <3>4. QED
      BY <1>3, <1>4, <3>1, <3>2, <3>3 DEF Session!Next
  <2>3. QED
    BY <2>1, <2>2, NewTokens
<1>6. QED
  BY <1>1, <1>5, PageStaysUnderToken

--------------------------------------------------------------------------------
(* The catalogs: what the entries E and the requests F of the store keep,    *)
(* under the last request n, the version v of the connections, the versions  *)
(* T announced and the users S signed in                                     *)

StoreTypes(E, F, n, v, T) ==
    /\ v \in 1 .. MaxVersion /\ n \in 0 .. MaxFlights
    /\ E \in [Keys -> Catalogs!Entries] /\ F \in SUBSET Catalogs!Requests
    /\ T \in [Keys -> 0 .. MaxVersion]

Publishes(e, f) == e.here /\ e.identity = f.identity /\ e.generation = f.generation

\* A request that may publish is the one its entry e waits for.
RequestFits(e, n, v, t, s, f) ==
    /\ f.id <= n /\ f.low <= v /\ f.identity <= e.identity
    /\ e.here /\ f.identity = e.identity => f.generation <= e.generation
    /\ Publishes(e, f) => e.request = f.id /\ t <= f.low /\ s

EntryFits(e, v, t, s) ==
    /\ e.here \/ e.snapshot = Catalogs!EmptySnapshot
    /\ t <= v
    /\ e.snapshot.data # Catalogs!NoData /\ ~e.snapshot.loading /\ ~e.snapshot.error
          /\ ~e.snapshot.invalidated => e.snapshot.data.ver >= t
    /\ s \/ e.snapshot.data = Catalogs!NoData

WaitsFor(e, F, k) == e.request # 0 => \E f \in F : f.key = k /\ f.id = e.request /\ Publishes(e, f)

Distinct(F) == \A f, g \in F : f.id = g.id => f = g

\* All of it about one key: its entry e and the requests F for it.
KeyFits(e, F, n, v, t, s, k) ==
    /\ \A f \in F : f.key = k => RequestFits(e, n, v, t, s, f)
    /\ EntryFits(e, v, t, s) /\ WaitsFor(e, F, k)

StoreFits(E, F, n, v, T, S) ==
    /\ StoreTypes(E, F, n, v, T) /\ Distinct(F)
    /\ \A k \in Keys : KeyFits(E[k], F, n, v, T[k], UserOf[k] \in S, k)

Watched(k) == \E h \in catalogsMounted : KeyOf[h] = k

Watching ==
    /\ timers \subseteq Keys /\ catalogsMounted \subseteq Hooks /\ signedIn \subseteq Users
    /\ deadlines \in [Keys -> {"none", "open", "past"}]
    /\ \A k \in Keys :
         /\ Watched(k) => entries[k].here /\ (entries[k].snapshot.loading => entries[k].request # 0)
         /\ (deadlines[k] = "open" => UserOf[k] \in signedIn) /\ (k \in timers => UserOf[k] \in signedIn)
         /\ k \in timers => Watched(k)

CatalogsFit == StoreFits(entries, catalogsFlights, catalogsSent, version, told, signedIn) /\ Watching

LEMMA ListenersWatch == \A k : Catalogs!Listeners(k) # {} <=> Watched(k)
BY DEF Catalogs!Listeners, Watched

LEMMA CatalogsParts == Catalogs!CatalogsInv <=> CatalogsFit
<1>1. Catalogs!CatalogsInv => CatalogsFit
  <2> SUFFICES ASSUME Catalogs!CatalogsInv PROVE CatalogsFit
    OBVIOUS
  <2>1. StoreTypes(entries, catalogsFlights, catalogsSent, version, told) /\ Distinct(catalogsFlights)
    BY DEF Catalogs!CatalogsInv, StoreTypes, Distinct
  <2>2. ASSUME NEW k \in Keys
        PROVE  KeyFits(entries[k], catalogsFlights, catalogsSent, version, told[k], UserOf[k] \in signedIn, k)
    <3>1. \A f \in catalogsFlights : f.key = k =>
              RequestFits(entries[k], catalogsSent, version, told[k], UserOf[k] \in signedIn, f)
      BY DEF Catalogs!CatalogsInv, RequestFits, Publishes, Catalogs!Current
    <3>2. EntryFits(entries[k], version, told[k], UserOf[k] \in signedIn)
      BY DEF Catalogs!CatalogsInv, EntryFits, Catalogs!NoStaleCatalog, Catalogs!ForgottenAtSignOut
    <3>3. WaitsFor(entries[k], catalogsFlights, k)
      BY DEF Catalogs!CatalogsInv, WaitsFor, Publishes, Catalogs!Current
    <3>4. QED
      BY <3>1, <3>2, <3>3 DEF KeyFits
  <2>3. Watching
    BY ListenersWatch DEF Catalogs!CatalogsInv, Watching, Catalogs!PollsOnlyWatched
  <2>4. QED
    BY <2>1, <2>2, <2>3 DEF CatalogsFit, StoreFits
<1>2. CatalogsFit => Catalogs!CatalogsInv
  <2> SUFFICES ASSUME CatalogsFit PROVE Catalogs!CatalogsInv
    OBVIOUS
  <2>0. /\ StoreTypes(entries, catalogsFlights, catalogsSent, version, told) /\ Distinct(catalogsFlights)
        /\ \A k \in Keys : KeyFits(entries[k], catalogsFlights, catalogsSent, version, told[k], UserOf[k] \in signedIn, k)
        /\ Watching
    BY DEF CatalogsFit, StoreFits
  <2>1. \A f \in catalogsFlights :
         /\ f.id <= catalogsSent /\ f.low <= version /\ f.identity <= entries[f.key].identity
         /\ entries[f.key].here /\ f.identity = entries[f.key].identity =>
                f.generation <= entries[f.key].generation
         /\ Catalogs!Current(f) => /\ entries[f.key].request = f.id /\ told[f.key] <= f.low
                                   /\ UserOf[f.key] \in signedIn
    <3> TAKE f \in catalogsFlights
    <3>1. f.key \in Keys
      BY <2>0 DEF StoreTypes, Catalogs!Requests
    <3>2. RequestFits(entries[f.key], catalogsSent, version, told[f.key], UserOf[f.key] \in signedIn, f)
      BY <2>0, <3>1 DEF KeyFits
    <3>3. QED
      BY <3>2 DEF RequestFits, Publishes, Catalogs!Current
  <2>2. \A k \in Keys : entries[k].request # 0 =>
                \E f \in catalogsFlights : f.key = k /\ f.id = entries[k].request /\ Catalogs!Current(f)
    BY <2>0 DEF KeyFits, WaitsFor, Publishes, Catalogs!Current
  <2>3. \A k \in Keys :
         /\ entries[k].here \/ entries[k].snapshot = Catalogs!EmptySnapshot
         /\ told[k] <= version
    BY <2>0 DEF KeyFits, EntryFits
  <2>4. Catalogs!NoStaleCatalog /\ Catalogs!ForgottenAtSignOut
    BY <2>0 DEF KeyFits, EntryFits, Catalogs!NoStaleCatalog, Catalogs!ForgottenAtSignOut
  <2>5. QED
    BY <2>0, <2>1, <2>2, <2>3, <2>4, ListenersWatch
       DEF Watching, StoreTypes, Distinct, Catalogs!CatalogsInv, Catalogs!PollsOnlyWatched
<1>3. QED
  BY <1>1, <1>2

LEMMA CatalogsFinite == Catalogs!IsFiniteSet(Keys)
BY CatalogsAssumption DEF IsFiniteSet, Catalogs!IsFiniteSet

\* An entry as it is made, and one whose request is sent.
Made(i) == [Catalogs!Absent(i) EXCEPT !.here = TRUE]
Asked(x, i) == [x EXCEPT !.request = i, !.snapshot.loading = TRUE,
                         !.snapshot.error = FALSE, !.snapshot.invalidated = FALSE]

LEMMA MadeFields ==
    ASSUME NEW i \in Nat, Catalogs!EmptySnapshot \in Catalogs!Snapshots
    PROVE  /\ Made(i) \in Catalogs!Entries /\ Made(i).here
           /\ Made(i).snapshot = Catalogs!EmptySnapshot
           /\ Made(i).identity = i /\ Made(i).request = 0 /\ Made(i).generation = 0
<1> DEFINE a == Catalogs!Absent(i)
<1>1. /\ a \in Catalogs!Entries /\ a.identity = i /\ a.request = 0 /\ a.generation = 0
      /\ a.snapshot = Catalogs!EmptySnapshot
  BY CatalogsAssumption DEF Catalogs!Absent, Catalogs!Entries
<1>2. Made(i) = [a EXCEPT !.here = TRUE]
  BY DEF Made
<1> HIDE DEF a
<1>3. QED
  BY <1>1, <1>2 DEF Catalogs!Entries

LEMMA AskedFields ==
    ASSUME NEW x \in Catalogs!Entries, NEW i \in 0 .. MaxFlights
    PROVE  /\ Asked(x, i) \in Catalogs!Entries /\ (Asked(x, i).here <=> x.here)
           /\ Asked(x, i).request = i /\ Asked(x, i).snapshot.loading
           /\ Asked(x, i).identity = x.identity /\ Asked(x, i).generation = x.generation
           /\ Asked(x, i).snapshot.data = x.snapshot.data
<1> DEFINE a == [x EXCEPT !.request = i]
           b == [a EXCEPT !.snapshot = [a.snapshot EXCEPT !.loading = TRUE]]
           c == [b EXCEPT !.snapshot = [b.snapshot EXCEPT !.error = FALSE]]
           d == [c EXCEPT !.snapshot = [c.snapshot EXCEPT !.invalidated = FALSE]]
<1>1. /\ a \in Catalogs!Entries /\ (a.here <=> x.here) /\ a.request = i
      /\ a.identity = x.identity /\ a.generation = x.generation /\ a.snapshot = x.snapshot
  BY DEF Catalogs!Entries
<1> HIDE DEF a
<1>2. /\ b \in Catalogs!Entries /\ (b.here <=> x.here) /\ b.request = i /\ b.snapshot.loading
      /\ b.identity = x.identity /\ b.generation = x.generation /\ b.snapshot.data = x.snapshot.data
  BY <1>1 DEF Catalogs!Entries, Catalogs!Snapshots
<1> HIDE DEF b
<1>3. /\ c \in Catalogs!Entries /\ (c.here <=> x.here) /\ c.request = i /\ c.snapshot.loading
      /\ c.identity = x.identity /\ c.generation = x.generation /\ c.snapshot.data = x.snapshot.data
  BY <1>2 DEF Catalogs!Entries, Catalogs!Snapshots
<1> HIDE DEF c
<1>4. /\ d \in Catalogs!Entries /\ (d.here <=> x.here) /\ d.request = i /\ d.snapshot.loading
      /\ d.identity = x.identity /\ d.generation = x.generation /\ d.snapshot.data = x.snapshot.data
  BY <1>3 DEF Catalogs!Entries, Catalogs!Snapshots
<1>5. d = Asked(x, i)
  BY DEF a, b, c, d, Asked
<1>6. QED
  BY <1>4, <1>5

\* An entry that is made has a new identity: no request on its way is for it.
LEMMA EntryMade ==
    ASSUME NEW E, NEW F, NEW n, NEW v, NEW T, NEW S, NEW k \in Keys, StoreFits(E, F, n, v, T, S)
    PROVE  /\ StoreFits(Catalogs!Entry(E, k), F, n, v, T, S) /\ Catalogs!Entry(E, k)[k].here
           /\ E[k].here => Catalogs!Entry(E, k) = E
           /\ ~E[k].here => Catalogs!Entry(E, k)[k].snapshot = Catalogs!EmptySnapshot
           /\ \A j \in Keys \ {k} : Catalogs!Entry(E, k)[j] = E[j]
<1> DEFINE e == Made(E[k].identity + 1)
<1>0. StoreTypes(E, F, n, v, T) /\ Distinct(F) /\ E \in [Keys -> Catalogs!Entries]
      /\ \A j \in Keys : KeyFits(E[j], F, n, v, T[j], UserOf[j] \in S, j)
  BY DEF StoreFits, StoreTypes
<1>1. CASE E[k].here
  BY <1>1 DEF Catalogs!Entry
<1>2. CASE ~E[k].here
  <2>1. Catalogs!Entry(E, k) = [E EXCEPT ![k] = e]
    BY <1>2 DEF Catalogs!Entry, Made
  <2>3. E[k] \in Catalogs!Entries /\ E[k].identity \in Nat
    BY <1>0 DEF Catalogs!Entries
  <2>4. Catalogs!EmptySnapshot \in Catalogs!Snapshots /\ Catalogs!EmptySnapshot.data = Catalogs!NoData
    BY CatalogsAssumption DEF Catalogs!EmptySnapshot, Catalogs!Snapshots, Catalogs!NoData
  <2>5. e \in Catalogs!Entries /\ e.here /\ e.snapshot = Catalogs!EmptySnapshot
        /\ e.identity = E[k].identity + 1 /\ e.request = 0 /\ e.generation = 0
    BY <2>3, <2>4, MadeFields
  <2> HIDE DEF e
  <2>6. KeyFits(e, F, n, v, T[k], UserOf[k] \in S, k)
    <3>1. ASSUME NEW f \in F, f.key = k PROVE RequestFits(e, n, v, T[k], UserOf[k] \in S, f)
      <4>1. RequestFits(E[k], n, v, T[k], UserOf[k] \in S, f)
        BY <1>0, <3>1 DEF KeyFits
      <4>2. f.identity \in Nat
        BY <1>0 DEF StoreTypes, Catalogs!Requests
      <4>3. QED
        BY <4>1, <4>2, <2>3, <2>5 DEF RequestFits, Publishes
    <3>2. EntryFits(e, v, T[k], UserOf[k] \in S)
      <4>1. T[k] <= v
        BY <1>0 DEF KeyFits, EntryFits
      <4>2. QED
        BY <4>1, <2>4, <2>5 DEF EntryFits
    <3>3. QED
      BY <3>1, <3>2, <2>5 DEF KeyFits, WaitsFor
  <2>7. Catalogs!Entry(E, k) \in [Keys -> Catalogs!Entries] /\ Catalogs!Entry(E, k)[k] = e
        /\ \A j \in Keys \ {k} : Catalogs!Entry(E, k)[j] = E[j]
    BY <1>0, <2>1, <2>5
  <2>8. StoreTypes(Catalogs!Entry(E, k), F, n, v, T)
    BY <1>0, <2>7 DEF StoreTypes
  <2>9. QED
    BY <1>0, <1>2, <2>5, <2>6, <2>7, <2>8 DEF StoreFits
<1>3. QED
  BY <1>1, <1>2

\* A request that is sent is the one its entry waits for.
LEMMA RequestsSent ==
    ASSUME NEW E, NEW F, NEW n, NEW v, NEW T, NEW S, NEW K \in SUBSET Keys, NEW low \in 1 .. v,
           StoreFits(E, F, n, v, T, S),
           \A k \in K : E[k].here /\ T[k] <= low /\ UserOf[k] \in S,
           n + Catalogs!Cardinality(Catalogs!NeedsFlight(E, K)) <= MaxFlights,
           NEW ids \in [Catalogs!NeedsFlight(E, K) ->
                          n + 1 .. n + Catalogs!Cardinality(Catalogs!NeedsFlight(E, K))],
           \A j, k \in Catalogs!NeedsFlight(E, K) : ids[j] = ids[k] => j = k
    PROVE  /\ StoreFits(Catalogs!Started(E, K, ids),
                F \cup {[id |-> ids[k], key |-> k, identity |-> E[k].identity,
                         generation |-> E[k].generation, low |-> low] :
                            k \in Catalogs!NeedsFlight(E, K)},
                n + Catalogs!Cardinality(Catalogs!NeedsFlight(E, K)), v, T, S)
           /\ \A k \in K : Catalogs!Started(E, K, ids)[k].here /\ Catalogs!Started(E, K, ids)[k].request # 0
           /\ \A k \in Keys \ K : Catalogs!Started(E, K, ids)[k] = E[k]
<1> DEFINE new == Catalogs!NeedsFlight(E, K)
           m == n + Catalogs!Cardinality(new)
           R(k) == [id |-> ids[k], key |-> k, identity |-> E[k].identity,
                    generation |-> E[k].generation, low |-> low]
           G == F \cup {R(k) : k \in new}
           N == Catalogs!Started(E, K, ids)
<1>0. /\ StoreTypes(E, F, n, v, T) /\ Distinct(F) /\ E \in [Keys -> Catalogs!Entries]
      /\ \A j \in Keys : KeyFits(E[j], F, n, v, T[j], UserOf[j] \in S, j)
      /\ v \in 1 .. MaxVersion /\ n \in 0 .. MaxFlights /\ F \in SUBSET Catalogs!Requests
  BY DEF StoreFits, StoreTypes
<1>1. /\ new \subseteq K /\ \A k \in K : k \in new <=> E[k].request = 0
      /\ Catalogs!IsFiniteSet(new) /\ Catalogs!Cardinality(new) \in Nat
  <2>1. new \subseteq K /\ \A k \in K : k \in new <=> E[k].request = 0
    BY DEF Catalogs!NeedsFlight
  <2>2. new \subseteq Keys /\ Catalogs!IsFiniteSet(Keys)
    BY <2>1, CatalogsFinite
  <2>3. QED
    BY <2>1, <2>2, Catalogs!FS_Subset, Catalogs!FS_CardinalityType
<1>2. m \in 0 .. MaxFlights /\ n <= m /\ \A k \in new : ids[k] \in 1 .. MaxFlights /\ ids[k] > n /\ ids[k] <= m
  BY <1>0, <1>1, CatalogsAssumption
<1>3. /\ N = [k \in Keys |-> N[k]]
      /\ \A k \in Keys \ new : N[k] = E[k]
      /\ \A k \in new : N[k] = Asked(E[k], ids[k])
  BY <1>1, ZenonT(60) DEF Catalogs!Started, Asked
<1>4. ASSUME NEW k \in new
      PROVE  /\ N[k] \in Catalogs!Entries /\ N[k].here /\ N[k].request = ids[k] /\ N[k].snapshot.loading
             /\ N[k].identity = E[k].identity /\ N[k].generation = E[k].generation
             /\ N[k].snapshot.data = E[k].snapshot.data
  <2>1. E[k] \in Catalogs!Entries /\ E[k].here
    BY <1>0, <1>1
  <2>2. ids[k] \in 0 .. MaxFlights
    BY <1>2
  <2> HIDE DEF N, new
  <2>3. N[k] = Asked(E[k], ids[k])
    BY <1>3
  <2>4. /\ Asked(E[k], ids[k]) \in Catalogs!Entries /\ (Asked(E[k], ids[k]).here <=> E[k].here)
        /\ Asked(E[k], ids[k]).request = ids[k] /\ Asked(E[k], ids[k]).snapshot.loading
        /\ Asked(E[k], ids[k]).identity = E[k].identity
        /\ Asked(E[k], ids[k]).generation = E[k].generation
        /\ Asked(E[k], ids[k]).snapshot.data = E[k].snapshot.data
    BY <2>1, <2>2, AskedFields
  <2>5. QED
    BY <2>1, <2>3, <2>4
<1>5. ASSUME NEW k \in new
      PROVE  /\ R(k) \in Catalogs!Requests /\ R(k).id = ids[k] /\ R(k).key = k /\ R(k).low = low
             /\ R(k).identity = E[k].identity /\ R(k).generation = E[k].generation
  <2>1. E[k] \in Catalogs!Entries /\ k \in Keys /\ ids[k] \in 1 .. MaxFlights /\ low \in 1 .. MaxVersion
    BY <1>0, <1>1, <1>2, CatalogsAssumption
  <2> HIDE DEF new
  <2>2. QED
    BY <2>1 DEF Catalogs!Entries, Catalogs!Requests
<1> HIDE DEF N, R, new, m
<1>6. StoreTypes(N, G, m, v, T)
  <2>1. N \in [Keys -> Catalogs!Entries]
    BY <1>0, <1>3, <1>4
  <2>2. G \in SUBSET Catalogs!Requests
    BY <1>0, <1>5
  <2>3. QED
    BY <1>0, <1>2, <2>1, <2>2 DEF StoreTypes
<1>7. Distinct(G)
  <2> SUFFICES ASSUME NEW f \in G, NEW g \in G, f.id = g.id PROVE f = g
    BY DEF Distinct
  <2>1. \A r \in F : r.id <= n /\ r.id \in Nat
    <3> TAKE r \in F
    <3>1. r.key \in Keys /\ r.id \in Nat
      BY <1>0 DEF Catalogs!Requests
    <3>2. QED
      BY <1>0, <3>1 DEF KeyFits, RequestFits
  <2>2. CASE f \in F /\ g \in F
    BY <1>0, <2>2 DEF Distinct
  <2>3. CASE \E j, k \in new : f = R(j) /\ g = R(k)
    BY <1>5, <2>3 DEF new
  <2>4. \A r \in F, k \in new : r.id # R(k).id
    BY <1>0, <1>2, <1>5, <2>1
  <2>5. QED
    BY <2>2, <2>3, <2>4
<1>8. ASSUME NEW k \in Keys PROVE KeyFits(N[k], G, m, v, T[k], UserOf[k] \in S, k)
  <2>0. KeyFits(E[k], F, n, v, T[k], UserOf[k] \in S, k)
    BY <1>0
  <2>1. ASSUME NEW f \in G, f.key = k PROVE RequestFits(N[k], m, v, T[k], UserOf[k] \in S, f)
    <3>1. CASE f \in F
      <4>1. RequestFits(E[k], n, v, T[k], UserOf[k] \in S, f) /\ f.id \in 1 .. MaxFlights
        BY <2>0, <2>1, <3>1, <1>0 DEF KeyFits, Catalogs!Requests
      <4>2. f.id <= m
        BY <4>1, <1>0, <1>2 DEF RequestFits
      <4>3. CASE k \in new
        <5>1. E[k].request # f.id
          BY <4>1, <4>3, <1>1
        <5>2. N[k].here /\ E[k].here /\ N[k].identity = E[k].identity /\ N[k].generation = E[k].generation
          BY <1>1, <1>4, <4>3
        <5>3. QED
          BY <4>1, <4>2, <5>1, <5>2 DEF RequestFits, Publishes
      <4>4. CASE k \notin new
        BY <4>1, <4>2, <4>4, <1>3 DEF RequestFits, Publishes
      <4>5. QED
        BY <4>3, <4>4
    <3>2. CASE \E j \in new : f = R(j)
      <4>1. k \in new /\ f = R(k)
        BY <2>1, <3>2, <1>5
      <4>2. E[k].identity \in Nat /\ E[k].generation \in Nat /\ T[k] <= low /\ UserOf[k] \in S
        BY <1>0, <1>1, <4>1 DEF Catalogs!Entries
      <4>3. QED
        BY <4>1, <4>2, <1>2, <1>4, <1>5 DEF RequestFits
    <3>3. QED
      BY <3>1, <3>2
  <2>2. EntryFits(N[k], v, T[k], UserOf[k] \in S)
    <3>1. EntryFits(E[k], v, T[k], UserOf[k] \in S)
      BY <2>0 DEF KeyFits
    <3>2. CASE k \in new
      BY <3>1, <3>2, <1>4 DEF EntryFits
    <3>3. CASE k \notin new
      BY <3>1, <3>3, <1>3
    <3>4. QED
      BY <3>2, <3>3
  <2>3. WaitsFor(N[k], G, k)
    <3>1. CASE k \in new
      <4>1. R(k) \in G /\ Publishes(N[k], R(k))
        BY <3>1, <1>4, <1>5 DEF Publishes
      <4>2. QED
        BY <3>1, <4>1, <1>4, <1>5 DEF WaitsFor
    <3>2. CASE k \notin new
      BY <3>2, <2>0, <1>3 DEF KeyFits, WaitsFor
    <3>3. QED
      BY <3>1, <3>2
  <2>4. QED
    BY <2>1, <2>2, <2>3 DEF KeyFits
<1>9. \A k \in K : N[k].here /\ N[k].request # 0
  <2> TAKE k \in K
  <2>1. k \in Keys /\ E[k].here
    OBVIOUS
  <2>2. CASE k \in new
    BY <2>2, <1>2, <1>4
  <2>3. CASE k \notin new
    BY <2>1, <2>3, <1>1, <1>3
  <2>4. QED
    BY <2>2, <2>3
<1>10. \A k \in Keys \ K : N[k] = E[k]
  BY <1>1, <1>3
<1>11. StoreFits(N, G, m, v, T, S)
  BY <1>6, <1>7, <1>8 DEF StoreFits
<1>12. QED
  BY <1>9, <1>10, <1>11 DEF N, G, R, m, new

LEMMA Revalidated ==
    ASSUME NEW E, NEW v, NEW T, NEW S, NEW K \in SUBSET Keys, NEW low \in 1 .. v,
           StoreFits(E, catalogsFlights, catalogsSent, v, T, S),
           \A k \in K : E[k].here /\ T[k] <= low /\ UserOf[k] \in S,
           Catalogs!Revalidate(E, K, low)
    PROVE  /\ StoreFits(entries', catalogsFlights', catalogsSent', v, T, S)
           /\ \A k \in K : entries'[k].here /\ entries'[k].request # 0
           /\ \A k \in Keys \ K : entries'[k] = E[k]
<1> DEFINE new == Catalogs!NeedsFlight(E, K)
<1>1. PICK ids \in [new -> catalogsSent + 1 .. catalogsSent + Catalogs!Cardinality(new)] :
         /\ \A j, k \in new : ids[j] = ids[k] => j = k
         /\ entries' = Catalogs!Started(E, K, ids)
         /\ catalogsFlights' = catalogsFlights \cup
              {[id |-> ids[k], key |-> k, identity |-> E[k].identity,
                generation |-> E[k].generation, low |-> low] : k \in new}
  BY DEF Catalogs!Revalidate
<1>2. catalogsSent + Catalogs!Cardinality(new) <= MaxFlights
      /\ catalogsSent' = catalogsSent + Catalogs!Cardinality(new)
  BY DEF Catalogs!Revalidate
<1>3. QED
  BY <1>1, <1>2, RequestsSent

\* What CatalogsFit says of the state before a step, in the parts its lemmas use.
LEMMA CatalogsKnown ==
    ASSUME CatalogsFit
    PROVE  /\ StoreFits(entries, catalogsFlights, catalogsSent, version, told, signedIn) /\ Watching
           /\ StoreTypes(entries, catalogsFlights, catalogsSent, version, told)
           /\ Distinct(catalogsFlights)
           /\ version \in 1 .. MaxVersion /\ version \in 1 .. version /\ version \in Nat
           /\ entries \in [Keys -> Catalogs!Entries]
           /\ \A k \in Keys : /\ KeyFits(entries[k], catalogsFlights, catalogsSent, version,
                                         told[k], UserOf[k] \in signedIn, k)
                              /\ told[k] <= version /\ told[k] \in Nat
BY CatalogsAssumption DEF CatalogsFit, StoreFits, StoreTypes, KeyFits, EntryFits

LEMMA MountFits == ASSUME CatalogsFit, NEW h \in Hooks, Catalogs!Mount(h) PROVE CatalogsFit'
<1> DEFINE k == KeyOf[h]
           E == Catalogs!Entry(entries, k)
<1>0. k \in Keys /\ UserOf[k] \in signedIn /\ Watching /\ h \in Hooks
  BY CatalogsAssumption, CatalogsKnown DEF Catalogs!Mount
<1>1. /\ StoreFits(E, catalogsFlights, catalogsSent, version, told, signedIn) /\ E[k].here
      /\ \A j \in Keys \ {k} : E[j] = entries[j]
  <2>1. StoreFits(entries, catalogsFlights, catalogsSent, version, told, signedIn)
    BY CatalogsKnown
  <2> HIDE DEF k
  <2>2. QED
    BY <1>0, <2>1, EntryMade
<1>2. Catalogs!Revalidate(E, {k}, version)
  BY DEF Catalogs!Mount
<1>3. /\ catalogsMounted' = catalogsMounted \cup {h} /\ deadlines' = [deadlines EXCEPT ![k] = "open"]
      /\ UNCHANGED <<version, timers, signedIn, told>>
  BY DEF Catalogs!Mount
<1>4. \A j \in {k} : E[j].here /\ told[j] <= version /\ UserOf[j] \in signedIn
  BY <1>0, <1>1, CatalogsKnown
<1>5. {k} \in SUBSET Keys /\ version \in 1 .. version
  BY <1>0, CatalogsKnown
<1>6. /\ StoreFits(entries', catalogsFlights', catalogsSent', version, told, signedIn)
      /\ entries'[k].here /\ entries'[k].request # 0
      /\ \A j \in Keys \ {k} : entries'[j] = entries[j]
  <2>1. StoreFits(E, catalogsFlights, catalogsSent, version, told, signedIn)
    BY <1>1
  <2>2. /\ StoreFits(entries', catalogsFlights', catalogsSent', version, told, signedIn)
        /\ \A j \in {k} : entries'[j].here /\ entries'[j].request # 0
        /\ \A j \in Keys \ {k} : entries'[j] = E[j]
    BY <1>2, <1>4, <1>5, <2>1, Revalidated
  <2>3. QED
    BY <1>1, <2>2
<1>7. \A j \in Keys \ {k} : Watched(j)' <=> Watched(j)
  BY <1>3 DEF Watched, k
<1>8. Watched(k)'
  BY <1>3 DEF Watched, k
<1>9. Watching'
  BY <1>0, <1>3, <1>6, <1>7, <1>8 DEF Watching
<1>10. QED
  BY <1>3, <1>6, <1>9 DEF CatalogsFit

\* Revalidating a watched key of a user who is signed in.
LEMMA AskFits ==
    ASSUME CatalogsFit, NEW k \in Keys, Watched(k), UserOf[k] \in signedIn,
           Catalogs!Revalidate(entries, {k}, version), UNCHANGED <<version, told, signedIn, catalogsMounted>>,
           timers' \in {timers, timers \ {k}},
           deadlines' \in {deadlines, [deadlines EXCEPT ![k] = "open"]}
    PROVE  CatalogsFit'
<1> DEFINE K == {k}
<1>1. Watching /\ entries[k].here
  BY CatalogsKnown DEF Watching
<1>2. /\ Catalogs!Revalidate(entries, K, version)
      /\ \A j \in K : entries[j].here /\ told[j] <= version /\ UserOf[j] \in signedIn
  BY <1>1, CatalogsKnown
<1>3. K \in SUBSET Keys /\ version \in 1 .. version
      /\ StoreFits(entries, catalogsFlights, catalogsSent, version, told, signedIn)
  BY CatalogsKnown
<1> HIDE DEF K
<1>4. /\ StoreFits(entries', catalogsFlights', catalogsSent', version, told, signedIn)
      /\ \A j \in K : entries'[j].here /\ entries'[j].request # 0
      /\ \A j \in Keys \ K : entries'[j] = entries[j]
  BY <1>2, <1>3, Revalidated
<1>5. /\ entries'[k].here /\ entries'[k].request # 0
      /\ \A j \in Keys \ {k} : entries'[j] = entries[j]
  BY <1>4 DEF K
<1>6. \A j \in Keys : Watched(j)' <=> Watched(j)
  BY DEF Watched
<1>7. Watching'
  BY <1>1, <1>5, <1>6 DEF Watching
<1>8. QED
  BY <1>4, <1>7 DEF CatalogsFit

LEMMA RefreshFits == ASSUME CatalogsFit, NEW h \in Hooks, Catalogs!Refresh(h) PROVE CatalogsFit'
<1>1. KeyOf[h] \in Keys /\ Watched(KeyOf[h])
  BY CatalogsAssumption DEF Catalogs!Refresh, Watched
<1>2. QED
  BY <1>1, AskFits DEF Catalogs!Refresh

LEMMA PollTimerFits == ASSUME CatalogsFit, NEW k \in Keys, Catalogs!PollTimer(k) PROVE CatalogsFit'
<1>1. Watched(k) /\ UserOf[k] \in signedIn
  BY CatalogsKnown DEF Catalogs!PollTimer, Watching
<1>2. QED
  BY <1>1, AskFits DEF Catalogs!PollTimer

LEMMA UnmountFits == ASSUME CatalogsFit, NEW h \in Hooks, Catalogs!Unmount(h) PROVE CatalogsFit'
<1> DEFINE k == KeyOf[h]
<1>1. /\ k \in Keys /\ h \in catalogsMounted /\ catalogsMounted' = catalogsMounted \ {h}
      /\ UNCHANGED <<version, entries, catalogsFlights, catalogsSent, signedIn, told>>
  BY CatalogsAssumption DEF Catalogs!Unmount
<1>2. \A j \in Keys : Watched(j)' => Watched(j)
  BY <1>1 DEF Watched
<1>3. \A j \in Keys \ {k} : Watched(j) => Watched(j)'
  BY <1>1 DEF Watched, k
<1>4. \/ timers' = timers \ {k} /\ deadlines' = [deadlines EXCEPT ![k] = "none"]
      \/ Watched(k)' /\ UNCHANGED <<timers, deadlines>>
  <2>1. CASE Catalogs!Listeners(k) = {h}
    BY <2>1 DEF Catalogs!Unmount
  <2>2. CASE Catalogs!Listeners(k) # {h}
    <3>1. h \in Catalogs!Listeners(k)
      BY <1>1 DEF Catalogs!Listeners, k
    <3>2. Watched(k)'
      BY <1>1, <2>2, <3>1 DEF Catalogs!Listeners, Watched
    <3>3. QED
      BY <2>2, <3>2 DEF Catalogs!Unmount
  <2>3. QED
    BY <2>1, <2>2
<1> HIDE DEF k
<1>5. Watching'
  BY <1>1, <1>2, <1>3, <1>4, CatalogsKnown DEF Watching
<1>6. QED
  BY <1>1, <1>5, CatalogsKnown DEF CatalogsFit

LEMMA WindowFits == ASSUME CatalogsFit, NEW k \in Keys, Catalogs!WindowCloses(k) PROVE CatalogsFit'
<1>1. /\ deadlines' = [deadlines EXCEPT ![k] = "past"]
      /\ UNCHANGED <<version, entries, catalogsFlights, catalogsSent, timers, catalogsMounted, signedIn, told>>
  BY DEF Catalogs!WindowCloses
<1>2. \A j \in Keys : Watched(j)' <=> Watched(j)
  BY <1>1 DEF Watched
<1>3. Watching'
  BY <1>1, <1>2, CatalogsKnown DEF Watching
<1>4. QED
  BY <1>1, <1>3, CatalogsKnown DEF CatalogsFit

LEMMA SignInFits == ASSUME CatalogsFit, NEW u \in Users, Catalogs!SignIn(u) PROVE CatalogsFit'
<1>1. /\ signedIn' = signedIn \cup {u}
      /\ UNCHANGED <<version, entries, catalogsFlights, catalogsSent, timers, deadlines, catalogsMounted, told>>
  BY DEF Catalogs!SignIn
<1>2. \A j \in Keys : Watched(j)' <=> Watched(j)
  BY <1>1 DEF Watched
<1>3. Watching'
  BY <1>1, <1>2, CatalogsKnown DEF Watching
<1>4. ASSUME NEW k \in Keys
      PROVE  KeyFits(entries[k], catalogsFlights, catalogsSent, version, told[k], UserOf[k] \in signedIn', k)
  <2>1. UserOf[k] \in signedIn => UserOf[k] \in signedIn'
    BY <1>1
  <2>2. QED
    BY <2>1, CatalogsKnown DEF KeyFits, RequestFits, EntryFits
<1>5. StoreFits(entries', catalogsFlights', catalogsSent', version', told', signedIn')
  BY <1>1, <1>4, CatalogsKnown DEF StoreFits
<1>6. QED
  BY <1>3, <1>5 DEF CatalogsFit

\* What of the store is left when the request f is over.
LEMMA RequestOver ==
    ASSUME NEW E, NEW F, NEW n, NEW v, NEW T, NEW S, NEW f \in F, NEW e \in Catalogs!Entries,
           StoreFits(E, F, n, v, T, S), e.request = 0 \/ ~Publishes(E[f.key], f),
           \A g \in F \ {f} : g.key = f.key => RequestFits(e, n, v, T[f.key], UserOf[f.key] \in S, g),
           EntryFits(e, v, T[f.key], UserOf[f.key] \in S),
           e.request # 0 => e = E[f.key]
    PROVE  StoreFits([E EXCEPT ![f.key] = e], F \ {f}, n, v, T, S)
<1> DEFINE G == F \ {f}
           N == [E EXCEPT ![f.key] = e]
<1>0. /\ StoreTypes(E, F, n, v, T) /\ Distinct(F) /\ E \in [Keys -> Catalogs!Entries] /\ f.key \in Keys
      /\ \A k \in Keys : KeyFits(E[k], F, n, v, T[k], UserOf[k] \in S, k)
  BY DEF StoreFits, StoreTypes, Catalogs!Requests
<1>1. /\ N \in [Keys -> Catalogs!Entries] /\ N[f.key] = e /\ \A k \in Keys \ {f.key} : N[k] = E[k]
  BY <1>0
<1>2. StoreTypes(N, G, n, v, T) /\ Distinct(G)
  BY <1>0, <1>1 DEF StoreTypes, Distinct
<1> HIDE DEF N
<1>3. ASSUME NEW k \in Keys \ {f.key} PROVE KeyFits(N[k], G, n, v, T[k], UserOf[k] \in S, k)
  <2>1. KeyFits(E[k], F, n, v, T[k], UserOf[k] \in S, k) /\ N[k] = E[k]
    BY <1>0, <1>1
  <2>2. \A g \in F : g.key = k => g \in G
    OBVIOUS
  <2>3. QED
    BY <2>1, <2>2 DEF KeyFits, WaitsFor
<1>4. KeyFits(e, G, n, v, T[f.key], UserOf[f.key] \in S, f.key)
  <2>1. WaitsFor(e, G, f.key)
    <3>1. SUFFICES ASSUME e.request # 0 PROVE \E g \in G : g.key = f.key /\ g.id = e.request /\ Publishes(e, g)
      BY DEF WaitsFor
    <3>2. PICK g \in F : g.key = f.key /\ g.id = e.request /\ Publishes(e, g)
      BY <1>0, <3>1 DEF KeyFits, WaitsFor
    <3>3. g # f
      BY <3>1, <3>2
    <3>4. QED
      BY <3>2, <3>3
  <2>2. QED
    BY <2>1 DEF KeyFits
<1>5. QED
  BY <1>1, <1>2, <1>3, <1>4 DEF StoreFits, N

\* The entry of a request that answers or fails forgets it; a request that came
\* too late changes nothing, but that an entry which is gone is made again.
LEMMA Settled ==
    ASSUME CatalogsFit, NEW f \in catalogsFlights, NEW s \in Catalogs!Snapshots, ~s.loading,
           s.error \/ s.data.ver >= f.low,
           Catalogs!Current(f) => UserOf[f.key] \in signedIn
    PROVE  /\ StoreFits(Catalogs!Published(f, s), catalogsFlights \ {f}, catalogsSent, version, told, signedIn)
           /\ \A k \in Keys : \/ Catalogs!Published(f, s)[k].here /\ ~Catalogs!Published(f, s)[k].snapshot.loading
                              \/ Catalogs!Published(f, s)[k] = entries[k]
<1> DEFINE k == f.key
           x == entries[k]
<1>0. /\ StoreFits(entries, catalogsFlights, catalogsSent, version, told, signedIn)
      /\ k \in Keys /\ x \in Catalogs!Entries /\ entries \in [Keys -> Catalogs!Entries]
      /\ f.low \in Nat /\ f.id \in Nat \ {0}
      /\ KeyFits(x, catalogsFlights, catalogsSent, version, told[k], UserOf[k] \in signedIn, k)
      /\ RequestFits(x, catalogsSent, version, told[k], UserOf[k] \in signedIn, f)
  <2>1. k \in Keys /\ f.low \in Nat /\ f.id \in Nat \ {0}
    BY CatalogsKnown DEF StoreTypes, Catalogs!Requests
  <2>2. KeyFits(x, catalogsFlights, catalogsSent, version, told[k], UserOf[k] \in signedIn, k)
    BY <2>1, CatalogsKnown
  <2>3. QED
    BY <2>1, <2>2, CatalogsKnown DEF KeyFits
<1>1. Catalogs!Current(f) <=> Publishes(x, f)
  BY DEF Catalogs!Current, Publishes
<1>2. CASE Publishes(x, f)
  <2> DEFINE a == [entries EXCEPT ![k].snapshot = s]
             b == [x EXCEPT !.snapshot = s]
             e == [b EXCEPT !.request = 0]
  <2>1. x.here /\ x.identity = f.identity /\ x.request = f.id
    BY <1>0, <1>2 DEF RequestFits, Publishes
  <2>2. a = [entries EXCEPT ![k] = [x EXCEPT !.snapshot = s]]
    OBVIOUS
  <2>3. /\ a[k] = [x EXCEPT !.snapshot = s] /\ a[k].here /\ a[k].identity = f.identity /\ a[k].request = f.id
        /\ a \in [Keys -> Catalogs!Entries]
    BY <1>0, <2>1, <2>2 DEF Catalogs!Entries
  <2>4. /\ e \in Catalogs!Entries /\ e.here /\ e.identity = x.identity /\ e.generation = x.generation
        /\ e.request = 0 /\ e.snapshot = s
    <3>1. /\ b \in Catalogs!Entries /\ b.here /\ b.identity = x.identity
          /\ b.generation = x.generation /\ b.snapshot = s
      BY <1>0, <2>1 DEF Catalogs!Entries
    <3> HIDE DEF b, x
    <3>2. QED
      BY <3>1, CatalogsAssumption DEF Catalogs!Entries
  <2>5. Catalogs!Released(a, f) = [entries EXCEPT ![k] = e]
    <3>1. Catalogs!Released(a, f) = [a EXCEPT ![k].request = 0]
      BY <2>3 DEF Catalogs!Released
    <3>2. [a EXCEPT ![k].request = 0] = [a EXCEPT ![k] = [a[k] EXCEPT !.request = 0]]
      OBVIOUS
    <3>3. [a EXCEPT ![k] = e] = [entries EXCEPT ![k] = e]
      BY <1>0, <2>2
    <3>4. QED
      BY <2>3, <3>1, <3>2, <3>3
  <2>6. Catalogs!Published(f, s) = [entries EXCEPT ![k] = e]
    <3>1. Catalogs!Published(f, s) = Catalogs!Entry(Catalogs!Released(a, f), k)
      BY <1>1, <1>2 DEF Catalogs!Published
    <3>2. [entries EXCEPT ![k] = e][k].here
      BY <1>0, <2>4
    <3>3. QED
      BY <2>5, <3>1, <3>2 DEF Catalogs!Entry
  <2> HIDE DEF e, a
  <2>7. \A g \in catalogsFlights \ {f} : g.key = k =>
            RequestFits(e, catalogsSent, version, told[k], UserOf[k] \in signedIn, g)
    <3> SUFFICES ASSUME NEW g \in catalogsFlights \ {f}, g.key = k
                 PROVE  RequestFits(e, catalogsSent, version, told[k], UserOf[k] \in signedIn, g)
      OBVIOUS
    <3>1. RequestFits(x, catalogsSent, version, told[k], UserOf[k] \in signedIn, g)
      BY <1>0 DEF KeyFits
    <3>2. ~Publishes(x, g)
      BY <2>1, <3>1, CatalogsKnown DEF RequestFits, Distinct
    <3>3. QED
      BY <2>1, <2>4, <3>1, <3>2 DEF RequestFits, Publishes
  <2>8. EntryFits(e, version, told[k], UserOf[k] \in signedIn)
    <3>1. told[k] <= f.low /\ UserOf[k] \in signedIn
      BY <1>0, <1>2 DEF RequestFits
    <3>2. told[k] <= version /\ told[k] \in Nat /\ s.data.ver \in Nat
      BY <1>0, CatalogsKnown, CatalogsAssumption DEF Catalogs!Snapshots
    <3>3. QED
      BY <1>0, <2>4, <3>1, <3>2 DEF EntryFits
  <2>9. StoreFits([entries EXCEPT ![f.key] = e], catalogsFlights \ {f}, catalogsSent, version, told, signedIn)
    BY <1>0, <2>4, <2>7, <2>8, RequestOver
  <2>10. QED
    BY <1>0, <2>4, <2>6, <2>9
<1>3. CASE ~Publishes(x, f)
  <2>1. ~(x.identity = f.identity /\ x.request = f.id)
    <3> SUFFICES ASSUME x.request = f.id PROVE FALSE
      OBVIOUS
    <3>1. PICK g \in catalogsFlights : g.id = f.id /\ Publishes(x, g)
      BY <1>0 DEF KeyFits, WaitsFor
    <3>2. g = f
      BY <3>1, CatalogsKnown DEF Distinct
    <3>3. QED
      BY <1>3, <3>1, <3>2
  <2>2. Catalogs!Published(f, s) = Catalogs!Entry(entries, k)
    BY <1>1, <1>3, <2>1 DEF Catalogs!Published, Catalogs!Released
  <2>3. [entries EXCEPT ![k] = x] = entries
    BY <1>0
  <2>4. StoreFits([entries EXCEPT ![f.key] = x], catalogsFlights \ {f}, catalogsSent, version, told, signedIn)
    BY <1>0, <1>3, RequestOver DEF KeyFits
  <2>5. StoreFits(entries, catalogsFlights \ {f}, catalogsSent, version, told, signedIn)
    BY <2>3, <2>4
  <2>6. /\ StoreFits(Catalogs!Entry(entries, k), catalogsFlights \ {f}, catalogsSent, version, told, signedIn)
        /\ Catalogs!Entry(entries, k)[k].here
        /\ entries[k].here => Catalogs!Entry(entries, k) = entries
        /\ ~entries[k].here => Catalogs!Entry(entries, k)[k].snapshot = Catalogs!EmptySnapshot
        /\ \A j \in Keys \ {k} : Catalogs!Entry(entries, k)[j] = entries[j]
    <3> HIDE DEF k
    <3>1. QED
      BY <1>0, <2>5, EntryMade
  <2>7. ~Catalogs!EmptySnapshot.loading
    BY DEF Catalogs!EmptySnapshot
  <2>8. QED
    BY <2>2, <2>6, <2>7
<1>4. QED
  BY <1>2, <1>3

LEMMA SettleFits ==
    ASSUME CatalogsFit, NEW f \in catalogsFlights, NEW s \in Catalogs!Snapshots, ~s.loading,
           s.error \/ s.data.ver >= f.low, Catalogs!Settle(f, s)
    PROVE  CatalogsFit'
<1>0. f.key \in Keys /\ Watching
  BY CatalogsKnown DEF StoreTypes, Catalogs!Requests
<1>1. Catalogs!Current(f) => UserOf[f.key] \in signedIn
  <2>1. RequestFits(entries[f.key], catalogsSent, version, told[f.key], UserOf[f.key] \in signedIn, f)
    BY <1>0, CatalogsKnown DEF KeyFits
  <2>2. QED
    BY <2>1 DEF RequestFits, Publishes, Catalogs!Current
<1>2. /\ entries' = Catalogs!Published(f, s) /\ catalogsFlights' = catalogsFlights \ {f}
      /\ UNCHANGED <<version, catalogsSent, catalogsMounted, signedIn, told>>
      /\ Catalogs!PollAfter(Catalogs!Published(f, s), f.key)
  BY DEF Catalogs!Settle
<1>3. /\ StoreFits(entries', catalogsFlights', catalogsSent', version', told', signedIn')
      /\ \A k \in Keys : (entries'[k].here /\ ~entries'[k].snapshot.loading) \/ entries'[k] = entries[k]
  BY <1>1, <1>2, Settled
<1>4. /\ \/ timers' = timers
         \/ Watched(f.key) /\ deadlines[f.key] = "open" /\ timers' = timers \cup {f.key}
      /\ deadlines' \in {deadlines, [deadlines EXCEPT ![f.key] = "none"]}
  BY <1>2, ListenersWatch DEF Catalogs!PollAfter
<1>5. \A k \in Keys : Watched(k)' <=> Watched(k)
  BY <1>2 DEF Watched
<1>6. Watching'
  BY <1>0, <1>2, <1>3, <1>4, <1>5 DEF Watching
<1>7. QED
  BY <1>3, <1>6 DEF CatalogsFit

LEMMA AnswerFits == ASSUME CatalogsFit, NEW f \in catalogsFlights, Catalogs!Answer(f) PROVE CatalogsFit'
<1>1. PICK v \in f.low .. version, r \in BOOLEAN :
          Catalogs!Settle(f, [Catalogs!EmptySnapshot EXCEPT !.data = [ver |-> v, refreshing |-> r]])
  BY DEF Catalogs!Answer
<1> DEFINE s == [Catalogs!EmptySnapshot EXCEPT !.data = [ver |-> v, refreshing |-> r]]
<1>2. f.low \in Nat /\ v \in 0 .. MaxVersion /\ v >= f.low
  BY CatalogsKnown, CatalogsAssumption DEF StoreTypes, Catalogs!Requests
<1>3. s \in Catalogs!Snapshots /\ ~s.loading /\ s.data.ver >= f.low
  BY <1>2 DEF Catalogs!Snapshots, Catalogs!EmptySnapshot
<1>4. QED
  BY <1>1, <1>3, SettleFits

LEMMA FailFits == ASSUME CatalogsFit, NEW f \in catalogsFlights, Catalogs!Fail(f) PROVE CatalogsFit'
<1> DEFINE s == [entries[f.key].snapshot EXCEPT !.loading = FALSE, !.error = TRUE]
<1>1. entries[f.key].snapshot \in Catalogs!Snapshots
  BY CatalogsKnown DEF StoreTypes, Catalogs!Requests, Catalogs!Entries
<1>2. s \in Catalogs!Snapshots /\ ~s.loading /\ s.error
  BY <1>1 DEF Catalogs!Snapshots
<1>3. Catalogs!Settle(f, s)
  BY DEF Catalogs!Fail
<1>4. QED
  BY <1>2, <1>3, SettleFits

\* An entry whose generation moves, or that goes, has no request that may publish.
LEMMA Superseded ==
    ASSUME NEW E, NEW F, NEW n, NEW v, NEW T, NEW S, NEW w \in Nat, NEW U, NEW Q, NEW N,
           StoreFits(E, F, n, v, T, S), v <= w, w <= MaxVersion, Q \in [Keys -> 0 .. MaxVersion],
           N \in [Keys -> Catalogs!Entries],
           \A k \in Keys :
              \/ N[k] = E[k] /\ Q[k] = T[k] /\ (UserOf[k] \in S => UserOf[k] \in U)
              \/ /\ N[k].request = 0 /\ EntryFits(N[k], w, Q[k], UserOf[k] \in U)
                 /\ N[k].identity = E[k].identity
                 /\ N[k].here => E[k].here /\ N[k].generation = E[k].generation + 1
    PROVE  StoreFits(N, F, n, w, Q, U)
<1>0. /\ StoreTypes(E, F, n, v, T) /\ Distinct(F) /\ E \in [Keys -> Catalogs!Entries]
      /\ \A k \in Keys : KeyFits(E[k], F, n, v, T[k], UserOf[k] \in S, k)
      /\ v \in 1 .. MaxVersion
  BY DEF StoreFits, StoreTypes
<1>1. StoreTypes(N, F, n, w, Q)
  BY <1>0, CatalogsAssumption DEF StoreTypes
<1>2. ASSUME NEW k \in Keys PROVE KeyFits(N[k], F, n, w, Q[k], UserOf[k] \in U, k)
  <2>0. KeyFits(E[k], F, n, v, T[k], UserOf[k] \in S, k) /\ E[k] \in Catalogs!Entries
    BY <1>0
  <2>1. CASE N[k] = E[k] /\ Q[k] = T[k] /\ (UserOf[k] \in S => UserOf[k] \in U)
    <3>1. ASSUME NEW f \in F, f.key = k PROVE RequestFits(E[k], n, w, T[k], UserOf[k] \in U, f)
      <4>1. RequestFits(E[k], n, v, T[k], UserOf[k] \in S, f) /\ f.low \in Nat
        BY <1>0, <2>0, <3>1 DEF KeyFits, StoreTypes, Catalogs!Requests
      <4>2. f.low <= w
        BY <1>0, <4>1 DEF RequestFits
      <4>3. QED
        BY <2>1, <4>1, <4>2 DEF RequestFits
    <3>2. EntryFits(E[k], w, T[k], UserOf[k] \in U)
      <4>1. EntryFits(E[k], v, T[k], UserOf[k] \in S) /\ T[k] \in Nat
        BY <1>0, <2>0 DEF KeyFits, StoreTypes
      <4>2. T[k] <= w
        BY <1>0, <4>1 DEF EntryFits
      <4>3. QED
        BY <2>1, <4>1, <4>2 DEF EntryFits
    <3>3. QED
      BY <2>0, <2>1, <3>1, <3>2 DEF KeyFits
  <2>2. CASE /\ N[k].request = 0 /\ EntryFits(N[k], w, Q[k], UserOf[k] \in U)
             /\ N[k].identity = E[k].identity
             /\ N[k].here => E[k].here /\ N[k].generation = E[k].generation + 1
    <3>1. ASSUME NEW f \in F, f.key = k PROVE RequestFits(N[k], n, w, Q[k], UserOf[k] \in U, f)
      <4>1. RequestFits(E[k], n, v, T[k], UserOf[k] \in S, f) /\ f.low \in Nat /\ f.generation \in Nat
        BY <1>0, <2>0, <3>1 DEF KeyFits, StoreTypes, Catalogs!Requests
      <4>2. E[k].generation \in Nat /\ f.low <= w
        BY <1>0, <2>0, <4>1 DEF Catalogs!Entries, RequestFits
      <4>3. QED
        BY <2>2, <4>1, <4>2 DEF RequestFits, Publishes
    <3>2. QED
      BY <2>2, <3>1 DEF KeyFits, WaitsFor
  <2>3. QED
    BY <2>1, <2>2
<1>3. QED
  BY <1>0, <1>1, <1>2 DEF StoreFits

\* An entry that is invalidated and one that is emptied.
Outdated(x) == [x EXCEPT !.generation = @ + 1, !.request = 0, !.snapshot.invalidated = TRUE]
Emptied(x) == [x EXCEPT !.generation = @ + 1, !.request = 0, !.snapshot = Catalogs!EmptySnapshot]

LEMMA MovedFields ==
    ASSUME NEW x \in Catalogs!Entries
    PROVE  /\ Outdated(x) \in Catalogs!Entries /\ (Outdated(x).here <=> x.here)
           /\ Outdated(x).request = 0 /\ Outdated(x).identity = x.identity
           /\ Outdated(x).generation = x.generation + 1 /\ Outdated(x).snapshot.invalidated
           /\ Outdated(x).snapshot.data = x.snapshot.data
           /\ Emptied(x) \in Catalogs!Entries /\ (Emptied(x).here <=> x.here)
           /\ Emptied(x).request = 0 /\ Emptied(x).identity = x.identity
           /\ Emptied(x).generation = x.generation + 1
           /\ Emptied(x).snapshot = Catalogs!EmptySnapshot
<1> DEFINE a == [x EXCEPT !.generation = @ + 1]
           b == [a EXCEPT !.request = 0]
           i == [b EXCEPT !.snapshot = [b.snapshot EXCEPT !.invalidated = TRUE]]
           r == [b EXCEPT !.snapshot = Catalogs!EmptySnapshot]
<1>1. /\ a \in Catalogs!Entries /\ (a.here <=> x.here) /\ a.identity = x.identity
      /\ a.generation = x.generation + 1 /\ a.snapshot = x.snapshot
  BY DEF Catalogs!Entries
<1> HIDE DEF a
<1>2. /\ b \in Catalogs!Entries /\ (b.here <=> x.here) /\ b.identity = x.identity
      /\ b.generation = x.generation + 1 /\ b.snapshot = x.snapshot /\ b.request = 0
  BY <1>1, CatalogsAssumption DEF Catalogs!Entries
<1> HIDE DEF b
<1>3. /\ i \in Catalogs!Entries /\ (i.here <=> x.here) /\ i.request = 0
      /\ i.identity = x.identity /\ i.generation = x.generation + 1
      /\ i.snapshot.invalidated /\ i.snapshot.data = x.snapshot.data
  BY <1>2 DEF Catalogs!Entries, Catalogs!Snapshots
<1>4. Catalogs!EmptySnapshot \in Catalogs!Snapshots
  BY CatalogsAssumption DEF Catalogs!EmptySnapshot, Catalogs!Snapshots, Catalogs!NoData
<1>5. /\ r \in Catalogs!Entries /\ (r.here <=> x.here) /\ r.request = 0
      /\ r.identity = x.identity /\ r.generation = x.generation + 1
      /\ r.snapshot = Catalogs!EmptySnapshot
  BY <1>2, <1>4 DEF Catalogs!Entries
<1>6. i = Outdated(x) /\ r = Emptied(x)
  BY DEF a, b, Outdated, Emptied
<1>7. QED
  BY <1>3, <1>5, <1>6

\* A change of the connections outdates what was shown or asked for before it.
LEMMA ChangedFits ==
    ASSUME CatalogsFit, NEW u \in Users, Catalogs!ConnectionsChanged(u) PROVE CatalogsFit'
<1> DEFINE K == {k \in Keys : UserOf[k] = u}
           W == {k \in K : Watched(k)}
           N == Catalogs!Invalidated(u)
<1>1. /\ u \in signedIn /\ version < MaxVersion /\ version' = version + 1
      /\ told' = [k \in Keys |-> IF k \in K THEN version' ELSE told[k]]
      /\ deadlines' = [k \in Keys |-> IF k \in W THEN "open" ELSE deadlines[k]]
      /\ Catalogs!Revalidate(N, W, version')
      /\ UNCHANGED <<timers, catalogsMounted, signedIn>>
  <2>1. {k \in K : Catalogs!Listeners(k) # {}} = W
    BY ListenersWatch
  <2>2. QED
    BY <2>1 DEF Catalogs!ConnectionsChanged
<1>2. /\ StoreFits(entries, catalogsFlights, catalogsSent, version, told, signedIn) /\ Watching
      /\ version \in Nat /\ version' \in Nat /\ version <= version' /\ version' <= MaxVersion
      /\ version' \in 1 .. version' /\ version' # 0
      /\ told' \in [Keys -> 0 .. MaxVersion]
      /\ \A k \in K : told'[k] = version'
      /\ \A k \in Keys \ K : told'[k] = told[k]
  BY <1>1, CatalogsKnown, CatalogsAssumption DEF StoreTypes
<1>3. /\ N \in [Keys -> Catalogs!Entries]
      /\ \A k \in Keys : entries[k] \in Catalogs!Entries
      /\ \A k \in Keys : entries[k].here /\ k \in K =>
            /\ N[k].here /\ N[k].request = 0 /\ N[k].identity = entries[k].identity
            /\ N[k].generation = entries[k].generation + 1 /\ N[k].snapshot.invalidated
            /\ N[k].snapshot.data = entries[k].snapshot.data
      /\ \A k \in Keys : ~(entries[k].here /\ k \in K) => N[k] = entries[k]
  <2>1. \A k \in Keys : entries[k] \in Catalogs!Entries
    BY CatalogsKnown
  <2>2. /\ N = [k \in Keys |-> N[k]]
        /\ \A k \in Keys : N[k] = IF entries[k].here /\ k \in K
             THEN Outdated(entries[k]) ELSE entries[k]
    BY DEF Catalogs!Invalidated, Outdated
  <2> HIDE DEF N, K
  <2>3. ASSUME NEW k \in Keys, entries[k].here, k \in K
        PROVE  /\ N[k] \in Catalogs!Entries
               /\ N[k].here /\ N[k].request = 0 /\ N[k].identity = entries[k].identity
               /\ N[k].generation = entries[k].generation + 1 /\ N[k].snapshot.invalidated
               /\ N[k].snapshot.data = entries[k].snapshot.data
    BY <2>1, <2>2, <2>3, MovedFields
  <2>4. \A k \in Keys : ~(entries[k].here /\ k \in K) => N[k] = entries[k]
    BY <2>2
  <2>5. QED
    BY <2>1, <2>2, <2>3, <2>4
<1>4. ASSUME NEW k \in Keys
      PROVE  \/ N[k] = entries[k] /\ told'[k] = told[k] /\ (UserOf[k] \in signedIn => UserOf[k] \in signedIn)
             \/ /\ N[k].request = 0 /\ EntryFits(N[k], version', told'[k], UserOf[k] \in signedIn)
                /\ N[k].identity = entries[k].identity
                /\ N[k].here => entries[k].here /\ N[k].generation = entries[k].generation + 1
  <2>0. KeyFits(entries[k], catalogsFlights, catalogsSent, version, told[k], UserOf[k] \in signedIn, k)
    BY CatalogsKnown
  <2>1. CASE k \notin K
    BY <1>2, <1>3, <2>1
  <2>2. CASE k \in K /\ entries[k].here
    <3>1. EntryFits(N[k], version', told'[k], UserOf[k] \in signedIn)
      BY <1>1, <1>2, <1>3, <2>2 DEF EntryFits
    <3>2. QED
      BY <1>3, <2>2, <3>1
  <2>3. CASE k \in K /\ ~entries[k].here
    <3>1. N[k] = entries[k] /\ entries[k].snapshot = Catalogs!EmptySnapshot
      BY <1>3, <2>0, <2>3 DEF KeyFits, EntryFits
    <3>2. entries[k].request = 0
      BY <2>0, <2>3 DEF KeyFits, WaitsFor, Publishes
    <3>3. Catalogs!EmptySnapshot.data = Catalogs!NoData
      BY DEF Catalogs!EmptySnapshot
    <3>4. EntryFits(N[k], version', told'[k], UserOf[k] \in signedIn)
      BY <1>2, <2>3, <3>1, <3>3 DEF EntryFits
    <3>5. QED
      BY <2>3, <3>1, <3>2, <3>4
  <2>4. QED
    BY <2>1, <2>2, <2>3
<1>5. StoreFits(N, catalogsFlights, catalogsSent, version', told', signedIn)
  BY <1>2, <1>3, <1>4, Superseded
<1>6. /\ W \in SUBSET Keys
      /\ \A k \in W : N[k].here /\ told'[k] <= version' /\ UserOf[k] \in signedIn
  <2>1. \A k \in W : entries[k].here /\ k \in K
    BY <1>2 DEF Watching
  <2>2. QED
    BY <1>1, <1>2, <1>3, <2>1
<1>7. /\ StoreFits(entries', catalogsFlights', catalogsSent', version', told', signedIn)
      /\ \A k \in W : entries'[k].here /\ entries'[k].request # 0
      /\ \A k \in Keys \ W : entries'[k] = N[k]
  <2>1. Catalogs!Revalidate(N, W, version') /\ version' \in 1 .. version'
    BY <1>1, <1>2
  <2>2. UNCHANGED signedIn
    BY <1>1
  <2>3. QED
    BY <1>5, <1>6, <2>1, <2>2, Revalidated
<1>8. \A k \in Keys : Watched(k)' <=> Watched(k)
  BY <1>1 DEF Watched
<1>9. \A k \in Keys \ W : Watched(k) => entries'[k] = entries[k]
  BY <1>3, <1>7
<1>10. Watching'
  BY <1>1, <1>2, <1>7, <1>8, <1>9 DEF Watching
<1>11. QED
  BY <1>1, <1>7, <1>10 DEF CatalogsFit

\* What is signed out of is forgotten.
LEMMA SignOutFits == ASSUME CatalogsFit, NEW u \in Users, Catalogs!SignOut(u) PROVE CatalogsFit'
<1> DEFINE K == {k \in Keys : UserOf[k] = u}
           N == Catalogs!Removed(u)
<1>1. /\ signedIn' = signedIn \ {u} /\ timers' = timers \ K
      /\ deadlines' = [k \in Keys |-> IF k \in K THEN "none" ELSE deadlines[k]] /\ entries' = N
      /\ UNCHANGED <<version, catalogsFlights, catalogsSent, catalogsMounted, told>>
  BY DEF Catalogs!SignOut
<1>2. \A k \in Keys : Watched(k)' <=> Watched(k)
  BY <1>1 DEF Watched
<1>3. Catalogs!EmptySnapshot \in Catalogs!Snapshots /\ Catalogs!EmptySnapshot.data = Catalogs!NoData
      /\ ~Catalogs!EmptySnapshot.loading
  BY CatalogsAssumption DEF Catalogs!EmptySnapshot, Catalogs!Snapshots, Catalogs!NoData
<1>4. /\ N = [k \in Keys |-> N[k]] /\ entries \in [Keys -> Catalogs!Entries]
      /\ \A k \in Keys : N[k] = IF ~entries[k].here \/ k \notin K THEN entries[k]
                              ELSE IF Watched(k) THEN Emptied(entries[k])
                              ELSE Catalogs!Absent(entries[k].identity)
  BY ListenersWatch, CatalogsKnown DEF Catalogs!Removed, Emptied
<1> HIDE DEF N
<1>5. ASSUME NEW k \in Keys
      PROVE  /\ N[k] \in Catalogs!Entries
             /\ k \in K => /\ N[k].request = 0 /\ N[k].snapshot = Catalogs!EmptySnapshot
                           /\ N[k].identity = entries[k].identity
                           /\ N[k].here => entries[k].here /\ N[k].generation = entries[k].generation + 1
                           /\ Watched(k) => N[k].here
             /\ k \notin K => N[k] = entries[k]
  <2>1. entries[k] \in Catalogs!Entries /\ entries[k].identity \in Nat
    BY <1>4 DEF Catalogs!Entries
  <2>2. KeyFits(entries[k], catalogsFlights, catalogsSent, version, told[k], UserOf[k] \in signedIn, k)
        /\ (Watched(k) => entries[k].here)
    BY CatalogsKnown DEF Watching
  <2>3. CASE k \notin K
    BY <1>4, <2>1, <2>3
  <2>4. CASE k \in K /\ ~entries[k].here
    BY <1>4, <2>1, <2>2, <2>4 DEF KeyFits, EntryFits, WaitsFor, Publishes
  <2>5. CASE k \in K /\ entries[k].here /\ Watched(k)
    BY <1>4, <2>1, <2>5, MovedFields
  <2>6. CASE k \in K /\ entries[k].here /\ ~Watched(k)
    <3>1. N[k] = Catalogs!Absent(entries[k].identity)
      BY <1>4, <2>6
    <3>2. QED
      BY <1>3, <2>1, <2>6, <3>1, CatalogsAssumption DEF Catalogs!Absent, Catalogs!Entries
  <2>7. QED
    BY <2>3, <2>4, <2>5, <2>6
<1>6. ASSUME NEW k \in Keys
      PROVE  \/ N[k] = entries[k] /\ told[k] = told[k] /\ (UserOf[k] \in signedIn => UserOf[k] \in signedIn')
             \/ /\ N[k].request = 0 /\ EntryFits(N[k], version, told[k], UserOf[k] \in signedIn')
                /\ N[k].identity = entries[k].identity
                /\ N[k].here => entries[k].here /\ N[k].generation = entries[k].generation + 1
  <2>1. CASE k \in K
    BY <1>3, <1>5, <2>1, CatalogsKnown DEF EntryFits
  <2>2. CASE k \notin K
    BY <1>1, <1>5, <2>2
  <2>3. QED
    BY <2>1, <2>2
<1>7. StoreFits(N, catalogsFlights, catalogsSent, version, told, signedIn')
  <2>1. /\ StoreFits(entries, catalogsFlights, catalogsSent, version, told, signedIn)
        /\ version \in Nat /\ version <= version /\ version <= MaxVersion
        /\ told \in [Keys -> 0 .. MaxVersion]
    BY CatalogsKnown, CatalogsAssumption DEF StoreTypes
  <2>2. N \in [Keys -> Catalogs!Entries]
    BY <1>4, <1>5
  <2>3. QED
    BY <1>6, <2>1, <2>2, Superseded, ZenonT(60)
<1>8. Watching'
  BY <1>1, <1>2, <1>3, <1>5, CatalogsKnown DEF Watching
<1>9. QED
  BY <1>1, <1>7, <1>8 DEF CatalogsFit

LEMMA CatalogsStep == Catalogs!CatalogsInv /\ [Catalogs!Next]_(Catalogs!vars) => Catalogs!CatalogsInv'
<1> SUFFICES ASSUME CatalogsFit, [Catalogs!Next]_(Catalogs!vars) PROVE CatalogsFit'
  <2>1. Catalogs!CatalogsInv' <=> CatalogsFit'
    BY CatalogsParts, PTL
  <2>2. QED
    BY <2>1, CatalogsParts
<1>1. CASE Catalogs!Next
  BY <1>1, MountFits, RefreshFits, UnmountFits, AnswerFits, FailFits, PollTimerFits, WindowFits,
     ChangedFits, SignOutFits, SignInFits DEF Catalogs!Next
<1>2. CASE UNCHANGED Catalogs!vars
  <2>1. UNCHANGED <<version, entries, catalogsFlights, catalogsSent, timers, deadlines,
                    catalogsMounted, signedIn, told>>
    BY <1>2 DEF Catalogs!vars
  <2>2. Watching'
    BY <2>1, CatalogsKnown DEF Watching, Watched
  <2>3. QED
    BY <2>1, <2>2, CatalogsKnown DEF CatalogsFit
<1>3. QED
  BY <1>1, <1>2

LEMMA CatalogsStart == Catalogs!Init => Catalogs!CatalogsInv
<1> SUFFICES ASSUME Catalogs!Init PROVE CatalogsFit
  BY CatalogsParts
<1>1. /\ version = 1 /\ entries = [k \in Keys |-> Catalogs!Absent(0)] /\ catalogsFlights = {}
      /\ catalogsSent = 0 /\ timers = {} /\ deadlines = [k \in Keys |-> "none"]
      /\ catalogsMounted = {} /\ signedIn = Users /\ told = [k \in Keys |-> 0]
  BY DEF Catalogs!Init
<1>2. /\ Catalogs!Absent(0) \in Catalogs!Entries /\ Catalogs!Absent(0).request = 0
      /\ Catalogs!Absent(0).snapshot = Catalogs!EmptySnapshot
      /\ Catalogs!EmptySnapshot.data = Catalogs!NoData
  <2>1. Catalogs!EmptySnapshot \in Catalogs!Snapshots /\ Catalogs!EmptySnapshot.data = Catalogs!NoData
    BY CatalogsAssumption DEF Catalogs!EmptySnapshot, Catalogs!Snapshots, Catalogs!NoData
  <2>2. QED
    BY <2>1, CatalogsAssumption DEF Catalogs!Absent, Catalogs!Entries
<1>3. StoreTypes(entries, catalogsFlights, catalogsSent, version, told) /\ Distinct(catalogsFlights)
  BY <1>1, <1>2, CatalogsAssumption DEF StoreTypes, Distinct
<1>4. \A k \in Keys : KeyFits(entries[k], catalogsFlights, catalogsSent, version, told[k],
                             UserOf[k] \in signedIn, k)
  BY <1>1, <1>2 DEF KeyFits, EntryFits, WaitsFor
<1>5. Watching
  BY <1>1 DEF Watching, Watched
<1>6. QED
  BY <1>3, <1>4, <1>5 DEF CatalogsFit, StoreFits

LEMMA CatalogsMean ==
    Catalogs!CatalogsInv => /\ Catalogs!TypeOK /\ Catalogs!NoStaleCatalog /\ Catalogs!ForgottenAtSignOut
                            /\ Catalogs!SpinnerHasRequest /\ Catalogs!PollsOnlyWatched
<1> SUFFICES ASSUME Catalogs!CatalogsInv
             PROVE  Catalogs!TypeOK /\ Catalogs!SpinnerHasRequest
  BY DEF Catalogs!CatalogsInv
<1>1. Catalogs!SpinnerHasRequest
  BY DEF Catalogs!CatalogsInv, Catalogs!SpinnerHasRequest
<1>2. \A k \in Keys : entries[k].request \in 0 .. MaxFlights
  BY DEF Catalogs!CatalogsInv, Catalogs!Entries
<1>3. \A f \in catalogsFlights : f.key \in Keys /\ f.id \in 1 .. catalogsSent /\ f.low \in 1 .. version
  BY CatalogsAssumption DEF Catalogs!CatalogsInv, Catalogs!Requests
<1>4. QED
  BY <1>1, <1>2, <1>3 DEF Catalogs!CatalogsInv, Catalogs!TypeOK

--------------------------------------------------------------------------------
(* The trace debugger: steps of a graph, what a trace is of, and the focus *)

RetrievalNodes == {s.node : s \in Debugger!Range(Debugger!Steps("retrieval", "retrieval", "retrieval"))}
PlainNodes == {s.node : s \in Debugger!Range(Debugger!graph([origin |-> None]))}

\* A list of steps, of which there is one.
IsGraph(g) == g \in Seq(Debugger!Range(g)) /\ g # << >>

LEMMA StepsOf ==
    ASSUME NEW stage, NEW prefix, NEW p, IsList(Nodes[p]), Nodes[p] # << >>
    PROVE  /\ IsGraph(Debugger!Steps(stage, prefix, p))
           /\ \A s \in Debugger!Range(Debugger!Steps(stage, prefix, p)) : s.stage = stage /\ s.node[1] = prefix
<1> DEFINE g == Debugger!Steps(stage, prefix, p)
           n == Len(Nodes[p])
<1>1. n \in Nat /\ DOMAIN Nodes[p] = 1 .. n /\ n # 0
  BY Dataset!LenProperties, Dataset!EmptySeq DEF IsList
<1>2. DOMAIN g = 1 .. n /\ \A i \in 1 .. n : g[i] = [node |-> <<prefix, Nodes[p][i]>>, stage |-> stage]
  BY <1>1 DEF Debugger!Steps
<1>3. g = [i \in 1 .. n |-> g[i]]
  BY <1>1 DEF Debugger!Steps
<1> HIDE DEF g
<1>4. g \in [1 .. n -> Debugger!Range(g)]
  BY <1>2, <1>3 DEF Debugger!Range
<1>5. g \in Seq(Debugger!Range(g)) /\ Len(g) = n
  BY <1>1, <1>4, Dataset!FunctionIsSeq
<1>6. g # << >>
  BY <1>1, <1>5, Dataset!EmptySeq
<1>7. ASSUME NEW s \in Debugger!Range(g) PROVE s.stage = stage /\ s.node[1] = prefix
  <2>1. PICK i \in 1 .. n : s = g[i]
    BY <1>2 DEF Debugger!Range
  <2>2. s = [node |-> <<prefix, Nodes[p][i]>>, stage |-> stage]
    BY <1>2, <2>1
  <2>3. s.node = <<prefix, Nodes[p][i]>> /\ s.stage = stage
    BY <2>2
  <2>4. QED
    BY <2>3
<1>8. QED
  BY <1>5, <1>6, <1>7 DEF IsGraph, g

\* Two graphs one after the other have the steps of both.
LEMMA JoinedSteps ==
    ASSUME NEW a, NEW b, IsGraph(a), IsGraph(b)
    PROVE  IsGraph(a \o b) /\ Debugger!Range(a \o b) = Debugger!Range(a) \cup Debugger!Range(b)
<1> DEFINE S == Debugger!Range(a) \cup Debugger!Range(b)
           m == Len(a)
           n == Len(b)
           c == a \o b
<1>1. a \in Seq(S) /\ b \in Seq(S)
  BY DEF IsGraph
<1>2. /\ m \in Nat /\ DOMAIN a = 1 .. m /\ n \in Nat /\ DOMAIN b = 1 .. n
      /\ c \in Seq(S) /\ Len(c) = m + n /\ DOMAIN c = 1 .. m + n
      /\ \A i \in 1 .. m + n : c[i] = IF i <= m THEN a[i] ELSE b[i - m]
  BY <1>1, Dataset!LenProperties, Dataset!ConcatProperties
<1>3. m # 0
  BY Dataset!EmptySeq, <1>1 DEF IsGraph
<1> HIDE DEF c
<1>4. Debugger!Range(c) \subseteq S
  BY <1>2 DEF Debugger!Range
<1>5. \A i \in 1 .. m : c[i] = a[i] /\ i \in DOMAIN c
  BY <1>2
<1>6. ASSUME NEW j \in 1 .. n PROVE c[m + j] = b[j] /\ m + j \in DOMAIN c
  <2>1. m + j \in 1 .. m + n /\ ~(m + j <= m) /\ (m + j) - m = j
    BY <1>2
  <2>2. QED
    BY <1>2, <2>1
<1>7. S \subseteq Debugger!Range(c)
  <2>1. ASSUME NEW i \in 1 .. m PROVE a[i] \in Debugger!Range(c)
    BY <1>5, <2>1 DEF Debugger!Range
  <2>2. ASSUME NEW j \in 1 .. n PROVE b[j] \in Debugger!Range(c)
    BY <1>6 DEF Debugger!Range
  <2>3. Debugger!Range(a) = {a[i] : i \in 1 .. m} /\ Debugger!Range(b) = {b[j] : j \in 1 .. n}
    BY <1>2 DEF Debugger!Range
  <2>4. QED
    BY <2>1, <2>2, <2>3
<1>8. Debugger!Range(c) = S
  BY <1>4, <1>7
<1>9. c # << >>
  BY <1>2, <1>3, Dataset!EmptySeq
<1>10. QED
  BY <1>2, <1>8, <1>9 DEF IsGraph, c

\* The first step wanted, or the first of all, is a step.
LEMMA FirstIsAStep ==
    ASSUME NEW g, IsGraph(g), NEW W
    PROVE  Debugger!FirstOf(g, W) \in Debugger!Range(g)
<1> DEFINE I == {i \in DOMAIN g : g[i] \in W}
           least == CHOOSE i \in I : \A j \in I : i <= j
<1>1. /\ Len(g) \in Nat /\ DOMAIN g = 1 .. Len(g) /\ Len(g) # 0
  BY Dataset!LenProperties, Dataset!EmptySeq DEF IsGraph
<1>2. 1 \in DOMAIN g
  BY <1>1
<1>3. I # {} => least \in I
  <2>1. g \in Seq(Debugger!Range(g)) /\ I \in SUBSET DOMAIN g
    BY DEF IsGraph
  <2> HIDE DEF I
  <2>2. I \in SUBSET Nat /\ Dataset!IsFiniteSet(I)
    BY <2>1, Dataset!Positions
  <2>3. I # {} => \E i \in I : \A j \in I : i <= j
    BY <2>2, Dataset!Extremes
  <2>4. QED
    BY <2>3
<1>4. (IF I = {} THEN 1 ELSE least) \in DOMAIN g
  BY <1>2, <1>3
<1>5. Debugger!FirstOf(g, W) = g[IF I = {} THEN 1 ELSE least]
  BY DEF Debugger!FirstOf
<1>6. QED
  BY <1>4, <1>5 DEF Debugger!Range

LEMMA TraceLists ==
    /\ IsList(Nodes["ingestion"]) /\ Nodes["ingestion"] # << >>
    /\ IsList(Nodes["retrieval"]) /\ Nodes["retrieval"] # << >>
    /\ \A t \in Debugger!Traces : t.origin # None => IsList(Nodes[t.origin]) /\ Nodes[t.origin] # << >>
BY TraceAssumption DEF Debugger!Traces

\* The graph of a trace: of both runs where the ingestion is known, otherwise of
\* the one run, whatever the trace is of.
LEMMA GraphOf ==
    ASSUME NEW t \in Debugger!Traces
    PROVE  /\ IsGraph(Debugger!graph(t))
           /\ \A s \in Debugger!Range(Debugger!graph(t)) : s.stage \in {"origin", "retrieval"}
           /\ IF t.origin = None
              THEN Debugger!NodesOf(t) = PlainNodes /\ \A n \in PlainNodes : n[1] = Debugger!NoPrefix
              ELSE /\ \A n \in Debugger!NodesOf(t) : n[1] = "origin" \/ (n[1] = "retrieval" /\ n \in RetrievalNodes)
                   /\ RetrievalNodes \subseteq Debugger!NodesOf(t)
<1>1. CASE t.origin = None
  <2> DEFINE g == Debugger!graph(t)
  <2>1. g = IF kind = "document" THEN Debugger!Steps("origin", Debugger!NoPrefix, "ingestion")
            ELSE Debugger!Steps("retrieval", Debugger!NoPrefix, "retrieval")
    BY <1>1 DEF Debugger!graph, Debugger!combined
  <2>2. g = Debugger!graph([origin |-> None])
    BY <2>1 DEF Debugger!graph, Debugger!combined
  <2> HIDE DEF g
  <2>3. IsGraph(g) /\ \A s \in Debugger!Range(g) : s.stage \in {"origin", "retrieval"} /\ s.node[1] = Debugger!NoPrefix
    <3> DEFINE Plain(x) == IsGraph(x) /\ \A s \in Debugger!Range(x) : s.stage \in {"origin", "retrieval"} /\ s.node[1] = Debugger!NoPrefix
    <3>1. Plain(Debugger!Steps("origin", Debugger!NoPrefix, "ingestion"))
      <4>1. IsList(Nodes["ingestion"]) /\ Nodes["ingestion"] # << >>
        BY TraceLists
      <4>2. /\ IsGraph(Debugger!Steps("origin", Debugger!NoPrefix, "ingestion"))
            /\ \A s \in Debugger!Range(Debugger!Steps("origin", Debugger!NoPrefix, "ingestion")) : s.stage = "origin" /\ s.node[1] = Debugger!NoPrefix
        BY <4>1, StepsOf
      <4>3. QED
        BY <4>2
    <3>2. Plain(Debugger!Steps("retrieval", Debugger!NoPrefix, "retrieval"))
      <4>1. IsList(Nodes["retrieval"]) /\ Nodes["retrieval"] # << >>
        BY TraceLists
      <4>2. /\ IsGraph(Debugger!Steps("retrieval", Debugger!NoPrefix, "retrieval"))
            /\ \A s \in Debugger!Range(Debugger!Steps("retrieval", Debugger!NoPrefix, "retrieval")) : s.stage = "retrieval" /\ s.node[1] = Debugger!NoPrefix
        BY <4>1, StepsOf
      <4>3. QED
        BY <4>2
    <3> HIDE DEF Plain
    <3>3. Plain(g)
      BY <2>1, <3>1, <3>2
    <3>4. QED
      BY <3>3 DEF Plain
  <2>4. Debugger!NodesOf(t) = {s.node : s \in Debugger!Range(g)} /\ PlainNodes = {s.node : s \in Debugger!Range(g)}
    BY <2>2 DEF Debugger!NodesOf, PlainNodes, g
  <2>5. QED
    BY <1>1, <2>3, <2>4 DEF g
<1>2. CASE t.origin # None
  <2> DEFINE a == Debugger!Steps("origin", "origin", t.origin)
             b == Debugger!Steps("retrieval", "retrieval", "retrieval")
  <2>1. Debugger!graph(t) = a \o b
    BY <1>2 DEF Debugger!graph, Debugger!combined
  <2>2. RetrievalNodes = {s.node : s \in Debugger!Range(b)}
    BY DEF RetrievalNodes
  <2>3. /\ IsGraph(a) /\ \A s \in Debugger!Range(a) : s.stage = "origin" /\ s.node[1] = "origin"
        /\ IsGraph(b) /\ \A s \in Debugger!Range(b) : s.stage = "retrieval" /\ s.node[1] = "retrieval"
    BY <1>2, StepsOf, TraceLists
  <2> HIDE DEF a, b
  <2>4. IsGraph(a \o b) /\ Debugger!Range(a \o b) = Debugger!Range(a) \cup Debugger!Range(b)
    BY <2>3, JoinedSteps
  <2>5. Debugger!NodesOf(t) = {s.node : s \in Debugger!Range(a) \cup Debugger!Range(b)}
    BY <2>1, <2>4 DEF Debugger!NodesOf
  <2>6. QED
    BY <1>2, <2>1, <2>2, <2>3, <2>4, <2>5
<1>3. QED
  BY <1>1, <1>2

\* Where the debugger opens is a node and a stage of the trace.
LEMMA OpensInside ==
    ASSUME NEW t \in Debugger!Traces, NEW focus
    PROVE  /\ Debugger!initialExecutionNodeId(t, focus) \in Debugger!NodesOf(t)
           /\ Debugger!initialStage(t) \in {"origin", "retrieval"}
<1> DEFINE g == Debugger!graph(t)
<1>1. IsGraph(g) /\ \A s \in Debugger!Range(g) : s.stage \in {"origin", "retrieval"}
  BY GraphOf
<1>2. g[1] \in Debugger!Range(g)
  BY <1>1, Dataset!LenProperties, Dataset!EmptySeq DEF IsGraph, Debugger!Range
<1>3. \A W : Debugger!FirstOf(g, W) \in Debugger!Range(g)
  BY <1>1, FirstIsAStep
<1>4. \E s \in Debugger!Range(g) : Debugger!initialExecutionNodeId(t, focus) = s.node
  BY <1>2, <1>3 DEF Debugger!initialExecutionNodeId
<1>5. QED
  BY <1>1, <1>2, <1>4 DEF Debugger!NodesOf, Debugger!initialStage

\* What the request may answer.
LEMMA TraceOf ==
    ASSUME NEW c \in Chunks \cup {None}
    PROVE  /\ Debugger!loadTrace(c) \in Debugger!Traces /\ Debugger!loadTrace(c) # None
           /\ Debugger!loadTrace(c).chunk = c
<1>1. Debugger!Around(c) \subseteq Chunks
  BY TraceAssumption DEF Debugger!Around
<1>2. Debugger!loadTrace(c) \in Debugger!Traces /\ Debugger!loadTrace(c).chunk = c
  BY <1>1 DEF Debugger!loadTrace, Debugger!Traces
<1>3. QED
  BY <1>2, ReadAssumption

--------------------------------------------------------------------------------
(* The focus and its evidence: the invariant in parts, and its steps *)

TracesNow == {Debugger!loadTrace(c) : c \in Chunks \cup {None}}

\* The request q of a page that is on screen if m, for the answer a.
TraceFits(q, m, a) ==
    /\ Debugger!IsQuery(q) /\ (m <=> q.data # None)
    /\ q.data \in {None} \cup TracesNow
    /\ (q.served => q.loading /\ q.answer = a)
    /\ (Debugger!Settled(q) => q.data = a)

AnswerFor(key, state) == Debugger!loadTrace(Debugger!TraceChunk(key, state))

SelectionFits(initial, node) ==
    IF initial[1] = Debugger!NoPrefix THEN node \in PlainNodes ELSE node[1] = "origin" \/ node \in RetrievalNodes

ViewTypes ==
    /\ graphStage \in {"origin", "retrieval"} /\ artifactItem \in Chunks \cup {None}
    /\ artifactMode \in {"reader", "context"}
ViewFits == ViewTypes /\ (debuggerMounted => SelectionFits(selection.initial, selection.selected))

RequestNow == TraceFits(traceQuery, debuggerMounted, AnswerFor(chunkId, focusState))

LEMMA FocusParts == Debugger!FocusInv <=> Debugger!RouteInv /\ RequestNow /\ ViewFits
BY DEF Debugger!FocusInv, Debugger!RequestInv, Debugger!ViewInv, RequestNow, TraceFits, TracesNow,
   AnswerFor, ViewFits, ViewTypes, SelectionFits, PlainNodes, RetrievalNodes

\* What the page was opened on stays, and with it what a trace and a graph are.
LEMMA SameKind ==
    ASSUME kind' = kind
    PROVE  /\ RequestNow' <=> TraceFits(traceQuery', debuggerMounted', AnswerFor(chunkId', focusState'))
           /\ ViewFits' <=> ViewTypes' /\ (debuggerMounted' => SelectionFits(selection'.initial, selection'.selected))
<1>1. AnswerFor(chunkId, focusState)' = AnswerFor(chunkId', focusState')
  BY DEF AnswerFor, Debugger!loadTrace, Debugger!TraceChunk, Debugger!Focused, Debugger!Around
<1>2. TracesNow' = TracesNow
  BY DEF TracesNow, Debugger!loadTrace, Debugger!Around
<1>3. PlainNodes' = PlainNodes /\ RetrievalNodes' = RetrievalNodes
  BY DEF PlainNodes, RetrievalNodes, Debugger!graph, Debugger!combined, Debugger!Steps, Debugger!Range
<1>4. RequestNow' <=> TraceFits(traceQuery', debuggerMounted', AnswerFor(chunkId', focusState'))
  BY <1>1, <1>2 DEF RequestNow, TraceFits, Debugger!IsQuery, Debugger!Settled
<1>5. ViewFits' <=> ViewTypes' /\ (debuggerMounted' => SelectionFits(selection'.initial, selection'.selected))
  BY <1>3 DEF ViewFits, SelectionFits
<1>6. QED
  BY <1>4, <1>5

LEMMA ChunkAsked ==
    ASSUME NEW key \in Chunks \cup {None}, NEW state, state.item \in Chunks \cup {None}
    PROVE  /\ Debugger!TraceChunk(key, state) \in Chunks \cup {None}
           /\ AnswerFor(key, state) \in TracesNow /\ AnswerFor(key, state) # None
           /\ AnswerFor(key, state).chunk = Debugger!TraceChunk(key, state)
<1>1. Debugger!TraceChunk(key, state) \in Chunks \cup {None}
  BY DEF Debugger!TraceChunk, Debugger!Focused
<1>2. QED
  BY <1>1, TraceOf DEF AnswerFor, TracesNow

\* What the steps of the request make of it.
LEMMA RequestSteps ==
    ASSUME NEW q, NEW m, NEW a \in TracesNow, a # None, TraceFits(q, m, a)
    PROVE  /\ \A b : TraceFits(Debugger!Ask(q), m, b)
           /\ Debugger!Unserved(q) => TraceFits(Debugger!Serve(q, a), m, a)
           /\ q.served => TraceFits(Debugger!Land(q), TRUE, a)
           /\ q.loading => TraceFits(Debugger!Fault(q), m, a)
<1>1. q \in [data : {q.data}, loading : BOOLEAN, error : BOOLEAN, served : BOOLEAN, answer : {q.answer}]
  BY DEF TraceFits, Debugger!IsQuery
<1>2. /\ Debugger!IsQuery(Debugger!Ask(q)) /\ Debugger!Ask(q).data = q.data
      /\ ~Debugger!Ask(q).served /\ ~Debugger!Settled(Debugger!Ask(q))
  BY <1>1 DEF Debugger!IsQuery, Debugger!Ask, Debugger!Settled
<1>3. ASSUME Debugger!Unserved(q)
      PROVE  /\ Debugger!IsQuery(Debugger!Serve(q, a)) /\ Debugger!Serve(q, a).data = q.data
             /\ Debugger!Serve(q, a).answer = a /\ Debugger!Serve(q, a).loading
             /\ ~Debugger!Settled(Debugger!Serve(q, a))
  BY <1>1, <1>3 DEF Debugger!IsQuery, Debugger!Serve, Debugger!Settled, Debugger!Unserved
<1>4. ASSUME q.served
      PROVE  /\ Debugger!IsQuery(Debugger!Land(q)) /\ Debugger!Land(q).data = q.answer
             /\ ~Debugger!Land(q).served
  BY <1>1, <1>4 DEF Debugger!IsQuery, Debugger!Land
<1>5. ASSUME q.loading
      PROVE  /\ Debugger!IsQuery(Debugger!Fault(q)) /\ Debugger!Fault(q).data = q.data
             /\ ~Debugger!Fault(q).served /\ ~Debugger!Settled(Debugger!Fault(q))
  BY <1>1, <1>5 DEF Debugger!IsQuery, Debugger!Fault, Debugger!Settled
<1>6. /\ (m <=> q.data # None) /\ q.data \in {None} \cup TracesNow
      /\ (q.served => q.answer = a)
  BY DEF TraceFits
<1>7. \A b : TraceFits(Debugger!Ask(q), m, b)
  BY <1>2, <1>6 DEF TraceFits
<1>8. Debugger!Unserved(q) => TraceFits(Debugger!Serve(q, a), m, a)
  BY <1>3, <1>6 DEF TraceFits
<1>9. q.served => TraceFits(Debugger!Land(q), TRUE, a)
  BY <1>4, <1>6 DEF TraceFits
<1>10. q.loading => TraceFits(Debugger!Fault(q), m, a)
  BY <1>5, <1>6 DEF TraceFits
<1>11. QED
  BY <1>7, <1>8, <1>9, <1>10

\* The request is made again when the chunk changes, and only then.
LEMMA RefetchFits ==
    ASSUME Debugger!RouteInv, RequestNow, NEW key, NEW state, Debugger!Refetch(key, state)
    PROVE  TraceFits(traceQuery', debuggerMounted, AnswerFor(key, state))
<1>1. AnswerFor(chunkId, focusState) \in TracesNow /\ AnswerFor(chunkId, focusState) # None
  BY ChunkAsked DEF Debugger!RouteInv
<1>2. CASE Debugger!TraceChunk(key, state) = Debugger!TraceChunk(chunkId, focusState)
  BY <1>2 DEF Debugger!Refetch, RequestNow, AnswerFor
<1>3. CASE Debugger!TraceChunk(key, state) # Debugger!TraceChunk(chunkId, focusState)
  <2>1. traceQuery' = Debugger!Ask(traceQuery)
    BY <1>3 DEF Debugger!Refetch
  <2>2. QED
    BY <1>1, <2>1, RequestSteps DEF RequestNow
<1>4. QED
  BY <1>2, <1>3

\* What is asked for is set in the page at once, and in the address by a
\* navigation that comes last.
LEMMA FocusSet ==
    ASSUME Debugger!RouteInv, RequestNow, NEW c \in Chunks \cup {None}, Debugger!setFocus(c)
    PROVE  Debugger!RouteInv' /\ RequestNow' /\ UNCHANGED <<kind, debuggerMounted>>
<1> DEFINE state == [key |-> chunkId, item |-> c]
<1>1. /\ focusState' = state /\ asked' = c /\ navigations' = Append(navigations, c)
      /\ Debugger!Refetch(chunkId, state) /\ UNCHANGED <<kind, chunkId, debuggerMounted>>
  BY DEF Debugger!setFocus
<1>2. /\ kind \in {"query", "document"} /\ chunkId \in Chunks \cup {None}
      /\ navigations \in Seq(Chunks \cup {None})
  BY DEF Debugger!RouteInv
<1>3. /\ Append(navigations, c) \in Seq(Chunks \cup {None}) /\ Append(navigations, c) # << >>
      /\ Append(navigations, c)[Len(Append(navigations, c))] = c
  BY <1>2, Dataset!AppendProperties
<1>4. Debugger!RouteInv'
  BY <1>1, <1>2, <1>3 DEF Debugger!RouteInv
<1>5. TraceFits(traceQuery', debuggerMounted, AnswerFor(chunkId, state))
  BY <1>1, RefetchFits
<1>6. QED
  BY <1>1, <1>4, <1>5, SameKind

\* A navigation takes effect, and what it overtook is dropped.
LEMMA Navigated ==
    ASSUME Debugger!RouteInv, RequestNow, Debugger!Navigate
    PROVE  Debugger!RouteInv' /\ RequestNow' /\ UNCHANGED <<kind, debuggerMounted>>
<1>1. PICK i \in DOMAIN navigations :
        /\ chunkId' = navigations[i] /\ navigations' = SubSeq(navigations, i + 1, Len(navigations))
        /\ Debugger!Refetch(navigations[i], focusState)
        /\ UNCHANGED <<kind, focusState, asked, debuggerMounted>>
  BY DEF Debugger!Navigate, Debugger!view
<1>2. /\ kind \in {"query", "document"} /\ chunkId \in Chunks \cup {None} /\ asked \in Chunks \cup {None}
      /\ focusState \in [key : Chunks \cup {None}, item : {asked}]
      /\ navigations \in Seq(Chunks \cup {None})
  BY DEF Debugger!RouteInv
<1> DEFINE n == Len(navigations)
<1>3. /\ n \in Nat /\ i \in 1 .. n /\ \A j \in 1 .. n : navigations[j] \in Chunks \cup {None}
  BY <1>1, <1>2, Dataset!LenProperties
<1>4. navigations[n] = asked
  BY <1>2, <1>3, Dataset!EmptySeq DEF Debugger!RouteInv
<1>5. /\ SubSeq(navigations, i + 1, n) \in Seq(Chunks \cup {None})
      /\ Len(SubSeq(navigations, i + 1, n)) = n - i
      /\ \A j \in 1 .. n - i : SubSeq(navigations, i + 1, n)[j] = navigations[i + j]
  <2>1. i + 1 \in Int /\ n \in Int /\ n - (i + 1) + 1 = n - i
        /\ \A j \in i + 1 .. n : navigations[j] \in Chunks \cup {None}
    BY <1>3
  <2>2. /\ SubSeq(navigations, i + 1, n) \in Seq(Chunks \cup {None})
        /\ Len(SubSeq(navigations, i + 1, n)) = IF i + 1 <= n THEN n - (i + 1) + 1 ELSE 0
        /\ \A j \in 1 .. n - (i + 1) + 1 : SubSeq(navigations, i + 1, n)[j] = navigations[(i + 1) + j - 1]
    BY <2>1, Dataset!SubSeqProperties
  <2>3. \A j \in 1 .. n - i : (i + 1) + j - 1 = i + j
    BY <1>3
  <2>4. QED
    BY <1>3, <2>1, <2>2, <2>3
<1>6. navigations' = << >> => chunkId' = asked
  <2>1. navigations' = << >> => n - i = 0
    BY <1>1, <1>5, Dataset!EmptySeq
  <2>2. QED
    BY <1>1, <1>3, <1>4, <2>1
<1>7. navigations' # << >> => navigations'[Len(navigations')] = asked
  <2>1. navigations' # << >> => n - i # 0
    <3>1. ASSUME n - i = 0 PROVE navigations' = << >>
      BY <1>1, <1>5, <3>1
    <3>2. QED
      BY <3>1
  <2>2. n - i \in Nat /\ i + (n - i) = n
    <3> HIDE DEF n
    <3>1. QED
      BY <1>3
  <2>3. ASSUME n - i # 0 PROVE navigations'[n - i] = asked
    <3>1. n - i \in 1 .. n - i
      BY <2>2, <2>3
    <3>2. navigations'[n - i] = navigations[i + (n - i)]
      BY <1>1, <1>5, <3>1
    <3>3. QED
      BY <1>4, <2>2, <3>2
  <2>4. Len(navigations') = n - i
    BY <1>1, <1>5
  <2>5. ASSUME navigations' # << >> PROVE navigations'[Len(navigations')] = asked
    <3>1. navigations'[n - i] = asked
      BY <2>1, <2>3, <2>5
    <3> HIDE DEF n
    <3>2. QED
      BY <2>4, <3>1
  <2>6. QED
    BY <2>5
<1>8. Debugger!RouteInv'
  <2>1. /\ navigations' \in Seq(Chunks \cup {None}) /\ chunkId' \in Chunks \cup {None}
        /\ asked' = asked /\ kind' = kind /\ focusState' = focusState
    BY <1>1, <1>3, <1>5
  <2>2. IF navigations' = << >> THEN chunkId' = asked' ELSE navigations'[Len(navigations')] = asked'
    BY <1>6, <1>7, <2>1
  <2>3. QED
    BY <1>2, <2>1, <2>2 DEF Debugger!RouteInv
<1>9. TraceFits(traceQuery', debuggerMounted, AnswerFor(navigations[i], focusState))
  BY <1>1, RefetchFits
<1>10. QED
  BY <1>1, <1>8, <1>9, SameKind

\* While neither moves, the request is answered, fails, or is made again.
LEMMA Requested ==
    ASSUME Debugger!RouteInv, RequestNow,
           Debugger!ServeTrace \/ Debugger!LandTrace \/ Debugger!FailTrace \/ Debugger!Refresh
    PROVE  Debugger!RouteInv' /\ RequestNow' /\ kind' = kind
<1> DEFINE a == AnswerFor(chunkId, focusState)
<1>1. UNCHANGED <<kind, chunkId, navigations, focusState, asked>>
  BY DEF Debugger!ServeTrace, Debugger!LandTrace, Debugger!FailTrace, Debugger!Refresh, Debugger!route
<1>2. a \in TracesNow /\ a # None /\ TraceFits(traceQuery, debuggerMounted, a)
  BY ChunkAsked DEF Debugger!RouteInv, RequestNow
<1>3. TraceFits(traceQuery', debuggerMounted', a)
  <2>1. CASE Debugger!ServeTrace
    <3>1. /\ Debugger!Unserved(traceQuery) /\ traceQuery' = Debugger!Serve(traceQuery, a)
          /\ debuggerMounted' = debuggerMounted
      BY <2>1 DEF Debugger!ServeTrace, AnswerFor
    <3>2. QED
      BY <1>2, <3>1, RequestSteps
  <2>2. CASE Debugger!LandTrace
    <3>1. traceQuery.served /\ traceQuery' = Debugger!Land(traceQuery) /\ debuggerMounted' = TRUE
      BY <2>2 DEF Debugger!LandTrace
    <3>2. QED
      BY <1>2, <3>1, RequestSteps
  <2>3. CASE Debugger!FailTrace
    <3>1. traceQuery.loading /\ traceQuery' = Debugger!Fault(traceQuery) /\ debuggerMounted' = debuggerMounted
      BY <2>3 DEF Debugger!FailTrace
    <3>2. QED
      BY <1>2, <3>1, RequestSteps
  <2>4. CASE Debugger!Refresh
    <3>1. traceQuery' = Debugger!Ask(traceQuery) /\ debuggerMounted' = debuggerMounted
      BY <2>4 DEF Debugger!Refresh
    <3>2. QED
      BY <1>2, <3>1, RequestSteps
  <2>5. QED
    BY <2>1, <2>2, <2>3, <2>4
<1>4. Debugger!RouteInv'
  BY <1>1 DEF Debugger!RouteInv
<1>5. QED
  BY <1>1, <1>3, <1>4, SameKind

--------------------------------------------------------------------------------
(* The views of a trace, and the whole of the debugger *)

LEMMA TraceShown ==
    ASSUME RequestNow, debuggerMounted
    PROVE  /\ Debugger!Loaded \in Debugger!Traces /\ Debugger!Loaded.chunk \in Chunks \cup {None}
           /\ Debugger!contextItems \subseteq Chunks
<1>1. traceQuery.data \in TracesNow
  BY DEF RequestNow, TraceFits
<1>2. PICK c \in Chunks \cup {None} : traceQuery.data = Debugger!loadTrace(c)
  BY <1>1 DEF TracesNow
<1>3. Debugger!Loaded \in Debugger!Traces /\ Debugger!Loaded.chunk = c
  BY <1>2, TraceOf DEF Debugger!Loaded
<1>4. Debugger!Loaded.context \subseteq Chunks
  BY <1>3 DEF Debugger!Traces
<1>5. QED
  BY <1>3, <1>4 DEF Debugger!contextItems

\* Two nodes of one graph are a selection that fits.
LEMMA NodesSelected ==
    ASSUME NEW t \in Debugger!Traces, NEW a \in Debugger!NodesOf(t), NEW b \in Debugger!NodesOf(t)
    PROVE  SelectionFits(a, b)
<1>1. CASE t.origin = None
  BY <1>1, GraphOf DEF SelectionFits
<1>2. CASE t.origin # None
  <2>1. \A n \in Debugger!NodesOf(t) : n[1] = "origin" \/ (n[1] = "retrieval" /\ n \in RetrievalNodes)
    BY <1>2, GraphOf
  <2>2. QED
    BY <2>1 DEF SelectionFits, Debugger!NoPrefix
<1>3. QED
  BY <1>1, <1>2

LEMMA NodeSelected ==
    ASSUME Debugger!RouteInv, RequestNow, ViewFits, debuggerMounted,
           NEW n \in Debugger!NodesOf(Debugger!Loaded), Debugger!selectTraceNode(n)
    PROVE  Debugger!RouteInv' /\ RequestNow' /\ ViewFits'
<1> DEFINE t == Debugger!Loaded
           i == Debugger!initialExecutionNodeId(t, Debugger!focusedItemId)
<1>1. /\ graphStage' \in Debugger!StageOf(n) /\ selection' = [initial |-> i, selected |-> n]
      /\ UNCHANGED <<kind, chunkId, navigations, focusState, asked, traceQuery, debuggerMounted,
                     artifactItem, artifactMode>>
  BY DEF Debugger!selectTraceNode, Debugger!Rest, Debugger!route
<1>2. t \in Debugger!Traces
  BY TraceShown
<1> HIDE DEF t
<1>3. graphStage' \in {"origin", "retrieval"}
  <2>1. graphStage' \in {s.stage : s \in {x \in Debugger!Range(Debugger!graph(t)) : x.node = n}}
    BY <1>1 DEF Debugger!StageOf, t
  <2>2. QED
    BY <1>2, <2>1, GraphOf
<1>4. i \in Debugger!NodesOf(t)
  BY <1>2, OpensInside
<1>5. SelectionFits(i, n)
  BY <1>2, <1>4, NodesSelected DEF t
<1> HIDE DEF i
<1>6. ViewFits'
  BY <1>1, <1>3, <1>5, SameKind DEF ViewFits, ViewTypes
<1>7. RequestNow'
  BY <1>1, SameKind DEF RequestNow
<1>8. QED
  BY <1>1, <1>6, <1>7 DEF Debugger!RouteInv

\* Nothing but the view changes.
Views(A) ==
    A => /\ UNCHANGED <<kind, chunkId, navigations, focusState, asked, traceQuery, debuggerMounted, selection>>
         /\ ViewTypes'

LEMMA ViewsChange ==
    ASSUME RequestNow, ViewFits
    PROVE  /\ Views(\E t \in {"explanation", "data"} : Debugger!selectTab(t))
           /\ Views(\E s \in {"origin", "retrieval"} : Debugger!setGraphStage(s))
           /\ Views(\E b \in BOOLEAN : Debugger!togglePath(b))
           /\ Views(\E m \in {"reader", "context"} : Debugger!setContextMode(m))
           /\ Views(Debugger!closeArtifact) /\ Views(Debugger!FocusHeader)
           /\ \A c \in Chunks : Views(Debugger!openArtifact(c, "reader"))
<1>1. Views(\E t \in {"explanation", "data"} : Debugger!selectTab(t))
  BY DEF Views, ViewFits, ViewTypes, Debugger!selectTab, Debugger!Rest, Debugger!route
<1>2. Views(\E s \in {"origin", "retrieval"} : Debugger!setGraphStage(s))
  BY DEF Views, ViewFits, ViewTypes, Debugger!setGraphStage, Debugger!Rest, Debugger!route
<1>3. Views(\E b \in BOOLEAN : Debugger!togglePath(b))
  BY DEF Views, ViewFits, ViewTypes, Debugger!togglePath, Debugger!Rest, Debugger!route
<1>4. Views(\E m \in {"reader", "context"} : Debugger!setContextMode(m))
  BY DEF Views, ViewFits, ViewTypes, Debugger!setContextMode, Debugger!Rest, Debugger!route
<1>5. Views(Debugger!closeArtifact)
  BY DEF Views, ViewFits, ViewTypes, Debugger!closeArtifact, Debugger!Rest, Debugger!route
<1>6. ASSUME NEW c, NEW m \in {"reader", "context"}, Debugger!openArtifact(c, m)
      PROVE  /\ UNCHANGED <<kind, chunkId, navigations, focusState, asked, traceQuery, debuggerMounted, selection>>
             /\ ViewTypes'
  <2>1. /\ debuggerMounted /\ Debugger!focusedItem # None /\ artifactItem' = c /\ artifactMode' = m
        /\ c \in Debugger!contextItems \cup {Debugger!focusedItem} /\ graphStage' = graphStage
        /\ UNCHANGED <<kind, chunkId, navigations, focusState, asked, traceQuery, debuggerMounted, selection>>
    BY <1>6 DEF Debugger!openArtifact, Debugger!Seen, Debugger!Rest, Debugger!route
  <2>2. Debugger!focusedItem \in Chunks \cup {None} /\ Debugger!contextItems \subseteq Chunks
    BY <2>1, TraceShown DEF Debugger!focusedItem
  <2>3. QED
    BY <2>1, <2>2 DEF ViewFits, ViewTypes
<1>7. Views(Debugger!FocusHeader)
  BY <1>6 DEF Views, Debugger!FocusHeader
<1>8. \A c \in Chunks : Views(Debugger!openArtifact(c, "reader"))
  BY <1>6 DEF Views
<1>9. QED
  BY <1>1, <1>2, <1>3, <1>4, <1>5, <1>7, <1>8

LEMMA ViewChanged ==
    ASSUME Debugger!RouteInv, RequestNow, ViewFits, ViewTypes',
           UNCHANGED <<kind, chunkId, navigations, focusState, asked, traceQuery, debuggerMounted, selection>>
    PROVE  Debugger!RouteInv' /\ RequestNow' /\ ViewFits'
<1>1. RequestNow' /\ ViewFits'
  BY SameKind DEF RequestNow, ViewFits
<1>2. QED
  BY <1>1 DEF Debugger!RouteInv

\* The focus changes and the debugger stays.
LEMMA FocusChanged ==
    ASSUME Debugger!RouteInv, RequestNow, ViewFits,
           (\E c \in Chunks : Debugger!focusResult(c)) \/ Debugger!clearResult \/ Debugger!Navigate
    PROVE  Debugger!RouteInv' /\ RequestNow' /\ ViewFits'
<1>1. UNCHANGED <<selection, graphStage, artifactMode>> /\ artifactItem' \in {artifactItem, None}
  BY DEF Debugger!focusResult, Debugger!clearResult, Debugger!Navigate, Debugger!view
<1>2. Debugger!RouteInv' /\ RequestNow' /\ UNCHANGED <<kind, debuggerMounted>>
  <2>1. CASE Debugger!Navigate
    BY <2>1, Navigated
  <2>2. ASSUME NEW c \in Chunks \cup {None}, Debugger!setFocus(c)
        PROVE  Debugger!RouteInv' /\ RequestNow' /\ UNCHANGED <<kind, debuggerMounted>>
    BY <2>2, FocusSet
  <2>3. QED
    BY <2>1, <2>2 DEF Debugger!focusResult, Debugger!clearResult
<1>3. ViewTypes'
  BY <1>1 DEF ViewFits, ViewTypes
<1>4. QED
  BY <1>1, <1>2, <1>3, SameKind DEF ViewFits

\* The first answer opens the debugger at a node of its graph.
LEMMA AnswerShown ==
    ASSUME Debugger!RouteInv, RequestNow, ViewFits,
           Debugger!ServeTrace \/ Debugger!LandTrace \/ Debugger!FailTrace \/ Debugger!Refresh
    PROVE  Debugger!RouteInv' /\ RequestNow' /\ ViewFits'
<1>1. Debugger!RouteInv' /\ RequestNow' /\ kind' = kind
  BY Requested
<1>2. CASE Debugger!LandTrace /\ ~debuggerMounted
  <2> DEFINE t == traceQuery.answer
             n == Debugger!initialExecutionNodeId(t, Debugger!focusedItemId)
  <2>1. /\ traceQuery.served /\ selection' = [initial |-> n, selected |-> n]
        /\ graphStage' = Debugger!initialStage(t) /\ UNCHANGED <<artifactItem, artifactMode>>
    BY <1>2 DEF Debugger!LandTrace
  <2>2. t = AnswerFor(chunkId, focusState)
    BY <2>1 DEF RequestNow, TraceFits
  <2>3. t \in TracesNow
    BY <2>2, ChunkAsked DEF Debugger!RouteInv
  <2>4. t \in Debugger!Traces
    BY <2>3, TraceOf DEF TracesNow
  <2> HIDE DEF t
  <2>5. n \in Debugger!NodesOf(t) /\ Debugger!initialStage(t) \in {"origin", "retrieval"}
    BY <2>4, OpensInside
  <2> HIDE DEF n
  <2>6. SelectionFits(n, n)
    BY <2>4, <2>5, NodesSelected
  <2>7. ViewTypes'
    BY <2>1, <2>5 DEF ViewFits, ViewTypes
  <2>8. QED
    BY <1>1, <2>1, <2>6, <2>7, SameKind
<1>3. CASE ~(Debugger!LandTrace /\ ~debuggerMounted)
  <2>1. UNCHANGED <<selection, graphStage, artifactItem, artifactMode>> /\ (debuggerMounted' => debuggerMounted)
    BY <1>3 DEF Debugger!ServeTrace, Debugger!LandTrace, Debugger!FailTrace, Debugger!Refresh, Debugger!view
  <2>2. ViewTypes'
    BY <2>1 DEF ViewFits, ViewTypes
  <2>3. QED
    BY <1>1, <2>1, <2>2, SameKind DEF ViewFits
<1>4. QED
  BY <1>1, <1>2, <1>3

LEMMA FocusStep == Debugger!FocusInv /\ [Debugger!Next]_(Debugger!vars) => Debugger!FocusInv'
<1> SUFFICES ASSUME Debugger!RouteInv, RequestNow, ViewFits, [Debugger!Next]_(Debugger!vars)
             PROVE  Debugger!RouteInv' /\ RequestNow' /\ ViewFits'
  <2>1. Debugger!FocusInv' <=> Debugger!RouteInv' /\ RequestNow' /\ ViewFits'
    BY FocusParts, PTL
  <2>2. QED
    BY <2>1, FocusParts
<1>1. CASE Debugger!ServeTrace \/ Debugger!LandTrace \/ Debugger!FailTrace \/ Debugger!Refresh
  BY <1>1, AnswerShown
<1>2. CASE Debugger!clearResult \/ Debugger!Navigate
  BY <1>2, FocusChanged
<1>3. CASE Debugger!RankedResults
  <2>1. PICK c \in Chunks : Debugger!focusResult(c) \/ Debugger!openArtifact(c, "reader")
    BY <1>3 DEF Debugger!RankedResults
  <2>2. CASE Debugger!focusResult(c)
    BY <2>2, FocusChanged
  <2>3. CASE Debugger!openArtifact(c, "reader")
    BY <2>3, ViewsChange, ViewChanged DEF Views
  <2>4. QED
    BY <2>1, <2>2, <2>3
<1>4. CASE \/ Debugger!closeArtifact \/ Debugger!FocusHeader
           \/ \E t \in {"explanation", "data"} : Debugger!selectTab(t)
           \/ \E s \in {"origin", "retrieval"} : Debugger!setGraphStage(s)
           \/ \E b \in BOOLEAN : Debugger!togglePath(b)
           \/ \E m \in {"reader", "context"} : Debugger!setContextMode(m)
  <2>1. /\ UNCHANGED <<kind, chunkId, navigations, focusState, asked, traceQuery, debuggerMounted, selection>>
        /\ ViewTypes'
    BY <1>4, ViewsChange DEF Views
  <2>2. QED
    BY <2>1, ViewChanged
<1>5. CASE Debugger!ExecutionLedger \/ Debugger!RankPath \/ Debugger!FlowNode
  <2>1. debuggerMounted /\ Debugger!displayGraph \subseteq Debugger!NodesOf(Debugger!Loaded)
    BY <1>5 DEF Debugger!ExecutionLedger, Debugger!RankPath, Debugger!FlowNode, Debugger!displayGraph, Debugger!NodesOf
  <2>2. PICK n \in Debugger!NodesOf(Debugger!Loaded) : Debugger!selectTraceNode(n)
    BY <1>5, <2>1 DEF Debugger!ExecutionLedger, Debugger!RankPath, Debugger!FlowNode
  <2>3. QED
    BY <2>1, <2>2, NodeSelected
<1>6. CASE UNCHANGED Debugger!vars
  <2>1. UNCHANGED <<kind, chunkId, navigations, focusState, asked, traceQuery, debuggerMounted, selection,
                    graphStage, artifactItem, artifactMode>>
    BY <1>6 DEF Debugger!vars
  <2>2. ViewTypes'
    BY <2>1 DEF ViewFits, ViewTypes
  <2>3. QED
    BY <2>1, <2>2, ViewChanged
<1>7. QED
  BY <1>1, <1>2, <1>3, <1>4, <1>5, <1>6 DEF Debugger!Next

LEMMA FocusStart == Debugger!Init => Debugger!FocusInv
<1> SUFFICES ASSUME Debugger!Init PROVE Debugger!RouteInv /\ RequestNow /\ ViewFits
  BY FocusParts
<1>1. /\ kind \in {"query", "document"} /\ chunkId \in Chunks \cup {None} /\ navigations = << >>
      /\ focusState = [key |-> chunkId, item |-> chunkId] /\ asked = chunkId
      /\ traceQuery = Debugger!Ask(Debugger!NewQuery) /\ debuggerMounted = FALSE
      /\ graphStage = "retrieval" /\ artifactItem = None /\ artifactMode = "reader"
  BY DEF Debugger!Init
<1>2. Debugger!RouteInv
  BY <1>1, Dataset!EmptySeq DEF Debugger!RouteInv
<1>3. /\ Debugger!IsQuery(traceQuery) /\ traceQuery.data = None /\ ~traceQuery.served
      /\ ~Debugger!Settled(traceQuery)
  BY <1>1 DEF Debugger!Ask, Debugger!NewQuery, Debugger!IsQuery, Debugger!Settled
<1>4. RequestNow
  BY <1>1, <1>3 DEF RequestNow, TraceFits
<1>5. ViewFits
  BY <1>1 DEF ViewFits, ViewTypes
<1>6. QED
  BY <1>2, <1>4, <1>5

LEMMA FocusMeans ==
    Debugger!FocusInv => /\ Debugger!TypeOK /\ Debugger!FocusIsAsked /\ Debugger!EvidenceOfFocus
                         /\ Debugger!SelectionIsANode
<1> SUFFICES ASSUME Debugger!RouteInv, RequestNow, ViewFits
             PROVE  /\ Debugger!TypeOK /\ Debugger!FocusIsAsked /\ Debugger!EvidenceOfFocus
                    /\ Debugger!SelectionIsANode
  BY FocusParts
<1>1. /\ chunkId \in Chunks \cup {None} /\ asked \in Chunks \cup {None}
      /\ focusState \in [key : Chunks \cup {None}, item : {asked}]
      /\ navigations = << >> => chunkId = asked
  BY DEF Debugger!RouteInv
<1>2. Debugger!TypeOK
  <2>1. /\ traceQuery.data \in {None} \cup TracesNow /\ (debuggerMounted <=> traceQuery.data # None)
    BY DEF RequestNow, TraceFits
  <2>2. focusState.item \in Chunks \cup {None}
    BY <1>1
  <2>3. QED
    BY <1>1, <2>1, <2>2 DEF Debugger!TypeOK, TracesNow, ViewFits, ViewTypes
<1>3. Debugger!FocusIsAsked
  BY <1>1 DEF Debugger!FocusIsAsked, Debugger!focusedItemId, Debugger!Focused
<1>4. Debugger!EvidenceOfFocus
  <2> SUFFICES ASSUME navigations = << >>, Debugger!Settled(traceQuery)
               PROVE  Debugger!Loaded.chunk = asked
    BY DEF Debugger!EvidenceOfFocus
  <2>1. traceQuery.data = AnswerFor(chunkId, focusState)
    BY DEF RequestNow, TraceFits
  <2>2. Debugger!TraceChunk(chunkId, focusState) = asked
    BY <1>1 DEF Debugger!TraceChunk, Debugger!Focused
  <2>3. AnswerFor(chunkId, focusState).chunk = Debugger!TraceChunk(chunkId, focusState)
    BY <1>1, ChunkAsked
  <2>4. QED
    BY <2>1, <2>2, <2>3 DEF Debugger!Loaded
<1>5. Debugger!SelectionIsANode
  <2> SUFFICES ASSUME debuggerMounted
               PROVE  Debugger!selectedNodeId \in Debugger!NodesOf(Debugger!Loaded) \/ Debugger!selectedNodeId[1] = "origin"
    BY DEF Debugger!SelectionIsANode
  <2> DEFINE t == Debugger!Loaded
             i == Debugger!initialExecutionNodeId(t, Debugger!focusedItemId)
  <2>1. t \in Debugger!Traces
    BY TraceShown
  <2>2. Debugger!selectedNodeId = IF selection.initial = i THEN selection.selected ELSE i
    BY DEF Debugger!selectedNodeId
  <2>3. SelectionFits(selection.initial, selection.selected)
    BY DEF ViewFits
  <2> HIDE DEF t
  <2>4. i \in Debugger!NodesOf(t)
    BY <2>1, OpensInside
  <2> HIDE DEF i
  <2>5. ASSUME selection.initial = i
        PROVE  selection.selected \in Debugger!NodesOf(t) \/ selection.selected[1] = "origin"
    <3>1. CASE t.origin = None
      <4>1. Debugger!NodesOf(t) = PlainNodes /\ \A n \in PlainNodes : n[1] = Debugger!NoPrefix
        BY <2>1, <3>1, GraphOf
      <4>2. QED
        BY <2>3, <2>4, <2>5, <4>1 DEF SelectionFits
    <3>2. CASE t.origin # None
      <4>1. /\ \A n \in Debugger!NodesOf(t) : n[1] = "origin" \/ (n[1] = "retrieval" /\ n \in RetrievalNodes)
            /\ RetrievalNodes \subseteq Debugger!NodesOf(t)
        BY <2>1, <3>2, GraphOf
      <4>2. i[1] # Debugger!NoPrefix
        BY <2>4, <4>1 DEF Debugger!NoPrefix
      <4>3. QED
        BY <2>3, <2>5, <4>1, <4>2 DEF SelectionFits
    <3>3. QED
      BY <3>1, <3>2
  <2>6. QED
    BY <2>2, <2>4, <2>5 DEF t
<1>6. QED
  BY <1>2, <1>3, <1>4, <1>5

--------------------------------------------------------------------------------
(* The wizard of a new run: what it asks for, and its steps *)

RunWizardFits(w, p) ==
    w # None => /\ w \in NewRun!Wizards /\ (w.busy => p # None)
                /\ (w.input # NewRun!Unset <=> w.typedFor # None)
                /\ w.typedFor \in {None, w.retrieval}

LaunchedFits(p) ==
    p # None =>
        /\ p \in NewRun!Payloads /\ p.queries >= 1 /\ p.ks # {}
        /\ (~p.override => p.queries <= NewRun!Max({1, Datasets[p.dataset]}))
        /\ NewRun!Accepted(p) =>
              /\ (p.typed => p.typedFor = p.retrieval) /\ p.input <= Limit[p.retrieval]
              /\ p.input # NewRun!Blank => \A k \in p.ks \ p.warned : k <= NewRun!ServedDepth(p)

LEMMA RunWizardParts ==
    /\ NewRun!RunWizardInv <=> /\ RunWizardFits(wizard, launched) /\ LaunchedFits(launched)
                               /\ newRunListed \subseteq DOMAIN Datasets
    /\ NewRun!RunWizardInv' <=> /\ RunWizardFits(wizard', launched') /\ LaunchedFits(launched')
                                /\ newRunListed' \subseteq DOMAIN Datasets
<1>1. NewRun!RunWizardInv <=> /\ RunWizardFits(wizard, launched) /\ LaunchedFits(launched)
                              /\ newRunListed \subseteq DOMAIN Datasets
  BY DEF NewRun!RunWizardInv, RunWizardFits, LaunchedFits, NewRun!InputsFit, NewRun!UnwarnedIsServed,
     NewRun!RunIsMeaningful, NewRun!Ran
<1>2. NewRun!RunWizardInv' <=> /\ RunWizardFits(wizard', launched') /\ LaunchedFits(launched')
                               /\ newRunListed' \subseteq DOMAIN Datasets
  BY DEF NewRun!RunWizardInv, RunWizardFits, LaunchedFits, NewRun!InputsFit, NewRun!UnwarnedIsServed,
     NewRun!RunIsMeaningful, NewRun!Ran
<1>3. QED
  BY <1>1, <1>2

LEMMA Least ==
    ASSUME NEW S, \E m \in S : \A i \in S : m <= i
    PROVE  NewRun!Min(S) \in S /\ \A i \in S : NewRun!Min(S) <= i
BY DEF NewRun!Min

LEMMA Greatest ==
    ASSUME NEW S \in SUBSET Nat, \E m \in S : \A i \in S : i <= m
    PROVE  NewRun!Max(S) \in S /\ \A i \in S : i <= NewRun!Max(S)
<1>1. \E m \in S : \A i \in S : m >= i
  OBVIOUS
<1>2. NewRun!Max(S) \in S /\ \A i \in S : NewRun!Max(S) >= i
  BY <1>1 DEF NewRun!Max
<1>3. QED
  BY <1>2

\* The deepest cutoff, and one of any set of numbers that has few.
LEMMA DeepestCutoff ==
    ASSUME NEW ks \in SUBSET Cutoffs
    PROVE  NewRun!MaxK(ks) \in Nat /\ \A k \in ks : k \in Nat /\ k <= NewRun!MaxK(ks)
<1>1. ks \in SUBSET Nat /\ IsFiniteSet(ks)
  BY WizardsAssumption, FS_Subset
<1>2. Dataset!IsFiniteSet(ks)
  BY <1>1 DEF IsFiniteSet, Dataset!IsFiniteSet
<1>3. ks # {} => \E m \in ks : \A i \in ks : i <= m
  BY <1>1, <1>2, Dataset!Extremes
<1>4. ks # {} => NewRun!Max(ks) \in ks /\ \A i \in ks : i <= NewRun!Max(ks)
  BY <1>1, <1>3, Greatest
<1>5. QED
  BY <1>1, <1>4 DEF NewRun!MaxK

LEMMA LeastOfThree ==
    ASSUME NEW a \in Nat, NEW b \in Nat, NEW C, C = {} \/ \E c \in Nat : C = {c}
    PROVE  /\ NewRun!Min({a, b} \cup C) \in Nat /\ NewRun!Min({a, b} \cup C) <= a
           /\ NewRun!Min({a, b} \cup C) <= b /\ \A c \in C : NewRun!Min({a, b} \cup C) <= c
<1> DEFINE S == {a, b} \cup C
<1>1. S \in SUBSET Nat
  OBVIOUS
<1>2. \E m \in S : \A i \in S : m <= i
  OBVIOUS
<1>3. NewRun!Min(S) \in S /\ \A i \in S : NewRun!Min(S) <= i
  BY <1>2, Least
<1>4. QED
  BY <1>1, <1>3

LEMMA Choices ==
    ASSUME NEW w \in NewRun!Wizards
    PROVE  /\ w.ks \in SUBSET Cutoffs /\ w.retrieval \in DOMAIN Limit \cup {None}
           /\ (w.input \in Nat \/ w.input = NewRun!Unset)
           /\ (w.queries \in Nat \/ w.queries = NewRun!Unset)
<1>1. /\ w.ks \in SUBSET Cutoffs /\ w.retrieval \in DOMAIN Limit \cup {None}
      /\ w.input \in Typed \cup {NewRun!Unset, NewRun!Blank}
      /\ w.queries \in Typed \cup {NewRun!Unset, NewRun!Blank}
  BY DEF NewRun!Wizards, NewRun!Retrieval
<1>2. Typed \subseteq Nat /\ NewRun!Blank \in Nat
  BY WizardsAssumption DEF NewRun!Blank
<1>3. QED
  BY <1>1, <1>2

\* What the wizard asks for, once a retrieval pipeline is chosen.
LEMMA InputOf ==
    ASSUME NEW w \in NewRun!Wizards, w.retrieval # None
    PROVE  /\ NewRun!coerceInputs(w) \in Nat /\ NewRun!coerceInputs(w) <= Limit[w.retrieval]
           /\ \A k \in w.ks \ NewRun!truncatedCutoffs(w) :
                 /\ k <= NodeCap[w.retrieval]
                 /\ NewRun!coerceInputs(w) # NewRun!Blank => k <= NewRun!coerceInputs(w)
<1> DEFINE c == NewRun!coerceInputs(w)  C == IF c = NewRun!Blank THEN {} ELSE {c}
           r == w.retrieval  m == NewRun!MaxK(w.ks)
<1>1. /\ r \in DOMAIN Limit /\ Limit[r] \in Nat \ {0} /\ NodeCap[r] \in Nat
      /\ w.ks \in SUBSET Cutoffs /\ (w.input \in Nat \/ w.input = NewRun!Unset)
  BY Choices, WizardsAssumption
<1>2. m \in Nat
  BY <1>1, DeepestCutoff
<1>3. c \in Nat /\ c <= Limit[r]
  BY <1>1, <1>2 DEF NewRun!coerceInputs, NewRun!clampToBounds, NewRun!Blank, NewRun!Unset
<1>4. NewRun!effectiveResultDepth(w) = NewRun!Min({m, NodeCap[r]} \cup C)
  BY DEF NewRun!effectiveResultDepth
<1>5. \A k \in w.ks : k \in Nat
  BY <1>1, DeepestCutoff
<1>6. \A k \in w.ks \ NewRun!truncatedCutoffs(w) : ~(k > NewRun!effectiveResultDepth(w))
  BY DEF NewRun!truncatedCutoffs
<1> HIDE DEF c, m
<1>7. C = {} \/ \E i \in Nat : C = {i}
  BY <1>3
<1>7a. m \in Nat /\ NodeCap[r] \in Nat
  BY <1>1, <1>2
<1> HIDE DEF r, C
<1>7b. /\ NewRun!Min({m, NodeCap[r]} \cup C) \in Nat /\ NewRun!Min({m, NodeCap[r]} \cup C) <= NodeCap[r]
       /\ \A i \in C : NewRun!Min({m, NodeCap[r]} \cup C) <= i
  BY <1>7, <1>7a, LeastOfThree
<1>8. /\ NewRun!effectiveResultDepth(w) \in Nat /\ NewRun!effectiveResultDepth(w) <= NodeCap[r]
      /\ \A i \in C : NewRun!effectiveResultDepth(w) <= i
  BY <1>4, <1>7b
<1>9. c # NewRun!Blank => NewRun!effectiveResultDepth(w) <= c
  BY <1>8 DEF C
<1>10. QED
  BY <1>1, <1>3, <1>5, <1>6, <1>8, <1>9 DEF c, r

\* The server serves at least the value bound to the depth variable, within
\* what the pipeline's nodes return.
LEMMA DepthServed ==
    ASSUME NEW p \in NewRun!Payloads, p.retrieval # None
    PROVE  \/ NewRun!ServedDepth(p) = NodeCap[p.retrieval]
           \/ NewRun!ServedDepth(p) \in Nat /\ p.input <= NewRun!ServedDepth(p)
<1> DEFINE r == p.retrieval  deepest == NewRun!MaxK(p.ks)
           over == IF deepest * Overfetch < MaxTopK THEN deepest * Overfetch ELSE MaxTopK
           desired == IF deepest > over THEN deepest ELSE over
           e == NewRun!EffectiveTopK(p)  b == NewRun!RaiseBoundDepths(p)
<1>1. /\ r \in DOMAIN Limit /\ Limit[r] \in Nat /\ NodeCap[r] \in Nat /\ p.input \in Nat
      /\ p.ks \in SUBSET Cutoffs
  BY WizardsAssumption DEF NewRun!Payloads, NewRun!Retrieval
<1>2. deepest \in Nat
  BY <1>1, DeepestCutoff
<1>3. e = NewRun!Min({desired} \cup NewRun!DepthCaps(r))
  BY DEF NewRun!EffectiveTopK
<1>4. b = IF r \in ServerKnows /\ p.input # NewRun!Blank /\ p.input < e THEN e ELSE p.input
  BY DEF NewRun!RaiseBoundDepths
<1>5. NewRun!ServedDepth(p) = NewRun!Min({b, NodeCap[r]})
  BY DEF NewRun!ServedDepth
<1> HIDE DEF r, deepest, e, b
<1>6. deepest * Overfetch \in Int
  BY <1>2, WizardsAssumption
<1>7. over \in Int
  BY <1>6, WizardsAssumption
<1> HIDE DEF over
<1>8. desired \in Nat
  BY <1>2, <1>7
<1> HIDE DEF desired
<1>9. NewRun!DepthCaps(r) = {} \/ \E i \in Nat : NewRun!DepthCaps(r) = {i}
  BY <1>1 DEF NewRun!DepthCaps
<1>10. e \in Nat
  <2>1. NewRun!Min({desired, desired} \cup NewRun!DepthCaps(r)) \in Nat
    BY <1>8, <1>9, LeastOfThree
  <2>2. {desired, desired} = {desired}
    OBVIOUS
  <2>3. QED
    BY <1>3, <2>1, <2>2
<1>11. b \in Nat /\ p.input <= b
  BY <1>1, <1>4, <1>10
<1>12. \E m \in {b, NodeCap[r]} : \A i \in {b, NodeCap[r]} : m <= i
  BY <1>1, <1>11
<1>13. NewRun!Min({b, NodeCap[r]}) \in {b, NodeCap[r]}
  BY <1>12, Least
<1>14. QED
  BY <1>1, <1>5, <1>11, <1>13 DEF r

LEMMA QueriesAsked ==
    ASSUME NEW w \in NewRun!Wizards, w.dataset \in DOMAIN Datasets
    PROVE  LET n == NewRun!resolveCount(w.queries, w.preset, Datasets[w.dataset])
           IN  /\ n \in Nat /\ n >= 1
               /\ ~(w.queries > 0) => n <= NewRun!Max({1, Datasets[w.dataset]})
<1> DEFINE total == Datasets[w.dataset]
           n == NewRun!resolveCount(w.queries, w.preset, total)
<1>1. total \in Nat /\ w.queries \in Int
  BY Choices, WizardsAssumption DEF NewRun!Unset
<1> HIDE DEF total
<1>2. \E m \in {1, total} : \A i \in {1, total} : i <= m
  BY <1>1
<1>3. NewRun!Max({1, total}) \in {1, total} /\ 1 <= NewRun!Max({1, total})
      /\ total <= NewRun!Max({1, total})
  BY <1>1, <1>2, Greatest
<1>4. \A p \in DOMAIN NewRun!Presets : NewRun!Presets[p] \in {2, 4}
  BY DEF NewRun!Presets
<1>5. n \in Nat /\ n >= 1
  BY <1>1, <1>4 DEF NewRun!resolveCount
<1>6. ~(w.queries > 0) => n <= NewRun!Max({1, total})
  BY <1>1, <1>3, <1>4 DEF NewRun!resolveCount
<1>7. QED
  BY <1>5, <1>6 DEF total

LEMMA PayloadLaunched ==
    ASSUME NEW w \in NewRun!Wizards, w.ks # {}, w.dataset \in DOMAIN Datasets,
           w.input # NewRun!Unset <=> w.typedFor # None, w.typedFor \in {None, w.retrieval}
    PROVE  NewRun!launchPayload(w) # None /\ LaunchedFits(NewRun!launchPayload(w))
<1> DEFINE p == NewRun!launchPayload(w)
           n == NewRun!resolveCount(w.queries, w.preset, Datasets[w.dataset])
           input == IF w.retrieval = None THEN NewRun!Blank ELSE NewRun!coerceInputs(w)
<1>1. p = [dataset |-> w.dataset, ingestion |-> w.ingestion, retrieval |-> w.retrieval, ks |-> w.ks,
           input |-> input, typed |-> w.input > 0, typedFor |-> w.typedFor,
           override |-> w.queries > 0, warned |-> NewRun!truncatedCutoffs(w), queries |-> n]
  BY DEF NewRun!launchPayload
<1>2. n \in Nat /\ n >= 1 /\ (~(w.queries > 0) => n <= NewRun!Max({1, Datasets[w.dataset]}))
  BY QueriesAsked
<1>3. input \in Nat
  BY InputOf DEF NewRun!Blank
<1>4. /\ w.ingestion \in Ingestion \cup {None} /\ w.retrieval \in NewRun!Retrieval \cup {None}
      /\ w.ks \in SUBSET Cutoffs /\ w.typedFor \in NewRun!Retrieval \cup {None}
      /\ (w.input > 0) \in BOOLEAN /\ (w.queries > 0) \in BOOLEAN
      /\ NewRun!truncatedCutoffs(w) \in SUBSET Cutoffs
  BY DEF NewRun!Wizards, NewRun!truncatedCutoffs
<1> HIDE DEF n, input, p
<1>5. p \in NewRun!Payloads
  BY <1>1, <1>2, <1>3, <1>4 DEF NewRun!Payloads
<1>6. p # None
  BY <1>5, ReadAssumption
<1>7. p.queries >= 1 /\ p.ks # {} /\ (~p.override => p.queries <= NewRun!Max({1, Datasets[p.dataset]}))
  BY <1>1, <1>2
<1>8. ASSUME NewRun!Accepted(p)
      PROVE  /\ (p.typed => p.typedFor = p.retrieval) /\ p.input <= Limit[p.retrieval]
             /\ p.input # NewRun!Blank => \A k \in p.ks \ p.warned : k <= NewRun!ServedDepth(p)
  <2>1. p.retrieval = w.retrieval /\ w.retrieval # None
    BY <1>1, <1>8 DEF NewRun!Accepted
  <2>2. p.typed => p.typedFor = p.retrieval
    <3>1. p.typed => w.input > 0
      BY <1>1, Zenon
    <3>2. w.input > 0 => w.input # NewRun!Unset
      BY DEF NewRun!Unset
    <3>3. p.typedFor = w.typedFor
      BY <1>1
    <3>4. QED
      BY <2>1, <3>1, <3>2, <3>3, Zenon
  <2>3. p.input = NewRun!coerceInputs(w)
    BY <1>1, <2>1 DEF input
  <2>4. p.input <= Limit[p.retrieval]
    BY <2>1, <2>3, InputOf
  <2>5. \A k \in p.ks \ p.warned : /\ k <= NodeCap[p.retrieval]
                                   /\ p.input # NewRun!Blank => k <= p.input
    BY <1>1, <2>1, <2>3, InputOf
  <2>6. \A k \in p.ks : k \in Nat
    BY <1>1, <1>4, DeepestCutoff
  <2>7. p.input \in Nat
    BY <1>5 DEF NewRun!Payloads
  <2>8. \/ NewRun!ServedDepth(p) = NodeCap[p.retrieval]
        \/ NewRun!ServedDepth(p) \in Nat /\ p.input <= NewRun!ServedDepth(p)
    BY <1>5, <2>1, DepthServed
  <2>9. QED
    BY <2>2, <2>4, <2>5, <2>6, <2>7, <2>8
<1>9. QED
  BY <1>5, <1>6, <1>7, <1>8 DEF LaunchedFits, p

\* Choosing, typing and moving about: an input typed for a pipeline goes when
\* another is chosen.
LEMMA RunWizardEdits ==
    ASSUME wizard # None, RunWizardFits(wizard, launched), ~wizard.busy
    PROVE  /\ \A s \in 0..2 : NewRun!SetStep(s) => RunWizardFits(wizard', launched')
           /\ \A d \in DOMAIN Datasets : NewRun!DatasetStep(d) => RunWizardFits(wizard', launched')
           /\ \A i \in Ingestion, r \in DOMAIN Limit :
                 NewRun!PipelinesStep(i, r) => RunWizardFits(wizard', launched')
           /\ \A v \in Typed \cup {NewRun!Blank} : NewRun!SetRunInput(v) => RunWizardFits(wizard', launched')
           /\ \A k \in Cutoffs, p \in DOMAIN NewRun!Presets \cup {"full"},
                 q \in Typed \cup {NewRun!Unset, NewRun!Blank} :
                 NewRun!ScopeStep(k, p, q) => RunWizardFits(wizard', launched')
<1>1. /\ wizard \in NewRun!Wizards /\ (wizard.input # NewRun!Unset <=> wizard.typedFor # None)
      /\ wizard.typedFor \in {None, wizard.retrieval}
  BY DEF RunWizardFits
<1> DEFINE Fits(w) == /\ w \in NewRun!Wizards /\ ~w.busy
                      /\ (w.input # NewRun!Unset <=> w.typedFor # None)
                      /\ w.typedFor \in {None, w.retrieval}
<1>2. ASSUME NEW w, Fits(w), NewRun!Dispatch(w) PROVE RunWizardFits(wizard', launched')
  BY <1>2 DEF RunWizardFits, NewRun!Dispatch
<1>3. ASSUME NEW s \in 0..2, NewRun!SetStep(s) PROVE RunWizardFits(wizard', launched')
  <2>1. Fits([wizard EXCEPT !.step = s])
    BY <1>1 DEF NewRun!Wizards
  <2>2. QED
    BY <1>2, <1>3, <2>1 DEF NewRun!SetStep
<1>4. ASSUME NEW d \in DOMAIN Datasets, NewRun!DatasetStep(d) PROVE RunWizardFits(wizard', launched')
  <2>1. Fits([wizard EXCEPT !.dataset = d])
    BY <1>1 DEF NewRun!Wizards
  <2>2. QED
    BY <1>2, <1>4, <2>1 DEF NewRun!DatasetStep
<1>5. ASSUME NEW i \in Ingestion, NEW r \in DOMAIN Limit, NewRun!PipelinesStep(i, r)
      PROVE  RunWizardFits(wizard', launched')
  <2>1. Fits([wizard EXCEPT !.ingestion = i])
    BY <1>1 DEF NewRun!Wizards
  <2>2. Fits([wizard EXCEPT !.retrieval = r, !.input = NewRun!Unset, !.typedFor = None])
    BY <1>1 DEF NewRun!Wizards, NewRun!Retrieval
  <2>3. QED
    BY <1>2, <1>5, <2>1, <2>2 DEF NewRun!PipelinesStep
<1>6. ASSUME NEW v \in Typed \cup {NewRun!Blank}, NewRun!SetRunInput(v)
      PROVE  RunWizardFits(wizard', launched')
  <2>1. v # NewRun!Unset /\ wizard.retrieval # None
    <3>1. v \in Nat
      BY WizardsAssumption DEF NewRun!Blank
    <3>2. QED
      BY <1>6, <3>1 DEF NewRun!Unset, NewRun!SetRunInput
  <2>2. Fits([wizard EXCEPT !.input = v, !.typedFor = wizard.retrieval])
    BY <1>1, <2>1 DEF NewRun!Wizards
  <2>3. QED
    BY <1>2, <1>6, <2>2 DEF NewRun!SetRunInput
<1>7. ASSUME NEW k \in Cutoffs, NEW p \in DOMAIN NewRun!Presets \cup {"full"},
             NEW q \in Typed \cup {NewRun!Unset, NewRun!Blank}, NewRun!ScopeStep(k, p, q)
      PROVE  RunWizardFits(wizard', launched')
  <2>1. /\ Fits([wizard EXCEPT !.ks = IF k \in @ THEN @ \ {k} ELSE @ \cup {k}])
        /\ Fits([wizard EXCEPT !.preset = p]) /\ Fits([wizard EXCEPT !.queries = q])
    BY <1>1 DEF NewRun!Wizards
  <2>2. QED
    BY <1>2, <1>7, <2>1 DEF NewRun!ScopeStep
<1>8. QED
  BY <1>3, <1>4, <1>5, <1>6, <1>7

LEMMA RunWizardMoves ==
    ASSUME RunWizardFits(wizard, launched), LaunchedFits(launched),
           newRunListed \subseteq DOMAIN Datasets
    PROVE  LET Kept == /\ RunWizardFits(wizard', launched') /\ LaunchedFits(launched')
                       /\ newRunListed' \subseteq DOMAIN Datasets
           IN  /\ NewRun!OpenWizard => Kept
               /\ NewRun!CloseWizard => Kept
               /\ NewRun!Launch => Kept
               /\ NewRun!LaunchAnswers => Kept
               /\ \A d \in DOMAIN Datasets : NewRun!DatasetGone(d) => Kept
<1> DEFINE Kept == /\ RunWizardFits(wizard', launched') /\ LaunchedFits(launched')
                   /\ newRunListed' \subseteq DOMAIN Datasets
<1>1. ASSUME NewRun!OpenWizard PROVE Kept
  <2>1. /\ NewRun!initialWizardState \in NewRun!Wizards
        /\ NewRun!initialWizardState.input = NewRun!Unset
        /\ NewRun!initialWizardState.typedFor = None /\ ~NewRun!initialWizardState.busy
    BY DEF NewRun!initialWizardState, NewRun!Wizards, NewRun!Presets
  <2>2. QED
    BY <1>1, <2>1 DEF NewRun!OpenWizard, RunWizardFits
<1>2. ASSUME NewRun!CloseWizard PROVE Kept
  BY <1>2 DEF NewRun!CloseWizard, RunWizardFits
<1>3. ASSUME NewRun!Launch PROVE Kept
  <2>1. /\ wizard # None /\ wizard.ks # {} /\ wizard.dataset \in DOMAIN Datasets
        /\ wizard' = [wizard EXCEPT !.busy = TRUE, !.message = FALSE]
        /\ launched' = NewRun!launchPayload(wizard) /\ newRunListed' = newRunListed
    <3>1. wizard.step = 2 /\ NewRun!StepReady
      BY <1>3 DEF NewRun!Launch
    <3>2. wizard.ks # {}
      BY <3>1 DEF NewRun!StepReady
    <3>3. QED
      BY <1>3, <3>2 DEF NewRun!Launch
  <2>2. /\ wizard \in NewRun!Wizards /\ (wizard.input # NewRun!Unset <=> wizard.typedFor # None)
        /\ wizard.typedFor \in {None, wizard.retrieval}
    BY <2>1 DEF RunWizardFits
  <2>3. launched' # None /\ LaunchedFits(launched')
    BY <2>1, <2>2, PayloadLaunched
  <2>4. /\ wizard' \in NewRun!Wizards /\ (wizard'.input # NewRun!Unset <=> wizard'.typedFor # None)
        /\ wizard'.typedFor \in {None, wizard'.retrieval}
    BY <2>1, <2>2 DEF NewRun!Wizards
  <2>5. QED
    BY <2>1, <2>3, <2>4 DEF RunWizardFits
<1>4. ASSUME NewRun!LaunchAnswers PROVE Kept
  <2>1. launched' = None /\ newRunListed' = newRunListed
    BY <1>4 DEF NewRun!LaunchAnswers
  <2>2. CASE wizard' = None
    BY <2>1, <2>2 DEF RunWizardFits, LaunchedFits
  <2>3. CASE wizard # None /\ wizard' = [wizard EXCEPT !.busy = FALSE, !.message = TRUE]
    <3>1. /\ wizard \in NewRun!Wizards /\ (wizard.input # NewRun!Unset <=> wizard.typedFor # None)
          /\ wizard.typedFor \in {None, wizard.retrieval}
      BY <2>3 DEF RunWizardFits
    <3>2. /\ wizard' \in NewRun!Wizards /\ ~wizard'.busy
          /\ (wizard'.input # NewRun!Unset <=> wizard'.typedFor # None)
          /\ wizard'.typedFor \in {None, wizard'.retrieval}
      BY <2>3, <3>1 DEF NewRun!Wizards
    <3>3. QED
      BY <2>1, <3>2 DEF RunWizardFits, LaunchedFits
  <2>4. QED
    BY <1>4, <2>2, <2>3 DEF NewRun!LaunchAnswers
<1>5. ASSUME NEW d \in DOMAIN Datasets, NewRun!DatasetGone(d) PROVE Kept
  BY <1>5 DEF NewRun!DatasetGone
<1>6. QED
  BY <1>1, <1>2, <1>3, <1>4, <1>5

LEMMA RunWizardStep == NewRun!RunWizardInv /\ [NewRun!Next]_(NewRun!vars) => NewRun!RunWizardInv'
<1> SUFFICES ASSUME NewRun!RunWizardInv, [NewRun!Next]_(NewRun!vars) PROVE NewRun!RunWizardInv'
  OBVIOUS
<1> DEFINE Kept == /\ RunWizardFits(wizard', launched') /\ LaunchedFits(launched')
                   /\ newRunListed' \subseteq DOMAIN Datasets
<1>1. /\ RunWizardFits(wizard, launched) /\ LaunchedFits(launched)
      /\ newRunListed \subseteq DOMAIN Datasets
  BY RunWizardParts
<1>2. CASE UNCHANGED NewRun!vars
  BY <1>1, <1>2, RunWizardParts DEF NewRun!vars
<1>3. ASSUME NEW w, NewRun!Dispatch(w) PROVE ~wizard.busy /\ launched' = launched /\ newRunListed' = newRunListed
  BY <1>3 DEF NewRun!Dispatch
<1>4. ASSUME wizard # None, \E w : NewRun!Dispatch(w), RunWizardFits(wizard', launched') PROVE Kept
  BY <1>1, <1>3, <1>4
<1>5. ASSUME NEW s \in 0..2, NewRun!SetStep(s) PROVE Kept
  <2>1. wizard # None /\ \E w : NewRun!Dispatch(w)
    BY <1>5 DEF NewRun!SetStep
  <2>2. QED
    BY <1>1, <1>3, <1>4, <1>5, <2>1, RunWizardEdits
<1>6. ASSUME NEW d \in DOMAIN Datasets, NewRun!DatasetStep(d) PROVE Kept
  <2>1. wizard # None /\ \E w : NewRun!Dispatch(w)
    BY <1>6 DEF NewRun!DatasetStep
  <2>2. QED
    BY <1>1, <1>3, <1>4, <1>6, <2>1, RunWizardEdits
<1>7. ASSUME NEW i \in Ingestion, NEW r \in DOMAIN Limit, NewRun!PipelinesStep(i, r) PROVE Kept
  <2>1. wizard # None /\ \E w : NewRun!Dispatch(w)
    BY <1>7 DEF NewRun!PipelinesStep
  <2>2. QED
    BY <1>1, <1>3, <1>4, <1>7, <2>1, RunWizardEdits
<1>8. ASSUME NEW v \in Typed \cup {NewRun!Blank}, NewRun!SetRunInput(v) PROVE Kept
  <2>1. wizard # None /\ \E w : NewRun!Dispatch(w)
    BY <1>8 DEF NewRun!SetRunInput
  <2>2. QED
    BY <1>1, <1>3, <1>4, <1>8, <2>1, RunWizardEdits
<1>9. ASSUME NEW k \in Cutoffs, NEW p \in DOMAIN NewRun!Presets \cup {"full"},
             NEW q \in Typed \cup {NewRun!Unset, NewRun!Blank}, NewRun!ScopeStep(k, p, q)
      PROVE  Kept
  <2>1. wizard # None /\ \E w : NewRun!Dispatch(w)
    BY <1>9 DEF NewRun!ScopeStep
  <2>2. QED
    BY <1>1, <1>3, <1>4, <1>9, <2>1, RunWizardEdits
<1>10. NewRun!OpenWizard \/ NewRun!CloseWizard \/ NewRun!Launch \/ NewRun!LaunchAnswers => Kept
  BY <1>1, RunWizardMoves
<1>11. ASSUME NEW d \in DOMAIN Datasets, NewRun!DatasetGone(d) PROVE Kept
  BY <1>1, <1>11, RunWizardMoves
<1>12. NewRun!Next => Kept
  BY <1>5, <1>6, <1>7, <1>8, <1>9, <1>10, <1>11 DEF NewRun!Next, NewRun!Retrieval
<1>13. QED
  BY <1>2, <1>12, RunWizardParts

LEMMA RunWizardStart == NewRun!Init => NewRun!RunWizardInv
BY RunWizardParts DEF NewRun!Init, RunWizardFits, LaunchedFits

LEMMA RunWizardMeans == NewRun!RunWizardInv =>
    NewRun!TypeOK /\ NewRun!InputsFit /\ NewRun!UnwarnedIsServed /\ NewRun!RunIsMeaningful
<1> SUFFICES ASSUME NewRun!RunWizardInv PROVE NewRun!TypeOK
  BY DEF NewRun!RunWizardInv
<1>1. wizard # None => /\ wizard.step \in 0..2 /\ wizard.dataset \in DOMAIN Datasets \cup {None}
                       /\ wizard.ks \subseteq Cutoffs /\ wizard.busy \in BOOLEAN
  BY DEF NewRun!RunWizardInv, NewRun!Wizards
<1>2. QED
  BY <1>1 DEF NewRun!RunWizardInv, NewRun!TypeOK

--------------------------------------------------------------------------------
(* The wizard of a generated dataset: what it asks for, and its steps *)

GenerateFits(g, p) ==
    g # None => /\ g \in Generate!Wizards /\ Generate!Named(g) /\ Len(g.examples) <= MaxExamples
                /\ g.busy => p # None

AskedFits(p) == p # None => p \in Generate!Payloads /\ Generate!Named(p)

LEMMA GenerateParts ==
    /\ Generate!GenerateInv <=> /\ GenerateFits(gen, generateSent) /\ AskedFits(generateSent)
                                /\ models \subseteq Models
    /\ Generate!GenerateInv' <=> /\ GenerateFits(gen', generateSent') /\ AskedFits(generateSent')
                                 /\ models' \subseteq Models
<1>1. Generate!GenerateInv <=> /\ GenerateFits(gen, generateSent) /\ AskedFits(generateSent)
                               /\ models \subseteq Models
  BY DEF Generate!GenerateInv, GenerateFits, AskedFits
<1>2. Generate!GenerateInv' <=> /\ GenerateFits(gen', generateSent') /\ AskedFits(generateSent')
                                /\ models' \subseteq Models
  BY DEF Generate!GenerateInv, GenerateFits, AskedFits
<1>3. QED
  BY <1>1, <1>2

\* What is sent is what the wizard holds, within the limits of a request.
LEMMA PayloadSent ==
    ASSUME NEW g \in Generate!Wizards, Generate!Named(g), g.shares # {}
    PROVE  Generate!buildGeneratePayload(g) # None /\ AskedFits(Generate!buildGeneratePayload(g))
<1> DEFINE p == Generate!buildGeneratePayload(g)
           n == Generate!resolvedQuestionCount(g)
           e == Generate!Without(g.examples, {Generate!NoText})
<1>1. /\ g.name \in {Generate!NoText, Generate!Mine} \cup Collections /\ g.collection \in Collections \cup {None}
      /\ g.model \in Structured \cup {None} /\ g.preset \in DOMAIN Generate!Presets
      /\ g.count \in Numbers \cup {Generate!Unset} /\ g.shares \in SUBSET QuestionKinds
      /\ g.examples \in Seq({Generate!NoText, "likeThis"}) /\ g.touched \in BOOLEAN
  BY DEF Generate!Wizards
<1>2. p = [name |-> g.name, collection |-> g.collection, model |-> g.model, questions |-> n,
           mix |-> g.shares, examples |-> e, touched |-> g.touched]
  BY DEF Generate!buildGeneratePayload
<1>3. n \in 1..MaxQuestions
  <2>1. g.count \in Nat \/ g.count = Generate!Unset
    <3>1. Numbers \subseteq Nat
      BY WizardsAssumption
    <3>2. QED
      BY <1>1, <3>1
  <2>2. Generate!Presets[g.preset] \in {2, 3}
    <3>1. \A q \in DOMAIN Generate!Presets : Generate!Presets[q] \in {2, 3}
      BY DEF Generate!Presets
    <3>2. QED
      BY <1>1, <3>1
  <2>3. MaxQuestions \in Nat /\ MaxQuestions >= 3
    BY WizardsAssumption
  <2>4. QED
    BY <2>1, <2>2, <2>3 DEF Generate!resolvedQuestionCount, Generate!Unset
<1>4. e \in Seq({"likeThis"})
  <2>1. e \in Seq({Generate!NoText, "likeThis"}) /\ Generate!Members(e) = Generate!Members(g.examples) \ {Generate!NoText}
    BY <1>1, Generate!WithoutKeeps
  <2> HIDE DEF e
  <2>2. \A i \in 1..Len(e) : e[i] \in {Generate!NoText, "likeThis"} /\ e[i] \in Generate!Members(e)
    <3>1. DOMAIN e = 1..Len(e) /\ e \in [1..Len(e) -> {Generate!NoText, "likeThis"}]
      BY <2>1, Dataset!LenProperties
    <3>2. QED
      BY <3>1 DEF Generate!Members
  <2>3. \A i \in 1..Len(e) : e[i] \in {"likeThis"}
    BY <2>1, <2>2
  <2>4. Len(e) \in Nat /\ e \in [1..Len(e) -> {Generate!NoText, "likeThis"}]
    BY <2>1, Dataset!LenProperties
  <2>5. e \in [1..Len(e) -> {"likeThis"}]
    BY <2>3, <2>4
  <2>6. QED
    BY <2>4, <2>5, Dataset!FunctionIsSeq
<1> HIDE DEF n, e, p
<1>5. p \in Generate!Payloads
  BY <1>1, <1>2, <1>3, <1>4 DEF Generate!Payloads
<1>6. Generate!Named(p)
  BY <1>2 DEF Generate!Named
<1>7. QED
  BY <1>5, <1>6, ReadAssumption DEF AskedFits, p

\* A list of examples, one of them replaced or removed, or with one more.
LEMMA OneChanged ==
    ASSUME NEW T, NEW xs \in Seq(T), NEW i \in DOMAIN xs, NEW text \in T, Len(xs) <= MaxExamples
    PROVE  /\ [xs EXCEPT ![i] = text] \in Seq(T) /\ Len([xs EXCEPT ![i] = text]) <= MaxExamples
           /\ SubSeq(xs, 1, i - 1) \o SubSeq(xs, i + 1, Len(xs)) \in Seq(T)
           /\ Len(SubSeq(xs, 1, i - 1) \o SubSeq(xs, i + 1, Len(xs))) <= MaxExamples
<1> DEFINE n == Len(xs)  before == SubSeq(xs, 1, i - 1)  after == SubSeq(xs, i + 1, n)
<1>1. n \in Nat /\ DOMAIN xs = 1..n /\ xs \in [1..n -> T]
  BY Dataset!LenProperties
<1> HIDE DEF n
<1>2. i \in 1..n
  BY <1>1
<1>3. i \in Int /\ i - 1 \in Int /\ i + 1 \in Int /\ 1 <= i /\ i <= n
  BY <1>1, <1>2
<1>4. [xs EXCEPT ![i] = text] \in Seq(T) /\ Len([xs EXCEPT ![i] = text]) = n
  <2>1. [xs EXCEPT ![i] = text] \in [1..n -> T]
    BY <1>1
  <2>2. QED
    BY <1>1, <2>1, Dataset!FunctionIsSeq
<1>5. before \in Seq(T) /\ Len(before) = i - 1
  <2>1. \A j \in 1..(i - 1) : xs[j] \in T
    BY <1>1, <1>3
  <2>2. Len(before) = (IF 1 <= i - 1 THEN (i - 1) - 1 + 1 ELSE 0) /\ before \in Seq(T)
    BY <1>3, <2>1, Dataset!SubSeqProperties
  <2>3. QED
    BY <1>3, <2>2
<1>6. after \in Seq(T) /\ Len(after) = n - i
  <2>1. \A j \in (i + 1)..n : xs[j] \in T
    BY <1>1, <1>3
  <2>2. Len(after) = (IF i + 1 <= n THEN n - (i + 1) + 1 ELSE 0) /\ after \in Seq(T)
    BY <1>1, <1>3, <2>1, Dataset!SubSeqProperties
  <2>3. QED
    BY <1>1, <1>3, <2>2
<1> HIDE DEF before, after
<1>7. before \o after \in Seq(T) /\ Len(before \o after) = Len(before) + Len(after)
  BY <1>5, <1>6, Dataset!ConcatProperties
<1>8. n <= MaxExamples /\ MaxExamples \in Nat
  BY WizardsAssumption DEF n
<1>9. Len(before \o after) <= MaxExamples
  BY <1>1, <1>3, <1>5, <1>6, <1>7, <1>8
<1>10. QED
  BY <1>4, <1>7, <1>8, <1>9 DEF n, before, after

LEMMA OneAppended ==
    ASSUME NEW T, NEW xs \in Seq(T), NEW text \in T, Len(xs) < MaxExamples
    PROVE  Append(xs, text) \in Seq(T) /\ Len(Append(xs, text)) <= MaxExamples
<1>1. Append(xs, text) \in Seq(T) /\ Len(Append(xs, text)) = Len(xs) + 1 /\ Len(xs) \in Nat
  BY Dataset!AppendProperties, Dataset!LenProperties
<1>2. MaxExamples \in Nat
  BY WizardsAssumption
<1>3. QED
  BY <1>1, <1>2

\* Choosing, naming and moving about: an untouched name follows the source.
LEMMA GenerateEdits ==
    ASSUME gen # None, GenerateFits(gen, generateSent), ~gen.busy
    PROVE  /\ \A s \in 0..2 : Generate!SetStep(s) => GenerateFits(gen', generateSent')
           /\ \A c \in Collections : Generate!SourceStep(c) => GenerateFits(gen', generateSent')
           /\ \A n \in {Generate!NoText, Generate!Mine} : Generate!SetName(n) => GenerateFits(gen', generateSent')
           /\ \A m \in Models : Generate!ModelStep(m) => GenerateFits(gen', generateSent')
           /\ \A p \in DOMAIN Generate!Presets, n \in Numbers :
                 Generate!CountStep(p, n) => GenerateFits(gen', generateSent')
           /\ \A i \in 1..MaxExamples, text \in {Generate!NoText, "likeThis"} :
                 Generate!Steering(i, text) => GenerateFits(gen', generateSent')
           /\ \A k \in QuestionKinds : Generate!QuestionMix(k) => GenerateFits(gen', generateSent')
<1>1. gen \in Generate!Wizards /\ Generate!Named(gen) /\ Len(gen.examples) <= MaxExamples
  BY DEF GenerateFits
<1> DEFINE Fits(g) == g \in Generate!Wizards /\ ~g.busy /\ Generate!Named(g) /\ Len(g.examples) <= MaxExamples
<1>2. ASSUME NEW g, Fits(g), Generate!Reduce(g) PROVE GenerateFits(gen', generateSent')
  BY <1>2 DEF GenerateFits, Generate!Reduce
<1>3. ASSUME NEW s \in 0..2, Generate!SetStep(s) PROVE GenerateFits(gen', generateSent')
  <2>1. Fits([gen EXCEPT !.step = s, !.message = FALSE])
    BY <1>1 DEF Generate!Wizards, Generate!Named
  <2>2. QED
    BY <1>2, <1>3, <2>1 DEF Generate!SetStep
<1>4. ASSUME NEW c \in Collections, Generate!SourceStep(c) PROVE GenerateFits(gen', generateSent')
  <2>1. Fits([gen EXCEPT !.collection = c, !.name = IF gen.touched THEN @ ELSE c])
    BY <1>1 DEF Generate!Wizards, Generate!Named
  <2>2. QED
    BY <1>2, <1>4, <2>1 DEF Generate!SourceStep
<1>5. ASSUME NEW n \in {Generate!NoText, Generate!Mine}, Generate!SetName(n) PROVE GenerateFits(gen', generateSent')
  <2>1. Fits([gen EXCEPT !.name = n, !.touched = TRUE])
    BY <1>1 DEF Generate!Wizards, Generate!Named
  <2>2. QED
    BY <1>2, <1>5, <2>1 DEF Generate!SetName
<1>6. ASSUME NEW m \in Models, Generate!ModelStep(m) PROVE GenerateFits(gen', generateSent')
  <2>1. m \in Structured /\ Generate!Reduce([gen EXCEPT !.model = m])
    BY <1>6 DEF Generate!ModelStep, Generate!supportsStructuredOutputs
  <2>2. Fits([gen EXCEPT !.model = m])
    BY <1>1, <2>1 DEF Generate!Wizards, Generate!Named
  <2>3. QED
    BY <1>2, <2>1, <2>2
<1>7. ASSUME NEW p \in DOMAIN Generate!Presets, NEW n \in Numbers, Generate!CountStep(p, n)
      PROVE  GenerateFits(gen', generateSent')
  <2>1. /\ Fits([gen EXCEPT !.preset = p, !.count = Generate!Unset])
        /\ Fits([gen EXCEPT !.count = n])
    BY <1>1 DEF Generate!Wizards, Generate!Named
  <2>2. QED
    BY <1>2, <1>7, <2>1 DEF Generate!CountStep
<1>8. ASSUME NEW i \in 1..MaxExamples, NEW text \in {Generate!NoText, "likeThis"}, Generate!Steering(i, text)
      PROVE  GenerateFits(gen', generateSent')
  <2>1. gen.examples \in Seq({Generate!NoText, "likeThis"}) /\ text \in {Generate!NoText, "likeThis"}
    BY <1>1 DEF Generate!Wizards
  <2>2. ASSUME NEW ys, ys \in Seq({Generate!NoText, "likeThis"}), Len(ys) <= MaxExamples,
               Generate!Reduce([gen EXCEPT !.examples = ys])
        PROVE  GenerateFits(gen', generateSent')
    <3>1. Fits([gen EXCEPT !.examples = ys])
      BY <1>1, <2>2 DEF Generate!Wizards, Generate!Named
    <3>2. QED
      BY <1>2, <2>2, <3>1
  <2>3. \E ys \in Seq({Generate!NoText, "likeThis"}) :
           Len(ys) <= MaxExamples /\ Generate!Reduce([gen EXCEPT !.examples = ys])
    <3>1. CASE i \in DOMAIN gen.examples /\ Generate!Reduce([gen EXCEPT !.examples[i] = text])
      <4>1. [gen EXCEPT !.examples[i] = text]
               = [gen EXCEPT !.examples = [gen.examples EXCEPT ![i] = text]]
        BY <1>1 DEF Generate!Wizards
      <4>2. QED
        BY <1>1, <2>1, <3>1, <4>1, OneChanged
    <3>2. CASE i \in DOMAIN gen.examples /\ Generate!Reduce([gen EXCEPT !.examples =
                  SubSeq(gen.examples, 1, i - 1) \o SubSeq(gen.examples, i + 1, Len(gen.examples))])
      BY <1>1, <2>1, <3>2, OneChanged
    <3>3. CASE /\ Len(gen.examples) < MaxExamples
               /\ Generate!Reduce([gen EXCEPT !.examples = Append(gen.examples, Generate!NoText)])
      BY <2>1, <3>3, OneAppended
    <3>4. QED
      BY <1>8, <3>1, <3>2, <3>3 DEF Generate!Steering
  <2>4. QED
    BY <2>2, <2>3
<1>9. ASSUME NEW k \in QuestionKinds, Generate!QuestionMix(k) PROVE GenerateFits(gen', generateSent')
  <2>1. Fits([gen EXCEPT !.shares = IF k \in @ THEN @ \ {k} ELSE @ \cup {k}])
    BY <1>1 DEF Generate!Wizards, Generate!Named
  <2>2. QED
    BY <1>2, <1>9, <2>1 DEF Generate!QuestionMix
<1>10. QED
  BY <1>3, <1>4, <1>5, <1>6, <1>7, <1>8, <1>9

LEMMA GenerateMoves ==
    ASSUME GenerateFits(gen, generateSent), AskedFits(generateSent), models \subseteq Models
    PROVE  LET Kept == /\ GenerateFits(gen', generateSent') /\ AskedFits(generateSent')
                       /\ models' \subseteq Models
           IN  /\ Generate!OpenGenerate => Kept
               /\ Generate!CloseGenerate => Kept
               /\ Generate!LaunchGenerate => Kept
               /\ Generate!GenerateAnswers => Kept
               /\ \A m \in Models : Generate!ModelGone(m) => Kept
<1> DEFINE Kept == /\ GenerateFits(gen', generateSent') /\ AskedFits(generateSent')
                   /\ models' \subseteq Models
<1>1. ASSUME Generate!OpenGenerate PROVE Kept
  <2> DEFINE g == Generate!initialGenerateWizardState
  <2>1. <<Generate!NoText>> \in Seq({Generate!NoText, "likeThis"}) /\ Len(<<Generate!NoText>>) = 1
    OBVIOUS
  <2>2. 1 <= MaxExamples
    BY WizardsAssumption
  <2>3. g \in Generate!Wizards /\ Generate!Named(g) /\ Len(g.examples) <= MaxExamples /\ ~g.busy
    BY <2>1, <2>2 DEF Generate!initialGenerateWizardState, Generate!Wizards, Generate!Named, Generate!Presets
  <2>4. QED
    BY <1>1, <2>3 DEF Generate!OpenGenerate, GenerateFits
<1>2. ASSUME Generate!CloseGenerate PROVE Kept
  BY <1>2 DEF Generate!CloseGenerate, GenerateFits
<1>3. ASSUME Generate!LaunchGenerate PROVE Kept
  <2>1. gen # None /\ gen.step = 2 /\ Generate!StepReady
    BY <1>3 DEF Generate!LaunchGenerate
  <2>2. gen.shares # {}
    BY <2>1 DEF Generate!StepReady, Generate!mixIsEmpty
  <2>3. gen \in Generate!Wizards /\ Generate!Named(gen) /\ Len(gen.examples) <= MaxExamples
    BY <2>1 DEF GenerateFits
  <2>4. generateSent' = Generate!buildGeneratePayload(gen) /\ models' = models
        /\ gen' = [gen EXCEPT !.busy = TRUE, !.message = FALSE]
    BY <1>3 DEF Generate!LaunchGenerate
  <2>5. generateSent' # None /\ AskedFits(generateSent')
    BY <2>2, <2>3, <2>4, PayloadSent
  <2>6. gen' \in Generate!Wizards /\ Generate!Named(gen') /\ Len(gen'.examples) <= MaxExamples
    BY <2>3, <2>4 DEF Generate!Wizards, Generate!Named
  <2>7. QED
    BY <2>4, <2>5, <2>6 DEF GenerateFits
<1>4. ASSUME Generate!GenerateAnswers PROVE Kept
  <2>1. generateSent' = None /\ models' = models
    BY <1>4 DEF Generate!GenerateAnswers
  <2>2. CASE gen' = None
    BY <2>1, <2>2 DEF GenerateFits, AskedFits
  <2>3. CASE gen # None /\ gen' = [gen EXCEPT !.busy = FALSE, !.message = TRUE]
    <3>1. gen \in Generate!Wizards /\ Generate!Named(gen) /\ Len(gen.examples) <= MaxExamples
      BY <2>3 DEF GenerateFits
    <3>2. /\ gen' \in Generate!Wizards /\ Generate!Named(gen') /\ Len(gen'.examples) <= MaxExamples
          /\ ~gen'.busy
      BY <2>3, <3>1 DEF Generate!Wizards, Generate!Named
    <3>3. QED
      BY <2>1, <3>2 DEF GenerateFits, AskedFits
  <2>4. QED
    BY <1>4, <2>2, <2>3 DEF Generate!GenerateAnswers
<1>5. ASSUME NEW m \in Models, Generate!ModelGone(m) PROVE Kept
  BY <1>5 DEF Generate!ModelGone
<1>6. QED
  BY <1>1, <1>2, <1>3, <1>4, <1>5

LEMMA GenerateStep ==
    Generate!GenerateInv /\ [Generate!Next]_(Generate!vars) => Generate!GenerateInv'
<1> SUFFICES ASSUME Generate!GenerateInv, [Generate!Next]_(Generate!vars) PROVE Generate!GenerateInv'
  OBVIOUS
<1> DEFINE Kept == /\ GenerateFits(gen', generateSent') /\ AskedFits(generateSent')
                   /\ models' \subseteq Models
<1>1. GenerateFits(gen, generateSent) /\ AskedFits(generateSent) /\ models \subseteq Models
  BY GenerateParts
<1>2. CASE UNCHANGED Generate!vars
  BY <1>1, <1>2, GenerateParts DEF Generate!vars
<1> DEFINE Edit == /\ gen # None /\ ~gen.busy /\ generateSent' = generateSent /\ models' = models
<1>3. ASSUME NEW g, gen # None, Generate!Reduce(g) PROVE Edit
  BY <1>3 DEF Generate!Reduce
<1>4. ASSUME Edit, GenerateFits(gen', generateSent') PROVE Kept
  BY <1>1, <1>4
<1>5. ASSUME NEW s \in 0..2, Generate!SetStep(s) PROVE Kept
  <2>1. Edit
    BY <1>3, <1>5 DEF Generate!SetStep
  <2>2. QED
    BY <1>1, <1>4, <1>5, <2>1, GenerateEdits
<1>6. ASSUME NEW c \in Collections, Generate!SourceStep(c) PROVE Kept
  <2>1. Edit
    BY <1>3, <1>6 DEF Generate!SourceStep
  <2>2. QED
    BY <1>1, <1>4, <1>6, <2>1, GenerateEdits
<1>7. ASSUME NEW n \in {Generate!NoText, Generate!Mine}, Generate!SetName(n) PROVE Kept
  <2>1. Edit
    BY <1>3, <1>7 DEF Generate!SetName
  <2>2. QED
    BY <1>1, <1>4, <1>7, <2>1, GenerateEdits
<1>8. ASSUME NEW m \in Models, Generate!ModelStep(m) PROVE Kept
  <2>1. Edit
    BY <1>3, <1>8 DEF Generate!ModelStep
  <2>2. QED
    BY <1>1, <1>4, <1>8, <2>1, GenerateEdits
<1>9. ASSUME NEW p \in DOMAIN Generate!Presets, NEW n \in Numbers, Generate!CountStep(p, n) PROVE Kept
  <2>1. Edit
    BY <1>3, <1>9 DEF Generate!CountStep
  <2>2. QED
    BY <1>1, <1>4, <1>9, <2>1, GenerateEdits
<1>10. ASSUME NEW i \in 1..MaxExamples, NEW text \in {Generate!NoText, "likeThis"}, Generate!Steering(i, text)
       PROVE  Kept
  <2>1. Edit
    BY <1>3, <1>10 DEF Generate!Steering
  <2>2. QED
    BY <1>1, <1>4, <1>10, <2>1, GenerateEdits
<1>11. ASSUME NEW k \in QuestionKinds, Generate!QuestionMix(k) PROVE Kept
  <2>1. Edit
    BY <1>3, <1>11 DEF Generate!QuestionMix
  <2>2. QED
    BY <1>1, <1>4, <1>11, <2>1, GenerateEdits
<1>12. (Generate!OpenGenerate \/ Generate!CloseGenerate \/ Generate!LaunchGenerate
           \/ Generate!GenerateAnswers) => Kept
  BY <1>1, GenerateMoves
<1>13. ASSUME NEW m \in Models, Generate!ModelGone(m) PROVE Kept
  BY <1>1, <1>13, GenerateMoves
<1> HIDE DEF Kept
<1>14. Generate!Next => Kept
  <2>1. (\E s \in 0..2 : Generate!SetStep(s)) => Kept
    BY <1>5
  <2>2. (\E c \in Collections : Generate!SourceStep(c)) => Kept
    BY <1>6
  <2>3. (\E n \in {Generate!NoText, Generate!Mine} : Generate!SetName(n)) => Kept
    BY <1>7
  <2>4. (\E m \in Models : Generate!ModelStep(m) \/ Generate!ModelGone(m)) => Kept
    BY <1>8, <1>13
  <2>5. (\E p \in DOMAIN Generate!Presets, n \in Numbers : Generate!CountStep(p, n)) => Kept
    BY <1>9
  <2>6. (\E i \in 1..MaxExamples, text \in {Generate!NoText, "likeThis"} : Generate!Steering(i, text)) => Kept
    BY <1>10
  <2>7. (\E k \in QuestionKinds : Generate!QuestionMix(k)) => Kept
    BY <1>11
  <2>8. QED
    BY <1>12, <2>1, <2>2, <2>3, <2>4, <2>5, <2>6, <2>7 DEF Generate!Next
<1>15. QED
  BY <1>2, <1>14, GenerateParts DEF Kept

LEMMA GenerateStart == Generate!Init => Generate!GenerateInv
BY GenerateParts DEF Generate!Init, GenerateFits, AskedFits

LEMMA GenerateMeans ==
    Generate!GenerateInv => Generate!TypeOK /\ Generate!NameIsTheirs /\ Generate!PayloadUsable
<1> SUFFICES ASSUME Generate!GenerateInv
             PROVE  Generate!TypeOK /\ Generate!NameIsTheirs /\ Generate!PayloadUsable
  OBVIOUS
<1>1. GenerateFits(gen, generateSent) /\ AskedFits(generateSent) /\ models \subseteq Models
  BY GenerateParts
<1>2. gen # None => /\ gen.step \in 0..2 /\ gen.shares \subseteq QuestionKinds
                    /\ gen.collection \in Collections \cup {None} /\ gen.model \in Structured \cup {None}
  BY <1>1 DEF GenerateFits, Generate!Wizards
<1>3. Generate!TypeOK
  BY <1>1, <1>2 DEF Generate!TypeOK, GenerateFits
<1>4. Generate!NameIsTheirs
  BY <1>1 DEF Generate!NameIsTheirs, GenerateFits, AskedFits
<1>5. ASSUME generateSent # None
      PROVE  /\ generateSent.questions \in 1..MaxQuestions /\ generateSent.mix # {}
             /\ generateSent.examples \in Seq({"likeThis"})
             /\ generateSent.model \in Structured \cup {None}
  BY <1>1, <1>5 DEF AskedFits, Generate!Payloads
<1>6. ASSUME generateSent # None
      PROVE  Generate!NoText \notin {generateSent.examples[i] : i \in DOMAIN generateSent.examples}
  <2>1. \A i \in DOMAIN generateSent.examples : generateSent.examples[i] \in {"likeThis"}
    BY <1>5, <1>6, Dataset!LenProperties
  <2>2. "likeThis" # Generate!NoText
    BY DEF Generate!NoText
  <2>3. QED
    BY <2>1, <2>2
<1>7. Generate!PayloadUsable
  BY <1>5, <1>6 DEF Generate!PayloadUsable
<1>8. QED
  BY <1>3, <1>4, <1>7

--------------------------------------------------------------------------------
(* One page moves, by its own steps *)

LEMMA WorkspaceSteps ==
    [Next]_vars => /\ page' = page
                   /\ page = "landing" => [Landing!Next]_(Landing!vars)
                   /\ page = "documents" => [Dataset!NextDocuments]_(Dataset!vars)
                   /\ page = "review" => [Dataset!NextReview]_(Dataset!vars)
                   /\ page = "run" => [Run!Next]_(Run!vars)
                   /\ page = "newrun" => [NewRun!Next]_(NewRun!vars)
                   /\ page = "generate" => [Generate!Next]_(Generate!vars)
                   /\ page = "trace" => [Debugger!Next]_(Debugger!vars)
                   /\ page = "session" => [Session!Next]_(Session!vars)
                   /\ page = "catalogs" => [Catalogs!Next]_(Catalogs!vars)
                   /\ page = "turns" => [Turns!Next]_(Turns!vars)
<1>1. Next => /\ page' = page
              /\ page = "landing" => Landing!Next
              /\ page = "documents" => Dataset!NextDocuments
              /\ page = "review" => Dataset!NextReview
              /\ page = "run" => Run!Next
              /\ page = "newrun" => NewRun!Next
              /\ page = "generate" => Generate!Next
              /\ page = "trace" => Debugger!Next
              /\ page = "session" => Session!Next
              /\ page = "catalogs" => Catalogs!Next
              /\ page = "turns" => Turns!Next
  BY DEF Next, InLanding, InRun, InPlayback, InSession, InCatalogs, InTurns
<1>2. UNCHANGED vars => /\ page' = page /\ UNCHANGED landingVars /\ UNCHANGED datasetVars /\ UNCHANGED runVars
                        /\ UNCHANGED newRunVars /\ UNCHANGED generateVars /\ UNCHANGED debuggerVars
                        /\ UNCHANGED sessionVars /\ UNCHANGED catalogsVars /\ UNCHANGED turnsVars
  BY DEF vars
<1>3. UNCHANGED sessionVars => UNCHANGED Session!vars
  BY DEF sessionVars, Session!vars, Session!auth, Session!form, Session!shell, Session!server
<1>4. UNCHANGED catalogsVars => UNCHANGED Catalogs!vars
  BY DEF catalogsVars, Catalogs!vars
<1>5. UNCHANGED turnsVars => UNCHANGED Turns!vars
  BY DEF turnsVars, Turns!vars, Turns!loads
<1>6. /\ UNCHANGED landingVars => UNCHANGED Landing!vars
      /\ UNCHANGED datasetVars => UNCHANGED Dataset!vars
      /\ UNCHANGED runVars => UNCHANGED Run!vars
  BY DEF landingVars, Landing!vars, datasetVars, Dataset!vars, runVars, Run!vars
<1>7. UNCHANGED debuggerVars => UNCHANGED Debugger!vars
  BY DEF debuggerVars, Debugger!vars
<1>8. /\ UNCHANGED newRunVars => UNCHANGED NewRun!vars
      /\ UNCHANGED generateVars => UNCHANGED Generate!vars
  BY DEF newRunVars, NewRun!vars, generateVars, Generate!vars
<1>9. QED
  BY <1>1, <1>2, <1>3, <1>4, <1>5, <1>6, <1>7, <1>8

LEMMA WorkspaceStart ==
    Init => /\ Landing!Init /\ Run!Init /\ (page \in {"documents", "review"} => Dataset!Init)
            /\ (page = "newrun" => NewRun!Init) /\ (page = "generate" => Generate!Init)
            /\ (page = "trace" => Debugger!Init)
            /\ Session!Init /\ Catalogs!Init /\ Turns!Init
BY DEF Init

\* What a settled list, page of documents or review of queries shows is what is
\* stored, for the corpus, search and page on screen; a run never outlives its
\* dataset, and a run that was followed ends with every item: for any datasets,
\* runs, corpora, searches, queries and size of a page, in whatever order polls,
\* searches, edits and the server's own tasks are answered (useEvalsWorkspace,
\* useDatasetDetail, useDatasetQueries, useRunDetail over useApiQuery).
THEOREM PolledPagesAlwaysTrue == Spec => []PolledPagesAreTrue
<1> DEFINE Kept == /\ page = "landing" => Landing!ListsInv
                   /\ page \in {"documents", "review"} => Still
                   /\ page = "run" => Run!RunInv
<1>1. Init => Kept
  BY WorkspaceStart, ListsStart, DocumentsStart, ReviewStart, RunStart DEF Still
<1>2. Kept /\ [Next]_vars => Kept'
  BY WorkspaceSteps, ListsStep, DatasetStep, RunStep
<1>3. Kept => PolledPagesAreTrue
  BY ListsMean, DatasetMeans, RunMeans DEF PolledPagesAreTrue
<1>4. QED
  BY <1>1, <1>2, <1>3, PTL DEF Spec

\* A run that is launched has values typed for its own pipeline, within its
\* bounds; a cutoff the wizard did not warn about is served at its depth; what it
\* asks for means something; and a dataset is generated under the name its user
\* gave, from a request the server accepts: for any datasets, pipelines, bounds,
\* cutoffs, models and numbers typed (NewRunWizard and lib/run-config over
\* evals/execution/depth.py, GenerateDatasetWizard and its reducer).
THEOREM WizardsAlwaysFit == Spec => []WizardsFit
<1> DEFINE Kept == /\ page = "newrun" => NewRun!RunWizardInv
                   /\ page = "generate" => Generate!GenerateInv
<1>1. Init => Kept
  BY WorkspaceStart, RunWizardStart, GenerateStart
<1>2. Kept /\ [Next]_vars => Kept'
  BY WorkspaceSteps, RunWizardStep, GenerateStep
<1>3. Kept => WizardsFit
  BY RunWizardMeans, GenerateMeans DEF WizardsFit
<1>4. QED
  BY <1>1, <1>2, <1>3, PTL DEF Spec

\* When the navigations took effect the page focuses what was last asked for;
\* once its request is answered too, the evidence is that chunk's; and what is
\* selected is a node of the graph on screen: for any chunks, lists, pipelines
\* and number of moves, in whatever order the page and its address change and
\* the traces are answered (use-trace-debugger, use-execution-selection).
THEOREM EvidenceAlwaysFocused == Spec => []EvidenceIsFocused
<1> DEFINE Kept == page = "trace" => Debugger!FocusInv
<1>1. Init => Kept
  BY WorkspaceStart, FocusStart
<1>2. Kept /\ [Next]_vars => Kept'
  BY WorkspaceSteps, FocusStep
<1>3. Kept => EvidenceIsFocused
  BY FocusMeans DEF EvidenceIsFocused
<1>4. QED
  BY <1>1, <1>2, <1>3, PTL DEF Spec

\* Only the session on screen is said to load, and what is pending, optimistic
\* or can be stopped belongs to a turn that is still running: for any stored
\* sessions, names for new ones and number of turns, however the answers of
\* sends, retries, edits and branches, the navigation, the polls, the deletions
\* and Stop interleave (use-chat-mutations, use-session-messages).
THEOREM TurnsAlwaysTheirs == Spec => []TurnsAreTheirs
<1> DEFINE Kept == page = "turns" => Turns!TurnsInv
<1>1. Init => Kept
  BY WorkspaceStart, TurnsStart
<1>2. Kept /\ [Next]_vars => Kept'
  BY WorkspaceSteps, TurnsStep
<1>3. Kept => TurnsAreTheirs
  BY TurnsHold DEF TurnsAreTheirs
<1>4. QED
  BY <1>1, <1>2, <1>3, PTL DEF Spec

\* A catalog shown as current is no older than the last change of the
\* connections it was told of, nothing of a user who signed out is kept or comes
\* back, a spinner someone watches has a request that can end it, and only a
\* watched catalog is polled: for any keys, users, hooks and number of requests,
\* in whatever order they answer (shared-query-store, model-catalog-cache).
THEOREM CatalogsAlwaysTrue == Spec => []CatalogsAreTrue
<1> DEFINE Kept == page = "catalogs" => Catalogs!CatalogsInv
<1>1. Init => Kept
  BY WorkspaceStart, CatalogsStart
<1>2. Kept /\ [Next]_vars => Kept'
  BY WorkspaceSteps, CatalogsStep
<1>3. Kept => CatalogsAreTrue
  BY CatalogsMean DEF CatalogsAreTrue
<1>4. QED
  BY <1>1, <1>2, <1>3, PTL DEF Spec

\* A user who signed out stays so until the form is submitted, a page is shown
\* only with a token, and one who has completed the set-up is not sent back to
\* it: whatever the server answers and whenever the session is revoked, as long
\* as no two requests of the session overlap (AuthProvider, the gate).
THEOREM SessionAlwaysHolds == Spec => []SessionHolds
<1> DEFINE Kept == page = "session" => Session!SessionInv
<1>1. Init => Kept
  BY WorkspaceStart, SessionStart
<1>2. Kept /\ [Next]_vars => Kept'
  BY WorkspaceSteps, SessionStep
<1>3. Kept => SessionHolds
  BY SessionMeans DEF SessionHolds
<1>4. QED
  BY <1>1, <1>2, <1>3, PTL DEF Spec

\* A new token never takes a page away: what the gate knew stays known while it
\* asks again (SetupStatusProvider over the keepPreviousData query).
THEOREM PageAlwaysStays == Spec => PageStays
<1> DEFINE Kept == page = "session" => Session!SessionInv
<1>1. Init => Kept
  BY WorkspaceStart, SessionStart
<1>2. Kept /\ [Next]_vars => Kept'
  BY WorkspaceSteps, SessionStep
<1>3. Kept /\ [Next]_vars => [page = "session" => Session!PageStaysStep]_vars
  BY WorkspaceSteps, PageStaysStep
<1>4. QED
  BY <1>1, <1>2, <1>3, PTL DEF Spec, PageStays
================================================================================
