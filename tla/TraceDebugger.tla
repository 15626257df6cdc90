----------------------------- MODULE TraceDebugger -----------------------------
(***************************************************************************)
(* The trace debugger page (TraceDebugger over use-trace-debugger,         *)
(* use-execution-selection and ArtifactDrawer): which chunk is in focus is *)
(* kept twice, in the page and in its address, the address follows a       *)
(* moment later, and every focus is another request for the trace.         *)
(***************************************************************************)
EXTENDS ApiQueries, Naturals, Sequences, Functions, FiniteSets

CONSTANTS
    Chunks,        \* chunk ids that may be focused
    Document, Index,  \* the document of a chunk and its place there
    Lists,         \* the item lists the traces recorded, as sequences of chunks
    Pipeline,      \* [Chunks -> the pipeline that ingested it, or None]
    Nodes,         \* [pipeline -> its nodes in order of execution]; "retrieval" is one
    MaxMoves       \* bound: changes of focus

VARIABLES
    kind,          \* "query" or "document": what the page was opened on
    failedNode,    \* the retrieval node that failed, or None
    chunkId,       \* the address: the chunk it names
    navigations,   \* router.replace calls that have not taken effect
    focusState,    \* [key, item]: the page's focus, for the address it was set at
    traceQuery,    \* the request for the trace
    mounted,       \* LoadedTraceDebugger is on screen, with what follows
    selection,     \* [initial, selected]
    graphStage, showFocusedPath, tab,
    artifactItem, artifactMode,
    asked,         \* history: what the user last asked to have in focus
    moves

vars == <<kind, failedNode, chunkId, navigations, focusState, traceQuery, mounted, selection,
          graphStage, showFocusedPath, tab, artifactItem, artifactMode, asked, moves>>
view == <<selection, graphStage, showFocusedPath, tab, artifactItem, artifactMode>>
route == <<chunkId, navigations, focusState, asked, moves>>

--------------------------------------------------------------------------------
(***************************************************************************)
(* use-trace-debugger.                                                     *)
(***************************************************************************)
Focused(key, state) == IF state.key = key THEN state.item ELSE key
focusedItemId == Focused(chunkId, focusState)

\* The chunk the trace is read for: that of the address, where it names one.
TraceChunk(key, state) ==
    IF kind = "query" /\ key = None THEN Focused(key, state) ELSE key

\* loadTrace, with the answer of the server: the run, the ingestion run of the
\* focused chunk where it is known, and the chunks around it in any list.
Around(c) ==
    UNION {{l[j] : j \in {k \in DOMAIN l : \E i \in DOMAIN l : l[i] = c /\ k <= i + 2 /\ i <= k + 2}} : l \in Lists}
loadTrace(c) ==
    [chunk |-> c,
     origin |-> IF c = None \/ kind = "document" THEN None ELSE Pipeline[c],
     context |-> IF c = None THEN {} ELSE Around(c)]

Loaded == traceQuery.data
combined(trace) == trace.origin # None

\* The graph of a trace, as its steps: ids are prefixed when two runs are joined.
NoPrefix == ""
Steps(stage, prefix, p) == [i \in DOMAIN Nodes[p] |-> [node |-> <<prefix, Nodes[p][i]>>, stage |-> stage]]
graph(trace) ==
    IF combined(trace) THEN Steps("origin", "origin", trace.origin) \o Steps("retrieval", "retrieval", "retrieval")
    ELSE IF kind = "document" THEN Steps("origin", NoPrefix, "ingestion")
    ELSE Steps("retrieval", NoPrefix, "retrieval")

NodesOf(trace) == {s.node : s \in Range(graph(trace))}
Failed(s) == failedNode # None /\ s.stage = "retrieval" /\ s.node[2] = failedNode

\* The first of the steps that is wanted, or the first of all.
FirstOf(steps, wanted) ==
    LET places == {i \in DOMAIN steps : steps[i] \in wanted}
    IN  steps[IF places = {} THEN 1 ELSE CHOOSE i \in places : \A j \in places : i <= j]

initialExecutionNodeId(trace, focus) ==
    LET steps == graph(trace)
        failed == {s \in Range(steps) : Failed(s)}
    IN  IF failed # {} THEN FirstOf(steps, failed).node
        ELSE IF focus # None THEN FirstOf(steps, {s \in Range(steps) : s.stage = "retrieval"}).node
        ELSE steps[1].node

\* use-trace-stepper: playback opens on a failure, or where retrieval starts.
initialStage(trace) ==
    IF (\E s \in Range(graph(trace)) : Failed(s)) \/ combined(trace) THEN "retrieval"
    ELSE graph(trace)[1].stage

\* use-execution-selection: a selection is kept while the initial node is the same.
selectedNodeId ==
    LET initial == initialExecutionNodeId(Loaded, focusedItemId)
    IN  IF selection.initial = initial THEN selection.selected ELSE initial

\* Mutant: the trace is read again only when the page has no focus of its own.
RefetchOnAddress(key, state) ==
 traceQuery' = IF TraceChunk(key, state) # TraceChunk(chunkId, focusState) /\ key = chunkId THEN Ask(traceQuery) ELSE traceQuery

\* The request is made again when the chunk to read for changes.
Refetch(key, state) ==
    traceQuery' = IF TraceChunk(key, state) # TraceChunk(chunkId, focusState) THEN Ask(traceQuery) ELSE traceQuery

Init ==
    /\ kind \in {"query", "document"} /\ failedNode \in {None} \cup Range(Nodes["retrieval"])
    /\ chunkId \in Chunks \cup {None} /\ navigations = << >>
    /\ focusState = [key |-> chunkId, item |-> chunkId] /\ asked = chunkId
    /\ traceQuery = Ask(NewQuery) /\ mounted = FALSE
    /\ selection = [initial |-> None, selected |-> None]
    /\ graphStage = "retrieval" /\ showFocusedPath = FALSE /\ tab = "explanation"
    /\ artifactItem = None /\ artifactMode = "reader" /\ moves = 0

ServeTrace ==
    /\ Unserved(traceQuery) /\ traceQuery' = Serve(traceQuery, loadTrace(TraceChunk(chunkId, focusState)))
    /\ UNCHANGED <<kind, failedNode, route, mounted, view>>

\* The first answer mounts the debugger, with its initial states.
LandTrace ==
    /\ traceQuery.served /\ traceQuery' = Land(traceQuery) /\ mounted' = TRUE
    /\ IF mounted THEN UNCHANGED view
       ELSE LET node == initialExecutionNodeId(traceQuery.answer, focusedItemId) IN
            /\ selection' = [initial |-> node, selected |-> node]
            /\ showFocusedPath' = (focusedItemId # None) /\ graphStage' = initialStage(traceQuery.answer)
            /\ UNCHANGED <<tab, artifactItem, artifactMode>>
    /\ UNCHANGED <<kind, failedNode, route>>

FailTrace ==
    /\ traceQuery.loading /\ traceQuery' = Fault(traceQuery)
    /\ UNCHANGED <<kind, failedNode, route, mounted, view>>

Refresh ==
    /\ mounted /\ moves < MaxMoves /\ moves' = moves + 1 /\ traceQuery' = Ask(traceQuery)
    /\ UNCHANGED <<kind, failedNode, chunkId, navigations, focusState, asked, mounted, view>>

--------------------------------------------------------------------------------
(***************************************************************************)
(* The focus: set in the page at once, and in the address by a navigation. *)
(***************************************************************************)
setFocus(item) ==
    /\ focusState' = [key |-> chunkId, item |-> item] /\ asked' = item
    /\ navigations' = Append(navigations, item)
    /\ moves < MaxMoves /\ moves' = moves + 1
    /\ Refetch(chunkId, [key |-> chunkId, item |-> item])
    /\ UNCHANGED <<kind, failedNode, chunkId, mounted>>

focusResult(item) ==
    /\ mounted /\ artifactItem = None /\ item # focusedItemId
    /\ setFocus(item) /\ showFocusedPath' = TRUE
    /\ UNCHANGED <<selection, graphStage, tab, artifactItem, artifactMode>>

clearResult ==
    /\ mounted /\ artifactItem = None /\ focusedItemId # None
    /\ setFocus(None) /\ showFocusedPath' = FALSE /\ artifactItem' = None
    /\ UNCHANGED <<selection, graphStage, tab, artifactMode>>

\* A navigation takes effect; one that another has overtaken may be dropped.
Navigate ==
    \E i \in DOMAIN navigations :
        /\ chunkId' = navigations[i] /\ navigations' = SubSeq(navigations, i + 1, Len(navigations))
        /\ Refetch(navigations[i], focusState)
        /\ UNCHANGED <<kind, failedNode, focusState, asked, moves, mounted, view>>

--------------------------------------------------------------------------------
(***************************************************************************)
(* The views.                                                              *)
(***************************************************************************)
Seen == mounted /\ artifactItem = None
Rest == <<kind, failedNode, route, traceQuery, mounted>>

StageOf(node) == {s.stage : s \in {x \in Range(graph(Loaded)) : x.node = node}}

\* The graph follows the node; the evidence panel starts over for another one.
selectTraceNode(node) ==
    /\ Seen /\ graphStage' \in StageOf(node)
    /\ selection' = [initial |-> initialExecutionNodeId(Loaded, focusedItemId), selected |-> node]
    /\ tab' = IF node = selectedNodeId THEN tab ELSE "explanation"
    /\ UNCHANGED <<Rest, showFocusedPath, artifactItem, artifactMode>>

\* Nodes are selected in the ledger of the run, along the ranks of the item, or
\* in the graph, which shows one stage.
displayGraph == {s.node : s \in {x \in Range(graph(Loaded)) : x.stage = graphStage}}
ExecutionLedger == mounted /\ \E n \in NodesOf(Loaded) : selectTraceNode(n)
RankPath == mounted /\ focusedItemId # None /\ \E n \in NodesOf(Loaded) : "retrieval" \in StageOf(n) /\ selectTraceNode(n)
FlowNode == mounted /\ \E n \in displayGraph : selectTraceNode(n)

selectTab(t) == Seen /\ tab' = t /\ UNCHANGED <<Rest, selection, graphStage, showFocusedPath, artifactItem, artifactMode>>

\* A tab of the graph, or playback entering another stage.
setGraphStage(stage) ==
    /\ mounted /\ stage \in {s.stage : s \in Range(graph(Loaded))} /\ graphStage' = stage
    /\ UNCHANGED <<Rest, selection, showFocusedPath, tab, artifactItem, artifactMode>>

togglePath(shown) ==
    /\ Seen /\ (shown => focusedItemId # None) /\ showFocusedPath' = shown
    /\ UNCHANGED <<Rest, selection, graphStage, tab, artifactItem, artifactMode>>

\* What the page shows the chunk in focus with: the last answer's.
focusedItem == IF focusedItemId = None THEN None ELSE Loaded.chunk
contextItems == IF focusedItemId = None THEN {} ELSE Loaded.context

hasAdjacentContext ==
    focusedItem # None /\ \E c \in contextItems : c # focusedItem /\ Document[c] = Document[focusedItem]

openArtifact(item, mode) ==
    /\ Seen /\ focusedItem # None /\ item \in contextItems \cup {focusedItem}
    /\ (mode = "context" => item = focusedItem /\ hasAdjacentContext)
    /\ artifactItem' = item /\ artifactMode' = mode
    /\ UNCHANGED <<Rest, selection, graphStage, showFocusedPath, tab>>

\* The buttons of the focus: its chunk, and its chunk beside its neighbours.
FocusHeader == \E m \in {"reader", "context"} : openArtifact(focusedItem, m)

\* The rows of a ranked list: every result may be traced, known ones be read.
RankedResults == \E c \in Chunks : focusResult(c) \/ openArtifact(c, "reader")

\* The neighbours of a chunk among the context, by place in the document.
adjacentChunks(item) ==
    LET siblings == {c \in contextItems : Document[c] = Document[item]}
        before == {c \in siblings : Index[c] < Index[item]}
        after == {c \in siblings : Index[c] > Index[item]}
    IN  IF item \notin siblings THEN {}
        ELSE {c \in before : \A d \in before : Index[d] <= Index[c]}
                 \cup {c \in after : \A d \in after : Index[c] <= Index[d]}

setContextMode(mode) ==
    /\ artifactItem # None /\ (mode = "context" => adjacentChunks(artifactItem) # {}) /\ artifactMode' = mode
    /\ UNCHANGED <<Rest, selection, graphStage, showFocusedPath, tab, artifactItem>>

\* The drawer goes with its mode: every opening sets its own.
closeArtifact ==
    /\ artifactItem # None /\ artifactItem' = None /\ artifactMode' = "reader"
    /\ UNCHANGED <<Rest, selection, graphStage, showFocusedPath, tab>>

Next ==
    \/ ServeTrace \/ LandTrace \/ FailTrace \/ Refresh \/ Navigate \/ clearResult \/ closeArtifact
    \/ RankedResults \/ FocusHeader \/ ExecutionLedger \/ RankPath \/ FlowNode
    \/ \E t \in {"explanation", "data"} : selectTab(t)
    \/ \E s \in {"origin", "retrieval"} : setGraphStage(s)
    \/ \E b \in BOOLEAN : togglePath(b)
    \/ \E m \in {"reader", "context"} : setContextMode(m)

Spec == Init /\ [][Next]_vars

--------------------------------------------------------------------------------
(***************************************************************************)
(* Properties.                                                             *)
(***************************************************************************)
TypeOK ==
    /\ chunkId \in Chunks \cup {None} /\ focusState.item \in Chunks \cup {None}
    /\ traceQuery.data \in {None} \cup {loadTrace(c) : c \in Chunks \cup {None}}
    /\ (mounted <=> traceQuery.data # None)
    /\ graphStage \in {"origin", "retrieval"} /\ artifactItem \in Chunks \cup {None}
    /\ artifactMode \in {"reader", "context"}

\* When every navigation took effect, the page focuses what was last asked
\* for, in whatever order focus and address were changed meanwhile.
FocusIsAsked == navigations = << >> => focusedItemId = asked /\ chunkId = asked

\* Once the requests are answered too, the evidence on screen is that of the
\* chunk in focus.
EvidenceOfFocus ==
    (mounted /\ navigations = << >> /\ Settled(traceQuery)) => Loaded.chunk = asked

\* A selected retrieval node stays one of the graph through every change of
\* focus; only nodes of another chunk's ingestion may be gone.
SelectionIsANode ==
    mounted => selectedNodeId \in NodesOf(Loaded) \/ selectedNodeId[1] = "origin"

\* Inductive: what is asked for, the last navigation, the page and its address
\* agree; the request is for the chunk they name, and only an answer to another
\* is ever still to come; a selection belongs to the graph its initial node is of.
RouteInv ==
    /\ kind \in {"query", "document"} /\ chunkId \in Chunks \cup {None} /\ asked \in Chunks \cup {None}
    /\ focusState \in [key : Chunks \cup {None}, item : {asked}]
    /\ navigations \in Seq(Chunks \cup {None})
    /\ IF navigations = << >> THEN chunkId = asked ELSE navigations[Len(navigations)] = asked

Traces ==
    [chunk : Chunks \cup {None}, origin : {None} \cup {Pipeline[c] : c \in Chunks}, context : SUBSET Chunks]

RequestInv ==
    LET answer == loadTrace(TraceChunk(chunkId, focusState))
    IN  /\ IsQuery(traceQuery) /\ (mounted <=> traceQuery.data # None)
        /\ traceQuery.data \in {None} \cup {loadTrace(c) : c \in Chunks \cup {None}}
        /\ (traceQuery.served => traceQuery.loading /\ traceQuery.answer = answer)
        /\ (Settled(traceQuery) => traceQuery.data = answer)

ViewInv ==
    /\ graphStage \in {"origin", "retrieval"} /\ artifactItem \in Chunks \cup {None}
    /\ artifactMode \in {"reader", "context"}
    /\ mounted =>
          IF selection.initial[1] = NoPrefix
          THEN selection.selected \in {s.node : s \in Range(graph([origin |-> None]))}
          ELSE selection.selected[1] = "origin"
                 \/ selection.selected \in {s.node : s \in Range(Steps("retrieval", "retrieval", "retrieval"))}

FocusInv == RouteInv /\ RequestInv /\ ViewInv
================================================================================
