------------------------------- MODULE MCBackend -------------------------------
(***************************************************************************)
(* The services of the backend for TLC, one at a time: the ingestion       *)
(* queue, which is the extended module, the two caches, refresh sessions,  *)
(* accounts, the pipeline executor and evaluation runs. They share no      *)
(* state; a service that does not move is left out (None) or stays in one  *)
(* of its initial states.                                                  *)
(***************************************************************************)
EXTENDS DocumentIngestion, TLC

CONSTANTS
    Pages,         \* the services among which one moves
    Ids,
    AccountRequests,
    AdminClients,  \* requests that may be about administrators
    AccountCalls, AccountStarts,             \* bounds on calls and starts
    ValueChanges,
    ValueTime,     \* bounds of the value cache
    ResourceKeys,
    Nodes, Ins, Required, Many, Emissions,   \* the steps of a pipeline
    Definitions,   \* and the ways to wire them
    EvalOverlap,   \* whether runs of one dataset overlap
    EvalQueries,
    EvalCalls      \* bound: calls about a run

VARIABLES
    page,      \* what the behaviour is about: the service that moves
    clock, source, valuesIssued, call, entry, valuesLru, task, closing, shut, resets,
    floor, served,
    resourcesIssued, resourcesPc, key, awaits, future, closed, resourcesLru, detached,
    dropped, onDone, drops,
    now, sessionsRow, sessionsActive, jar, sessionsReq, shown, rested, sent, ended,
    born, role, peopleActive, peopleReq, made, peopleUp, starts,
    edges, executorPc, todo, progressed, pending, dead, outputs, inputs, delivered,
    fanin, seen,
    evaluationRow, items, progress, evaluationPc, found, reused, tool, doc, missing,
    work, current, evaluationClient, budget

\* Workers, keys, tabs and users: what is interchangeable is named by Ids.
IdSymmetry == Permutations(Ids)
WorkerClientSymmetry == Permutations(Workers) \union Permutations(Clients)

\* Statuses at which the file browser offers "ingest" or "retry", those the
\* endpoint accepts, and those of no record, a queued one or a finished one.
UiRetries == {"none", "failed"}
ApiRetries == RowStates
RestingRetries == {"none", "pending", "ready"}

\* The first run samples one document, any other run both: a larger later run
\* tops the collection up.  Each run evaluates a pipeline of its own.
SampleOf == [r1 |-> {"d1"}, r2 |-> {"d1", "d2"}]

\* A source, a router that emits one of its two branches, two single-input
\* steps, a variadic fan-in, and a node that needs both of its inputs.
Ports == [n \in {"src", "route", "a", "b", "mix", "join"} |->
    CASE n = "src" -> {} [] n = "join" -> {"l", "r"} [] OTHER -> {"i"}]
Steps == DOMAIN Ports
Variadic == [n \in Steps |-> IF n = "mix" THEN {"i"} ELSE {}]
Outcomes == [n \in Steps |-> IF n = "route" THEN {{"x"}, {"y"}} ELSE {{"o"}}]

\* Edge lists: where each input port is fed from, the fan-in from two branches
\* in either order.  Some of them have a cycle.
Edge(k, from, to, port) ==
    [id |-> k, source |-> from[1], out |-> from[2], target |-> to, port |-> port]

Branches ==
    {s \in [1..2 -> {<<"route", "y">>, <<"a", "o">>, <<"b", "o">>}] : s[1] # s[2]}

WiredBy(intoB, intoRoute) ==
    {<< Edge(1, br[1], "mix", "i"), Edge(2, ra, "a", "i"),
        Edge(3, br[2], "mix", "i"), Edge(4, rb, "b", "i"),
        Edge(5, rr, "route", "i"),
        Edge(6, <<"mix", "o">>, "join", "l"), Edge(7, rj, "join", "r") >> :
      br \in Branches,
      ra \in {<<"src", "o">>, <<"route", "x">>, <<"b", "o">>},
      rb \in intoB, rr \in intoRoute,
      rj \in {<<"b", "o">>, <<"route", "x">>}}

Wirings ==
    WiredBy({<<"src", "o">>, <<"a", "o">>, <<"route", "y">>}, {<<"src", "o">>, <<"a", "o">>})
StraightWirings == WiredBy({<<"src", "o">>, <<"a", "o">>}, {<<"src", "o">>})

Values == INSTANCE ValueCache WITH
    Keys <- Ids, Missing <- None, Indefinite <- None, FreshSeconds <- 0,
    MaxStaleSeconds <- 1, RetrySeconds <- 1, MaxEntries <- 1, RefreshWorkers <- 1,
    MaxCalls <- 3, MaxChanges <- ValueChanges, MaxInvalidations <- 1,
    MaxTime <- ValueTime, issued <- valuesIssued, lru <- valuesLru
Resources == INSTANCE ResourceCache WITH
    Keys <- ResourceKeys, NoKey <- None, MaxEntries <- 1, MaxCalls <- 3, MaxDrops <- 1,
    issued <- resourcesIssued, pc <- resourcesPc, lru <- resourcesLru
Sessions == INSTANCE AuthSessions WITH
    Tabs <- Ids, NoToken <- None, Grace <- 2, Lifetime <- 5, MaxLatency <- 1,
    MinGap <- 2, MaxRefreshes <- 3, MaxTime <- 6, row <- sessionsRow,
    active <- sessionsActive, req <- sessionsReq
People == INSTANCE Accounts WITH
    Users <- Ids, Requests <- AccountRequests, Nobody <- None,
    MaxRequests <- AccountCalls, MaxStarts <- AccountStarts, active <- peopleActive,
    req <- peopleReq, up <- peopleUp
Exec == INSTANCE PipelineExecutor WITH pc <- executorPc
Evaluation == INSTANCE EvalRuns WITH
    Runs <- {"r1", "r2"}, Clients <- {"k1"}, Queries <- EvalQueries,
    Docs <- {"d1", "d2"}, Sample <- SampleOf,
    Retrieval <- [r \in DOMAIN SampleOf |-> r], Overlap <- EvalOverlap,
    MaxCalls <- EvalCalls, MaxErrors <- 1, MaxFaults <- 1, MaxCrashes <- 1,
    row <- evaluationRow, pc <- evaluationPc, client <- evaluationClient

ASSUME ValuesPolicy == Values!PolicyAssumption
ASSUME ValuesBounds == Values!CacheBoundsAssumption
ASSUME ResourcesBounds == Resources!ResourceBoundsAssumption
ASSUME SessionsTiming == Sessions!TimingAssumption
ASSUME PeopleBounds == People!AccountsAssumption
ASSUME ExecutorPorts == Exec!PortsAssumption
ASSUME ExecutorWiring == Exec!WiringAssumption
ASSUME EvaluationRuns == Evaluation!RunsAssumption

valuesVars == <<clock, source, valuesIssued, call, entry, valuesLru, task, closing,
    shut, resets, floor, served>>
resourcesVars == <<resourcesIssued, resourcesPc, key, awaits, future, closed,
    resourcesLru, detached, dropped, onDone, drops>>
sessionsVars == <<now, sessionsRow, sessionsActive, jar, sessionsReq, shown, rested,
    sent, ended>>
peopleVars == <<born, role, peopleActive, peopleReq, made, peopleUp, starts>>
executorVars == <<edges, executorPc, todo, progressed, pending, dead, outputs, inputs,
    delivered, fanin, seen>>
evaluationVars == <<evaluationRow, items, progress, evaluationPc, found, reused, tool,
    doc, missing, work, current, evaluationClient, budget>>

MCVars == <<page, vars, valuesVars, resourcesVars, sessionsVars, peopleVars, executorVars,
          evaluationVars>>

\* What moves starts as it does alone.
MCInit ==
    /\ page \in Pages
    /\ Init
    /\ Values!Init
    /\ Resources!Init
    /\ IF page = "sessions" THEN Sessions!Init
       ELSE /\ now = None /\ sessionsRow = None /\ sessionsActive = None /\ jar = None
            /\ sessionsReq = None /\ shown = None /\ rested = None /\ sent = None
            /\ ended = None
    /\ IF page = "accounts" THEN People!Init
       ELSE /\ born = None /\ role = None /\ peopleActive = None /\ peopleReq = None
            /\ made = None /\ peopleUp = None /\ starts = None
    /\ Exec!Init /\ (page = "executor" \/ (edges = CHOOSE d \in Definitions : TRUE))
    /\ Evaluation!Init

InValues(A) ==
    page = "values" /\ A
         /\ UNCHANGED <<page, vars, resourcesVars, sessionsVars, peopleVars, executorVars,
                      evaluationVars>>
InResources(A) ==
    page = "resources" /\ A
         /\ UNCHANGED <<page, vars, valuesVars, sessionsVars, peopleVars, executorVars, evaluationVars>>
InExecutor(A) ==
    page = "executor" /\ A
         /\ UNCHANGED <<page, vars, valuesVars, resourcesVars, sessionsVars, peopleVars, evaluationVars>>
InEvaluation(A) ==
    page = "evalruns" /\ A
         /\ UNCHANGED <<page, vars, valuesVars, resourcesVars, sessionsVars, peopleVars, executorVars>>

MCNext ==
    \/ page = "ingestion" /\ Next
         /\ UNCHANGED <<page, valuesVars, resourcesVars, sessionsVars, peopleVars, executorVars,
                      evaluationVars>>
    \/ InValues(Values!Next)
    \/ InResources(Resources!Next)
    \/ page = "sessions" /\ Sessions!Next
         /\ UNCHANGED <<page, vars, valuesVars, resourcesVars, peopleVars, executorVars, evaluationVars>>
    \/ page = "accounts" /\ People!Next
         /\ UNCHANGED <<page, vars, valuesVars, resourcesVars, sessionsVars, executorVars,
                      evaluationVars>>
    \/ InExecutor(Exec!Next)
    \/ InEvaluation(Evaluation!Next)

MCSpec == MCInit /\ [][MCNext]_MCVars

\* Each of them under its own fairness.
ServicesFairness ==
    /\ \A c \in 1..3 : WF_MCVars(InValues(Values!CallStep(c))) /\ WF_MCVars(InValues(Values!TaskStep(c)))
    /\ WF_MCVars(InValues(Values!CloseEnds))
    /\ \A c \in 1..3 : WF_MCVars(InResources(Resources!CallStep(c))) /\ WF_MCVars(InResources(Resources!CloseDropped(c)))
    /\ WF_MCVars(InExecutor(Exec!ExecuteStep))
    /\ \A r \in {"r1", "r2"} : WF_MCVars(InEvaluation(Evaluation!RunnerStep(r)))

ServicesSpec == MCSpec /\ ServicesFairness

\* The ingestion queue alone, under its own fairness.
RetriesSpec == MCSpec /\ Fairness

--------------------------------------------------------------------------------
\* A document has one worker at a time, and one that is ready has a run, chunks
\* and vectors of one ingestion: whatever was retried, deleted, interrupted or
\* restarted before.
DocumentsAreWhole ==
    page = "ingestion" => OneWorkerPerDocument /\ ReadyIndexed

\* A cache starts one load per entry and one resource per key, forgets what was
\* invalidated while it was being loaded, closes what it evicted once, after its
\* last user, and comes back to its capacity.
CachesHold ==
    /\ page = "values" =>
          /\ Values!TypeOK
          /\ Values!OneFlightPerEntry
          /\ Values!InvalidationHolds
          /\ Values!CapacityHolds
    /\ page = "resources" =>
          /\ Resources!TypeOK
          /\ Resources!NoLeak
          /\ Resources!ClosedOnce
          /\ Resources!SingleFlight
          /\ Resources!CapacityRestored

\* Tabs that refresh one session at the same moment stay signed in, the cookie
\* they share can be used, and a token that was revoked is refused.
SessionsHold ==
    page = "sessions" =>
        /\ Sessions!TypeOK
        /\ Sessions!TabsStaySignedIn
        /\ Sessions!JarIsUsable
        /\ Sessions!RevokedIsRefused

\* "Derive one stable successor so concurrent refreshes converge" (auth.py:49):
\* however many pages of the browser refresh at once, none of them is signed out.
RefreshesConverge == page = "sessions" => Sessions!TabsStaySignedIn

\* No step brings a revoked session back.
RevocationIsFinal == [][page = "sessions" => Sessions!RevocationIsFinalStep]_MCVars

\* The system retains an active administrator (admin_users.py, lines 3-4).
AdminRemains ==
    page = "accounts" => People!TypeOK /\ People!AdminRemains

\* A node runs on complete inputs, the outcome of a pipeline does not depend on
\* the order of its edges, and a run is called stalled only if no node can go
\* on.
ExecutionIsWhole ==
    page = "executor" =>
        /\ Exec!TypeOK
        /\ Exec!CompleteInputs
        /\ Exec!OutcomeFixed
        /\ Exec!StallIsReal

\* A completed evaluation has an item for every query, answered by its own
\* pipeline over a corpus that was ingested, in the one collection of its
\* dataset; how it ended is recorded.
EvaluationsAreTrue ==
    page = "evalruns" =>
        /\ Evaluation!TypeOK
        /\ Evaluation!CompletedIsWhole
        /\ Evaluation!OwnPipeline
        /\ Evaluation!CorpusIngested
        /\ Evaluation!OneCollection
        /\ Evaluation!OutcomeRecorded

\* A run is answered by its own pipeline.
OwnPipeline ==
    page = "evalruns" => Evaluation!OwnPipeline

\* Every call of a cache returns or raises.
CallsEnd ==
    /\ page = "values" => Values!GetsEnd
    /\ page = "resources" => Resources!CallsEnd

\* Every run of a pipeline ends, and an evaluation leaves its in-progress status
\* unless its runner was lost.
RunsEnd ==
    /\ page = "executor" => Exec!RunEnds
    /\ page = "evalruns" => Evaluation!RunSettles
================================================================================
