----------------------------- MODULE PipelineWizard -----------------------------
(***************************************************************************)
(* Creating a pipeline: the wizard (CreatePipelineWizard.tsx), the index   *)
(* manager it hands over to and comes back from (PipelineModals.tsx,       *)
(* IndexManagerModal.tsx), the form that creates an index, whose dimension *)
(* may be looked up from a model (use-create-index-form.ts), the list of   *)
(* indexes behind both (use-indexes.ts) and the graph the wizard scaffolds *)
(* (pipeline-scaffold.ts), which has to mirror the backend's defaults.     *)
(***************************************************************************)
EXTENDS Naturals

CONSTANTS
    Kind,          \* "ingestion" or "retrieval": the builder's kind
    Backends,      \* the vector stores
    DefaultBackend,
    Usable,        \* those available and configured
    Lexical,       \* those that serve sparse indexes
    NamesOf,       \* the index names the user types, for each backend
    Models,        \* embedding models
    TrueDim,       \* the dimension of each model
    Listed,        \* the models whose dimension the catalog states
    MaxDimension,  \* capabilities.max_dimension
    None,
    MaxLoads,      \* bound: reads of the index list
    MaxPicks       \* bound: model selections and mode changes in one form

VARIABLES
    wiz,           \* the wizard: open, step, named, backend, index, model, creating
    mgr,           \* the index manager: open, back (returnToPipelineWizard), backend, selected, view, target, deleting
    form,          \* the create form: sparse, dim, useModel, model, creating
    generation,    \* selectionGeneration
    lookups,       \* dimension lookups in flight
    indexCalls,    \* index creations and deletions in flight
    stored,        \* the indexes the backends hold
    shown,         \* indexes, as listed last
    loads,         \* list reads in flight, with what they read
    loadId,        \* requestIdRef
    loading, listFailed,
    gone           \* models the catalog no longer lists

wizVars == <<wiz, mgr>>
formVars == <<form, generation, lookups>>
listVars == <<shown, loads, loadId, loading, listFailed>>
vars == <<wizVars, formVars, indexCalls, stored, listVars, gone>>

Default == 1536
NewForm == [sparse |-> FALSE, dim |-> Default, useModel |-> FALSE, model |-> None, creating |-> FALSE]
ClosedWizard == [open |-> FALSE, step |-> 0, named |-> FALSE, backend |-> DefaultBackend,
                 index |-> None, model |-> None, creating |-> FALSE]

Init ==
    /\ wiz = ClosedWizard
    /\ mgr = [open |-> FALSE, back |-> FALSE, backend |-> DefaultBackend, selected |-> None,
              view |-> "details", target |-> None, deleting |-> FALSE]
    /\ form = NewForm /\ generation = 0 /\ lookups = {}
    /\ indexCalls = {} /\ stored = {} /\ gone = {}
    /\ shown = {} /\ loadId = 1 /\ loads = {[id |-> 1, data |-> {}]} /\ loading = TRUE /\ listFailed = FALSE

-------------------------------------------------------------------------------
\* buildDefaultDefinition: the edges of the scaffold, as <<node, node, port>>.
RetrievalEdges(bm25) ==
    {<<"query-input", "embed-query", "request">>,
     <<"embed-query", "vector-retriever", "query_embedding">>}
    \cup IF bm25
         THEN {<<"query-input", "bm25-retriever", "request">>,
               <<"vector-retriever", "fuse-results", "results">>,
               <<"bm25-retriever", "fuse-results", "results">>,
               <<"fuse-results", "limit-results", "results">>,
               <<"limit-results", "retrieval-output", "results">>}
         ELSE {<<"vector-retriever", "retrieval-output", "results">>}

IngestionEdges(bm25) ==
    {<<"ingest-input", "parse-document", "source">>,
     <<"parse-document", "chunk-document", "document">>,
     <<"chunk-document", "embed-chunks", "chunks">>,
     <<"embed-chunks", "index-chunks", "embedded">>,
     <<"index-chunks", "ingest-output", "indexed">>}
    \cup IF bm25
         THEN {<<"chunk-document", "index-bm25", "chunks">>,
               <<"index-bm25", "ingest-output", "indexed">>}
         ELSE {}

\* bm25SiblingIndexName: the sparse index paired with a dense one.
Bm25SiblingIndexName(i) == <<i, "-bm25">>

\* The stores each node of a scaffold names in its configuration.
StoreNodes(kind, b, i) ==
    LET dense == IF kind = "ingestion" THEN "index-chunks" ELSE "vector-retriever"
        sparse == IF kind = "ingestion" THEN "index-bm25" ELSE "bm25-retriever"
    IN {<<dense, b, i>>} \cup IF b \in Lexical THEN {<<sparse, b, Bm25SiblingIndexName(i)>>} ELSE {}

BuildDefaultDefinition(kind, b, i, m) ==
    [edges |-> IF kind = "retrieval" THEN RetrievalEdges(b \in Lexical) ELSE IngestionEdges(b \in Lexical),
     stores |-> StoreNodes(kind, b, i), embedder |-> m]

\* The definition the review step previews and Create sends.
Definition == BuildDefaultDefinition(Kind, wiz.backend, wiz.index, wiz.model)

-------------------------------------------------------------------------------
\* The wizard opens with everything reset, when it was not open before; what a
\* closed one still holds is never seen again.
OpenedWizard == [ClosedWizard EXCEPT !.open = TRUE, !.creating = wiz.creating]
Shut(creating) == [ClosedWizard EXCEPT !.creating = creating]

OpenCreatePipeline ==
    /\ ~wiz.open /\ ~mgr.open
    /\ wiz' = OpenedWizard
    /\ UNCHANGED <<mgr, formVars, indexCalls, stored, listVars, gone>>

\* Escape, the backdrop and the cross close at any time, Cancel when not busy.
CloseWizard ==
    /\ wiz.open
    /\ wiz' = Shut(wiz.creating)
    /\ UNCHANGED <<mgr, formVars, indexCalls, stored, listVars, gone>>

\* The steps of the sidebar can all be clicked, whatever is filled in.
StepChange(s) ==
    /\ wiz.open /\ s # wiz.step
    /\ wiz' = [wiz EXCEPT !.step = s]
    /\ UNCHANGED <<mgr, formVars, indexCalls, stored, listVars, gone>>

Missing(m) == m # None /\ m \in gone

CanProceed ==
    CASE wiz.step = 0 -> wiz.named
      [] wiz.step = 1 -> wiz.index # None
      [] OTHER -> wiz.model # None /\ ~Missing(wiz.model)

\* The footer's Next, before the last step.
WizardNext ==
    /\ wiz.open /\ ~wiz.creating /\ CanProceed /\ wiz.step < 3
    /\ wiz' = [wiz EXCEPT !.step = @ + 1]
    /\ UNCHANGED <<mgr, formVars, indexCalls, stored, listVars, gone>>

TypeName ==
    /\ wiz.open /\ wiz.step = 0
    /\ wiz' = [wiz EXCEPT !.named = ~@]
    /\ UNCHANGED <<mgr, formVars, indexCalls, stored, listVars, gone>>

\* A card of a backend that cannot be used is disabled.
SelectBackend(b) ==
    /\ wiz.open /\ wiz.step = 1 /\ b \in Usable /\ b # wiz.backend
    /\ wiz' = [wiz EXCEPT !.backend = b, !.index = None]
    /\ UNCHANGED <<mgr, formVars, indexCalls, stored, listVars, gone>>

\* The dense indexes of the chosen backend.
BackendIndexes == {i \in shown : i.backend = wiz.backend /\ ~i.sparse}

SelectIndex(i) ==
    /\ wiz.open /\ wiz.step = 1 /\ i \in BackendIndexes
    /\ wiz' = [wiz EXCEPT !.index = i.name]
    /\ UNCHANGED <<mgr, formVars, indexCalls, stored, listVars, gone>>

SelectEmbeddingModel(m) ==
    /\ wiz.open /\ wiz.step = 2 /\ m \notin gone
    /\ wiz' = [wiz EXCEPT !.model = m]
    /\ UNCHANGED <<mgr, formVars, indexCalls, stored, listVars, gone>>

\* handleCreate on the review step.
CreatePipeline ==
    /\ wiz.open /\ wiz.step = 3 /\ CanProceed /\ ~wiz.creating
    /\ wiz' = [wiz EXCEPT !.creating = TRUE]
    /\ UNCHANGED <<mgr, formVars, indexCalls, stored, listVars, gone>>

\* The answer shuts the wizard, an error leaves it as it is.
CreateAnswers(ok) ==
    /\ wiz.creating
    /\ wiz' = IF ok THEN Shut(FALSE) ELSE [wiz EXCEPT !.creating = FALSE]
    /\ UNCHANGED <<mgr, formVars, indexCalls, stored, listVars, gone>>

-------------------------------------------------------------------------------
OfBackend(s, b) == {i \in s : i.backend = b}

\* The selection effect of the open manager: some index of the tab is shown.
Settle(m, s) ==
    IF m.open /\ m.view = "details" /\ m.selected = None /\ OfBackend(s, m.backend) # {}
    THEN [m EXCEPT !.selected = (CHOOSE i \in OfBackend(s, m.backend) : TRUE).name]
    ELSE m

\* The form is mounted afresh: a lookup under way answers to nobody.
Remount == form' = NewForm /\ generation' = 0 /\ lookups' = {}
Kept == UNCHANGED formVars

\* The manager opens, from the header or from the wizard, which it replaces.
OpenIndexManager(fromWizard) ==
    /\ ~mgr.open /\ (fromWizard <=> wiz.open) /\ (fromWizard => wiz.step = 1)
    /\ wiz' = Shut(wiz.creating)
    /\ LET view == IF OfBackend(shown, mgr.backend) # {} THEN "details" ELSE "create" IN
       mgr' = Settle([mgr EXCEPT !.open = TRUE, !.back = @ \/ fromWizard, !.view = view], shown)
    /\ Remount
    /\ UNCHANGED <<indexCalls, stored, listVars, gone>>

CloseIndexManager ==
    /\ mgr.open /\ mgr.target = None
    /\ mgr' = [mgr EXCEPT !.open = FALSE, !.back = FALSE]
    /\ wiz' = IF mgr.back THEN OpenedWizard ELSE wiz
    /\ Remount
    /\ UNCHANGED <<indexCalls, stored, listVars, gone>>

\* A tab of the manager: an unusable backend's is disabled.
SelectTab(b) ==
    /\ mgr.open /\ mgr.target = None /\ b \in Usable
    /\ LET view == IF OfBackend(shown, b) # {} THEN "details" ELSE "create"
           next == [mgr EXCEPT !.backend = b, !.selected = None, !.view = view]
       IN /\ mgr' = Settle(next, shown)
          /\ IF b # mgr.backend \/ view # mgr.view THEN Remount ELSE Kept
    /\ UNCHANGED <<wiz, indexCalls, stored, listVars, gone>>

ShowDetails(i) ==
    /\ mgr.open /\ mgr.target = None /\ ~loading /\ i \in OfBackend(shown, mgr.backend)
    /\ mgr' = [mgr EXCEPT !.selected = i.name, !.view = "details"]
    /\ IF mgr.view = "create" THEN Remount ELSE Kept
    /\ UNCHANGED <<wiz, indexCalls, stored, listVars, gone>>

ShowCreate ==
    /\ mgr.open /\ mgr.target = None
    /\ mgr' = [mgr EXCEPT !.selected = None, !.view = "create"]
    /\ Kept
    /\ UNCHANGED <<wiz, indexCalls, stored, listVars, gone>>

\* Delete of the index in the details panel, behind a confirmation.
AskDelete ==
    /\ mgr.open /\ mgr.view = "details" /\ mgr.target = None
    /\ \E i \in OfBackend(shown, mgr.backend) :
          i.name = mgr.selected /\ mgr' = [mgr EXCEPT !.target = i.name]
    /\ UNCHANGED <<wiz, formVars, indexCalls, stored, listVars, gone>>

CancelDelete ==
    /\ mgr.target # None /\ ~mgr.deleting
    /\ mgr' = [mgr EXCEPT !.target = None]
    /\ UNCHANGED <<wiz, formVars, indexCalls, stored, listVars, gone>>

HandleDelete ==
    /\ mgr.target # None /\ ~mgr.deleting
    /\ mgr' = [mgr EXCEPT !.deleting = TRUE]
    /\ indexCalls' = indexCalls \cup {[op |-> "delete", name |-> mgr.target, backend |-> mgr.backend,
                                       sparse |-> FALSE]}
    /\ UNCHANGED <<wiz, formVars, stored, listVars, gone>>

\* load: a newer read makes every older one answer to nobody.
Load(s) ==
    /\ loadId < MaxLoads
    /\ loadId' = loadId + 1 /\ loads' = loads \cup {[id |-> loadId + 1, data |-> s]}
    /\ loading' = TRUE /\ listFailed' = FALSE /\ UNCHANGED shown

Refresh ==
    /\ mgr.open /\ ~loading /\ Load(stored)
    /\ UNCHANGED <<wizVars, formVars, indexCalls, stored, gone>>

\* Mutant: an older read may answer last.
LoadAnswersAnyOrder(r, ok) ==
    /\ r \in loads /\ loads' = loads \ {r}
    /\ shown' = IF ok THEN r.data ELSE shown
    /\ loading' = (loads' # {}) /\ listFailed' = ~ok
    /\ mgr' = Settle(mgr, shown')
    /\ UNCHANGED <<loadId, wiz, formVars, indexCalls, stored, gone>>

LoadAnswers(r, ok) ==
    /\ r \in loads /\ loads' = loads \ {r}
    /\ IF r.id = loadId
       THEN /\ shown' = IF ok THEN r.data ELSE shown
            /\ loading' = FALSE /\ listFailed' = ~ok
            /\ mgr' = Settle(mgr, shown')
       ELSE UNCHANGED <<shown, loading, listFailed, mgr>>
    /\ UNCHANGED <<loadId, wiz, formVars, indexCalls, stored, gone>>

-------------------------------------------------------------------------------
FormOpen == mgr.open /\ mgr.view = "create" /\ mgr.target = None

\* The dimension is only asked for a dense index, by hand or from a model.
DimensionField == FormOpen /\ ~form.sparse

\* handleVectorTypeChange: sparse clears the dimension and the model choice.
VectorTypeChange ==
    /\ FormOpen /\ mgr.backend \in Lexical /\ generation < MaxPicks
    /\ IF form.sparse
       THEN /\ form' = [form EXCEPT !.sparse = FALSE, !.dim = IF @ = 0 THEN Default ELSE @]
            /\ UNCHANGED generation
       ELSE /\ form' = [form EXCEPT !.sparse = TRUE, !.dim = 0, !.useModel = FALSE, !.model = None]
            /\ generation' = generation + 1
    /\ UNCHANGED <<lookups, wizVars, indexCalls, stored, listVars, gone>>

CatalogDim(m) == IF m \in Listed \ gone THEN TrueDim[m] ELSE 0

DimensionModeChange(useModel) ==
    /\ DimensionField /\ generation < MaxPicks
    /\ IF useModel
       THEN /\ form' = [form EXCEPT !.useModel = TRUE, !.dim = CatalogDim(form.model)]
            /\ UNCHANGED generation
       ELSE /\ form' = [form EXCEPT !.useModel = FALSE, !.dim = IF @ = 0 THEN Default ELSE @]
            /\ generation' = generation + 1
    /\ UNCHANGED <<lookups, wizVars, indexCalls, stored, listVars, gone>>

\* handleSelectEmbeddingModel: a dimension the catalog lacks is looked up.
FormSelectModel(m) ==
    /\ DimensionField /\ form.useModel /\ m \notin gone /\ generation < MaxPicks
    /\ form' = [form EXCEPT !.model = m, !.dim = CatalogDim(m)]
    /\ generation' = generation + 1
    /\ lookups' = IF m \in Listed THEN lookups
                  ELSE lookups \cup {[generation |-> generation + 1, model |-> m]}
    /\ UNCHANGED <<wizVars, indexCalls, stored, listVars, gone>>

\* A lookup answers, in any order; only the latest selection's counts.
LookupAnswers(l, found) ==
    /\ l \in lookups /\ lookups' = lookups \ {l}
    /\ form' = IF l.generation = generation /\ found THEN [form EXCEPT !.dim = TrueDim[l.model]] ELSE form
    /\ UNCHANGED <<generation, wizVars, indexCalls, stored, listVars, gone>>

SetDimension(d) ==
    /\ DimensionField /\ ~form.useModel
    /\ form' = [form EXCEPT !.dim = d]
    /\ UNCHANGED <<generation, lookups, wizVars, indexCalls, stored, listVars, gone>>

CreateDisabled ==
    \/ ~form.sparse /\ form.dim \notin 1 .. MaxDimension
    \/ form.useModel /\ (form.model = None \/ Missing(form.model))

CreateIndex(n) ==
    /\ FormOpen /\ ~form.creating /\ ~CreateDisabled /\ n \in NamesOf[mgr.backend]
    /\ form' = [form EXCEPT !.creating = TRUE]
    /\ indexCalls' = indexCalls \cup {[op |-> "create", name |-> n, backend |-> mgr.backend,
                                       sparse |-> form.sparse]}
    /\ UNCHANGED <<generation, lookups, wizVars, stored, listVars, gone>>

\* The call reaches the backend; success reads the list again. The answer finds
\* the manager and the form as they are by then.
IndexCallAnswers(c, ok) ==
    /\ c \in indexCalls /\ indexCalls' = indexCalls \ {c}
    /\ form' = IF c.op = "create" THEN [form EXCEPT !.creating = FALSE] ELSE form
    /\ LET taken == \E i \in stored : i.name = c.name /\ i.backend = c.backend
           done == IF c.op = "delete" THEN [mgr EXCEPT !.deleting = FALSE, !.target = IF ok THEN None ELSE @,
                                                       !.selected = IF ok THEN None ELSE @] ELSE mgr
       IN IF ok
          THEN /\ taken = (c.op = "delete")
               /\ stored' = IF c.op = "delete"
                            THEN {i \in stored : ~(i.name = c.name /\ i.backend = c.backend)}
                            ELSE stored \cup {[name |-> c.name, backend |-> c.backend, sparse |-> c.sparse]}
               /\ Load(stored') /\ mgr' = Settle(done, shown)
          ELSE UNCHANGED <<stored, listVars>> /\ mgr' = done
    /\ UNCHANGED <<generation, lookups, wiz, gone>>

\* The shared catalog drops a model (a connection was removed).
CatalogDrops(m) ==
    /\ m \notin gone /\ gone' = gone \cup {m}
    /\ UNCHANGED <<wizVars, formVars, indexCalls, stored, listVars>>

Next ==
    \/ OpenCreatePipeline \/ CloseWizard \/ \E s \in 0 .. 3 : StepChange(s)
    \/ WizardNext \/ TypeName \/ CreatePipeline \/ \E ok \in BOOLEAN : CreateAnswers(ok)
    \/ \E b \in Backends : SelectBackend(b) \/ SelectTab(b)
    \/ \E i \in shown : SelectIndex(i) \/ ShowDetails(i)
    \/ \E m \in Models : SelectEmbeddingModel(m) \/ FormSelectModel(m) \/ CatalogDrops(m)
    \/ \E f \in BOOLEAN : OpenIndexManager(f) \/ DimensionModeChange(f)
    \/ CloseIndexManager \/ ShowCreate \/ AskDelete \/ CancelDelete \/ HandleDelete \/ Refresh
    \/ VectorTypeChange \/ \E d \in {0, MaxDimension + 1} : SetDimension(d)
    \/ \E r \in loads, ok \in BOOLEAN : LoadAnswers(r, ok)
    \/ \E l \in lookups, ok \in BOOLEAN : LookupAnswers(l, ok)
    \/ \E n \in UNION {NamesOf[b] : b \in Backends} : CreateIndex(n)
    \/ \E c \in indexCalls, ok \in BOOLEAN : IndexCallAnswers(c, ok)

Spec == Init /\ [][Next]_vars

-------------------------------------------------------------------------------
TypeOK ==
    /\ wiz.step \in 0 .. 3 /\ wiz.backend \in Backends /\ mgr.backend \in Backends
    /\ wiz.model \in Models \cup {None} /\ form.model \in Models \cup {None}
    /\ mgr.view \in {"details", "create"}

\* A dimension taken from a model is that model's, whichever order the lookups
\* answer in and however the user went back and forth between the two modes.
DimensionIsModels == form.useModel /\ form.dim # 0 => form.model # None /\ form.dim = TrueDim[form.model]

\* When no read and no index call is under way and the last read succeeded, the
\* list on screen is what the backends hold: a slow earlier read never undoes a
\* creation or a deletion.
SettledListIsStored == ~loading /\ ~listFailed /\ indexCalls = {} => shown = stored

\* The index the wizard would name is one of the store it would name.
IndexOfBackend == wiz.index # None => wiz.index \in NamesOf[wiz.backend]

\* The wizard and the manager are never stacked, and a manager that has to
\* return to the wizard is open.
OneDialog == ~(wiz.open /\ mgr.open) /\ (mgr.back => mgr.open)

\* app/pipelines/defaults.py, to compare with.
BackendEdges(kind, bm25) ==
    LET main == IF kind = "ingestion"
                THEN <<"ingest-input", "parse-document", "chunk-document", "embed-chunks", "index-chunks", "ingest-output">>
                ELSE <<"query-input", "embed-query", "vector-retriever", "retrieval-output">>
        ports == IF kind = "ingestion"
                 THEN <<"source", "document", "chunks", "embedded", "indexed">>
                 ELSE <<"request", "query_embedding", "results">>
        chain == {<<main[n], main[n + 1], ports[n]>> : n \in DOMAIN ports}
    IN IF ~bm25 THEN chain
       ELSE IF kind = "ingestion"
       THEN chain \cup {<<"chunk-document", "index-bm25", "chunks">>, <<"index-bm25", "ingest-output", "indexed">>}
       ELSE (chain \ {<<"vector-retriever", "retrieval-output", "results">>})
            \cup {<<"query-input", "bm25-retriever", "request">>, <<"vector-retriever", "fuse-results", "results">>,
                  <<"bm25-retriever", "fuse-results", "results">>, <<"fuse-results", "limit-results", "results">>,
                  <<"limit-results", "retrieval-output", "results">>}

\* The wizard's graph is the backend's default of the same kind, and a search
\* pipeline of the same choices reads every index an ingestion pipeline writes.
ScaffoldMirrorsBackend ==
    /\ Definition.edges = BackendEdges(Kind, wiz.backend \in Lexical)
    /\ LET stores(k) == {<<s[2], s[3]>> : s \in BuildDefaultDefinition(k, wiz.backend, wiz.index, wiz.model).stores}
       IN stores("ingestion") = stores("retrieval")
===============================================================================
