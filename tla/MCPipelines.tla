------------------------------ MODULE MCPipelines ------------------------------
(***************************************************************************)
(* The pipeline editor for TLC: its saves, its canvas, its wizard, its     *)
(* variables and expressions, one at a time.                               *)
(***************************************************************************)
EXTENDS Integers, Sequences

CONSTANTS None

VARIABLES
    page,      \* what the behaviour is about: the part of the editor that moves
    builderRows, current, list, selected, canvas, modal, stash, writes, layoutTimer,
    pendingLayout, load, builderEdits, drags,
    wiz, mgr, form, generation, lookups, indexCalls, stored, shown, loads, loadId,
    loading, listFailed, gone,
    nodes, edges, connecting, drag, ghost, preview, draft, graphEdits, provider,
    saveOpen,
    source, typed,
    variablesRows, accepted, field, menu, changes

\* Variables of three types, and the beginnings an expression is typed from.
Declared == [n |-> "integer", x |-> "number", m |-> "model"]
Beginnings == {<<>>, <<"min", "(">>, <<"round", "(">>, <<"clamp", "(", "n", ",">>, <<"n", "*">>,
               <<"half", "/">>}
Bound == [n |-> [type |-> "number", p |-> -1, q |-> 1], x |-> [type |-> "number", p |-> -3, q |-> 2],
          m |-> [type |-> "model", connection_id |-> <<"c">>, model_name |-> <<"e">>]]

Builder == INSTANCE PipelineBuilder WITH
    Pipelines <- {"p", "q"}, InUse <- {"q"}, Overlap <- FALSE, MaxEdits <- 2,
    MaxDrags <- 2, MaxRows <- 3, rows <- builderRows, edits <- builderEdits
Wizard == INSTANCE PipelineWizard WITH
    Kind <- "retrieval", Backends <- {"pg", "pc"}, DefaultBackend <- "pg",
    Usable <- {"pg", "pc"}, Lexical <- {"pc"}, NamesOf <- [pg |-> {"a"}, pc |-> {"b"}],
    Models <- {"m1", "m2"}, TrueDim <- [m1 |-> 1, m2 |-> 2], Listed <- {"m1"},
    MaxDimension <- 2000, MaxLoads <- 2, MaxPicks <- 3
Graph == INSTANCE PipelineGraph WITH
    Backends <- {"pgvector", "pinecone"}, DefaultBackend <- "pgvector",
    Indexes <- {[backend |-> "pgvector", name |-> "docs", dim |-> 2], [backend |-> "pinecone", name |-> "docs", dim |-> 3]},
    Models <- {"small", "large"}, Resizable <- {"large"},
    ModelVariables <- {"embedding_model"}, MaxNodes <- 4, MaxEdits <- 3,
    edits <- graphEdits
Expression == INSTANCE Expressions WITH
    Tokens <- {"two", "x", "m", "-", "//", "(", ")", ",", ".", "model_name"},
    Stored <- Beginnings, MaxTokens <- 4, Types <- Declared, Values <- Bound
Variables == INSTANCE PipelineVariables WITH
    Names <- {"a", "b", "c"}, MaxVariables <- 3, MaxChanges <- 6, rows <- variablesRows

ASSUME Builder!PipelinesAssumption

builderVars == <<builderRows, current, list, selected, canvas, modal, stash, writes,
    layoutTimer, pendingLayout, load, builderEdits, drags>>
wizardVars == <<wiz, mgr, form, generation, lookups, indexCalls, stored, shown, loads,
    loadId, loading, listFailed, gone>>
graphVars == <<nodes, edges, connecting, drag, ghost, preview, draft, graphEdits,
    provider, saveOpen>>
expressionVars == <<source, typed>>
variablesVars == <<variablesRows, accepted, field, menu, changes>>

vars == <<page, builderVars, wizardVars, graphVars, expressionVars, variablesVars>>

Pages == {"builder", "wizard", "graph", "expressions", "variables"}

\* What moves starts as it does alone.
Init ==
    /\ page \in Pages
    /\ IF page = "builder" THEN Builder!Init
       ELSE /\ builderRows = None /\ current = None /\ list = None /\ selected = None
            /\ canvas = None /\ modal = None /\ stash = None /\ writes = None
            /\ layoutTimer = None /\ pendingLayout = None /\ load = None
            /\ builderEdits = None /\ drags = None
    /\ IF page = "wizard" THEN Wizard!Init
       ELSE /\ wiz = None /\ mgr = None /\ form = None /\ generation = None
            /\ lookups = None /\ indexCalls = None /\ stored = None /\ shown = None
            /\ loads = None /\ loadId = None /\ loading = None /\ listFailed = None
            /\ gone = None
    /\ IF page = "graph" THEN Graph!Init
       ELSE /\ nodes = None /\ edges = None /\ connecting = None /\ drag = None
            /\ ghost = None /\ preview = None /\ draft = None /\ graphEdits = None
            /\ provider = None /\ saveOpen = None
    /\ IF page = "expressions" THEN Expression!Init
       ELSE /\ source = None /\ typed = None
    /\ IF page = "variables" THEN Variables!Init
       ELSE /\ variablesRows = None /\ accepted = None /\ field = None /\ menu = None
            /\ changes = None

Next ==
    \/ page = "builder" /\ Builder!Next
         /\ UNCHANGED <<page, wizardVars, graphVars, expressionVars, variablesVars>>
    \/ page = "wizard" /\ Wizard!Next
         /\ UNCHANGED <<page, builderVars, graphVars, expressionVars, variablesVars>>
    \/ page = "graph" /\ Graph!Next
         /\ UNCHANGED <<page, builderVars, wizardVars, expressionVars, variablesVars>>
    \/ page = "expressions" /\ Expression!Next
         /\ UNCHANGED <<page, builderVars, wizardVars, graphVars, variablesVars>>
    \/ page = "variables" /\ Variables!Next
         /\ UNCHANGED <<page, builderVars, wizardVars, graphVars, expressionVars>>

Spec == Init /\ [][Next]_vars

--------------------------------------------------------------------------------
\* Background work is invisible: a catalog reload or a silent layout save
\* changes neither the canvas nor the open dialog (use-pipelines.ts, lines
\* 90-94), a layout is never a revision, and a reranker joins the canvas only
\* while a reranking provider is connected.
EditsAreTheUsers ==
    [][/\ page = "builder" =>
             /\ Builder!BackgroundInvisibleStep
             /\ Builder!LayoutIsNotARevisionStep
       /\ page = "graph" => Graph!RerankerGatedStep]_vars

\* Every stored revision holds the nodes of its own pipeline; edges join ports
\* of one type, configurations stay coherent under every order of edits and
\* deletions, and a dialog never hides a save it would allow.
CanvasHolds ==
    /\ page = "builder" => Builder!TypeOK /\ Builder!OwnNodes
    /\ page = "graph" =>
          /\ Graph!TypeOK
          /\ Graph!EdgesTyped
          /\ Graph!ConfigCoherent
          /\ Graph!AcceptedIsHighlighted
          /\ Graph!SaveableBehindDialog

\* The dimension is the model's, a settled list of indexes is the stored one,
\* the chosen index is of the chosen backend, one dialog is open, and the
\* scaffold is the one the backend would make.
WizardHolds ==
    page = "wizard" =>
        /\ Wizard!TypeOK
        /\ Wizard!DimensionIsModels
        /\ Wizard!SettledListIsStored
        /\ Wizard!IndexOfBackend
        /\ Wizard!OneDialog
        /\ Wizard!ScaffoldMirrorsBackend

\* Identity reads static values only, problems are told exactly, suggestions are
\* accepted and a removal announces what it breaks.
VariablesHold ==
    page = "variables" =>
        /\ Variables!TypeOK
        /\ Variables!IdentityIsStatic
        /\ Variables!ProblemsAreExact
        /\ Variables!SuggestionsAreAccepted
        /\ Variables!RemovalIsAnnounced

\* The parser accepts the grammar and nothing else, evaluation never meets a
\* type the checker refused, and an expression reads just the variables it
\* names.
ExpressionsHold ==
    page = "expressions" =>
        /\ Expression!TypeOK
        /\ Expression!ParsesTheGrammar
        /\ Expression!TypeSound
        /\ Expression!ReadsItsReferences
================================================================================
