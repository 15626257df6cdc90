----------------------------- MODULE SetupWizard -----------------------------
(***************************************************************************)
(* The first-run wizard (SetupWizard, useSetupWizard): providers, model,   *)
(* index, launch.  Its index step is a chain of requests (resolve the      *)
(* model's dimension, create the index, look at the one already there),    *)
(* its launch step one request that installs everything.  Back and the     *)
(* form stay usable while either is out.                                   *)
(***************************************************************************)
EXTENDS Naturals

CONSTANTS
    None,
    Models, Names, Backends,   \* models offered, index names, vector stores
    Dim,                       \* model -> the dimension of its vectors
    Reported,                  \* models whose dimension the catalog reports
    Configured,                \* backends with what they need to be used
    Cap,                       \* backend -> largest dimension it can index
    Found,                     \* dimensions an index found on the server may have;
                               \* None: a lexical index, which has no dimension
    Overlap,                   \* whether the user acts while a request is out
    MaxCollections             \* bound: collections installed

VARIABLES
    setupStep,      \* the step on screen
    choices,        \* model, its dimension if known, backend and index name
    offered,        \* models in the catalog the model step shows
    covered,        \* whether the connections cover every kind needed
    ensuring,       \* the index chain under way, or None
    booting,        \* the choices of the bootstrap out, or None
    leaving,        \* the launch succeeded and the page is being left
    completed,      \* a bootstrap that answered with warnings is remembered
    setupKnown,     \* what the gate knows of the set-up: complete or not
    page,           \* "setup", "dashboard" or "collection"
    indexes,        \* backend, name -> dimension, 0 if there is no such index
    installed,      \* collections the server has installed
    lost            \* bootstraps whose answer was lost

vars == <<setupStep, choices, offered, covered, ensuring, booting, leaving, completed,
          setupKnown, page, indexes, installed, lost>>
server == <<indexes, installed, lost>>
wizardOnly == <<offered, covered, completed, setupKnown, page, leaving>>

SETUP_STEPS == <<"welcome", "providers", "model", "index", "launch">>
At(s) == CHOOSE i \in 1..5 : SETUP_STEPS[i] = s
Forward(s) == IF s = "launch" THEN s ELSE SETUP_STEPS[At(s) + 1]
Backward(s) == IF s = "welcome" THEN s ELSE SETUP_STEPS[At(s) - 1]

initialSetupWizardState ==
    [model |-> None, dim |-> None, backend |-> "pgvector", index |-> "ragworks"]

Init ==
    /\ setupStep = "welcome" /\ choices = initialSetupWizardState
    /\ offered = Models /\ covered \in BOOLEAN /\ ensuring = None /\ booting = None
    /\ leaving = FALSE /\ completed = FALSE /\ setupKnown \in BOOLEAN /\ page = "setup"
    /\ indexes \in [Backends \X Names -> {0} \cup Found] /\ installed = 0 /\ lost = 0

busy == ensuring # None \/ booting # None \/ leaving
Usable == page = "setup" /\ (Overlap \/ ~busy)

--------------------------------------------------------------------------------
(***************************************************************************)
(* Going forward and back.                                                 *)
(***************************************************************************)
Missing == choices.model # None /\ choices.model \notin offered

Goes(s) == setupStep' = s /\ UNCHANGED <<choices, ensuring, booting, wizardOnly, server>>

StepWelcome == Usable /\ setupStep = "welcome" /\ ~setupKnown /\ Goes("providers")
StepProviders == Usable /\ setupStep = "providers" /\ covered /\ Goes("model")

StepModel == Usable /\ setupStep = "model" /\ choices.model # None /\ ~Missing /\ Goes("index")
StepBack == Usable /\ setupStep # "welcome" /\ Goes(Backward(setupStep))

\* The gate knows the set-up is complete: the welcome step goes home, any
\* later one stays where it is.
GoHome ==
    /\ page = "setup" /\ setupKnown /\ setupStep = "welcome" /\ page' = "dashboard"
    /\ UNCHANGED <<setupStep, choices, offered, covered, ensuring, booting, leaving, completed,
                   setupKnown, server>>

handleConnectionsChanged ==
    /\ Usable /\ setupStep = "providers" /\ covered' = ~covered
    /\ UNCHANGED <<setupStep, choices, offered, ensuring, booting, leaving, completed,
                   setupKnown, page, server>>

\* The model step has the catalog read again.
refreshModels ==
    /\ page = "setup" /\ setupStep = "model" /\ \E o \in SUBSET Models : offered' = o
    /\ UNCHANGED <<setupStep, choices, covered, ensuring, booting, leaving, completed,
                   setupKnown, page, server>>

setChoices(c) == choices' = c /\ UNCHANGED <<setupStep, ensuring, booting, wizardOnly, server>>

\* Mutant: the new model is given the dimension looked up for the last one.
SelectKeepsDimension(m) ==
    /\ Usable /\ setupStep = "model" /\ m \in offered
    /\ setChoices([choices EXCEPT !.model = m])

selectModel(m) ==
    /\ Usable /\ setupStep = "model" /\ m \in offered
    /\ setChoices([choices EXCEPT !.model = m, !.dim = IF m \in Reported THEN Dim[m] ELSE None])

selectBackend(b) ==
    /\ Usable /\ setupStep = "index" /\ choices.backend # b
    /\ setChoices([choices EXCEPT !.backend = b])

nameIndex(n) ==
    /\ Usable /\ setupStep = "index" /\ choices.index # n
    /\ setChoices([choices EXCEPT !.index = n])

--------------------------------------------------------------------------------
(***************************************************************************)
(* The index step.  The chain works on the choices of the click; its last  *)
(* step moves the wizard on from wherever it stands by then.               *)
(***************************************************************************)
overCap == choices.dim # None /\ choices.dim > Cap[choices.backend]

StepIndex ==
    /\ page = "setup" /\ setupStep = "index" /\ ~busy
    /\ choices.index # "" /\ ~overCap /\ choices.backend \in Configured

ensureIndex ==
    /\ StepIndex
    /\ ensuring' = [choices |-> choices,
                    phase |-> IF choices.dim = None THEN "dimension" ELSE "create"]
    /\ UNCHANGED <<setupStep, choices, booting, wizardOnly, server>>

Slot == <<ensuring.choices.backend, ensuring.choices.index>>

\* The dimension that is found goes into the form too.
fetchEmbeddingDimension ==
    /\ ensuring # None /\ ensuring.phase = "dimension"
    /\ \/ LET dim == Dim[ensuring.choices.model]
          IN /\ ensuring' = [ensuring EXCEPT !.phase = "create", !.choices.dim = dim]
             /\ choices' = [choices EXCEPT !.dim = dim]
       \/ ensuring' = None /\ UNCHANGED choices
    /\ UNCHANGED <<setupStep, booting, wizardOnly, server>>

\* The server refuses a name in use and a dimension above the backend's.
Accepts == indexes[Slot] = 0 /\ ensuring.choices.dim <= Cap[ensuring.choices.backend]

\* A creation that failed, or whose answer was lost, is followed by a look at
\* the index of that name.
createIndex ==
    /\ ensuring # None /\ ensuring.phase = "create"
    /\ \/ /\ Accepts /\ indexes' = [indexes EXCEPT ![Slot] = ensuring.choices.dim]
          /\ \/ ensuring' = None /\ setupStep' = Forward(setupStep)
             \/ ensuring' = [ensuring EXCEPT !.phase = "describe"] /\ UNCHANGED setupStep
       \/ ensuring' = [ensuring EXCEPT !.phase = "describe"] /\ UNCHANGED <<indexes, setupStep>>
    /\ UNCHANGED <<choices, booting, installed, lost, wizardOnly>>

Adopts == indexes[Slot] \in {None, ensuring.choices.dim}

describeIndex ==
    /\ ensuring # None /\ ensuring.phase = "describe" /\ ensuring' = None
    /\ \/ indexes[Slot] # 0 /\ Adopts /\ setupStep' = Forward(setupStep)
       \/ UNCHANGED setupStep
    /\ UNCHANGED <<choices, booting, wizardOnly, server>>

--------------------------------------------------------------------------------
(***************************************************************************)
(* The launch.  An answer with warnings keeps the user here; finishing     *)
(* again then only leaves.                                                 *)
(***************************************************************************)
Keeps == UNCHANGED <<setupStep, choices, offered, covered, ensuring, indexes>>

StepLaunch == page = "setup" /\ setupStep = "launch" /\ ~busy

finish ==
    /\ StepLaunch
    /\ IF completed THEN page' = "collection" /\ UNCHANGED booting
       ELSE installed < MaxCollections /\ booting' = choices /\ UNCHANGED page
    /\ Keeps /\ UNCHANGED <<leaving, completed, setupKnown, installed, lost>>

\* The server looks at the index once more before it installs.
validate_index(c) == indexes[<<c.backend, c.index>>] \in {None, c.dim}

BootstrapFails ==
    /\ booting # None /\ booting' = None
    /\ \/ UNCHANGED <<installed, lost>>
       \/ validate_index(booting) /\ installed' = installed + 1 /\ lost' = lost + 1
    /\ Keeps /\ UNCHANGED <<leaving, completed, setupKnown, page>>

bootstrapSetup ==
    /\ booting # None /\ booting' = None /\ validate_index(booting)
    /\ installed' = installed + 1 /\ setupKnown' = TRUE
    /\ \/ completed' = TRUE /\ UNCHANGED leaving
       \/ leaving' = TRUE /\ UNCHANGED completed
    /\ Keeps /\ UNCHANGED <<page, lost>>

Left ==
    /\ leaving /\ leaving' = FALSE /\ page' = "collection"
    /\ Keeps /\ UNCHANGED <<booting, completed, setupKnown, installed, lost>>

--------------------------------------------------------------------------------
Next ==
    \/ StepWelcome \/ StepProviders \/ StepModel \/ StepBack \/ GoHome
    \/ handleConnectionsChanged \/ refreshModels
    \/ \E m \in Models : selectModel(m)
    \/ \E b \in Backends : selectBackend(b)
    \/ \E n \in Names \cup {""} : nameIndex(n)
    \/ ensureIndex \/ fetchEmbeddingDimension \/ createIndex \/ describeIndex
    \/ finish \/ BootstrapFails \/ bootstrapSetup \/ Left

Spec == Init /\ [][Next]_vars

--------------------------------------------------------------------------------
(***************************************************************************)
(* Properties.                                                             *)
(***************************************************************************)
\* Types, and: one request chain at a time, and no model beyond its step.
TypeOK ==
    /\ setupStep \in {SETUP_STEPS[i] : i \in 1..5} /\ offered \subseteq Models
    /\ choices.model \in Models \cup {None} /\ choices.index \in Names \cup {""}
    /\ (ensuring = None \/ booting = None)
    /\ (ensuring # None => ensuring.phase \in {"dimension", "create", "describe"})
    /\ (At(setupStep) > 3 => choices.model # None)
    /\ (page = "collection" => setupKnown /\ setupStep # "index")
    /\ installed \in 0..MaxCollections /\ lost \in 0..installed

\* The dimension beside the chosen model is that model's: looked up for it,
\* or unknown; never one of a model picked before (setChoices in ensureIndex).
DimensionFitsModel == choices.dim # None => choices.model # None /\ choices.dim = Dim[choices.model]

\* Whoever reaches the launch step has an index of the chosen name on the
\* chosen backend that takes the vectors of the chosen model, whether it was
\* created, created by a request whose answer was lost, or found there; a
\* lexical index, whose dimension is unknown, is let through.
LaunchIsServed ==
    setupStep = "launch" =>
        indexes[<<choices.backend, choices.index>>] \in {Dim[choices.model], None}

\* The comment in ensureIndex: "Adopt an existing index only when its
\* dimension matches the model."
AdoptedMatches ==
    setupStep = "launch" => indexes[<<choices.backend, choices.index>>] = Dim[choices.model]

\* Finishing again after warnings, going back and forth between the steps and
\* retrying a refused bootstrap install one collection in all; only a lost
\* answer makes a second one (completedCollectionId in finish).
InstalledOnce == installed <= 1 + lost

\* Why they hold: while a chain, a bootstrap or the leaving is under way, the
\* form stays as it was at the click, on the step that started it; the chain
\* has looked the dimension up before it creates; and no second bootstrap is
\* sent once one was answered.
Choices == [model : Models \cup {None}, dim : {Dim[m] : m \in Models} \cup {None},
            backend : Backends, index : Names \cup {""}]

SetupInv ==
    /\ TypeOK /\ DimensionFitsModel /\ LaunchIsServed /\ InstalledOnce
    /\ choices \in Choices /\ DOMAIN indexes = Backends \X Names
    /\ leaving \in BOOLEAN /\ completed \in BOOLEAN /\ setupKnown \in BOOLEAN
    /\ busy => page = "setup"
    /\ leaving => ensuring = None /\ booting = None /\ setupStep = "launch" /\ setupKnown
    /\ ensuring # None =>
          /\ setupStep = "index" /\ choices.index # ""
          /\ ensuring \in [choices : {choices}, phase : {"dimension", "create", "describe"}]
          /\ ensuring.phase # "dimension" => choices.dim = Dim[choices.model]
    /\ booting # None =>
          /\ setupStep = "launch" /\ booting = choices
          /\ ~completed /\ installed < MaxCollections
    /\ setupStep = "launch" => choices.index # ""
    /\ completed => setupKnown
    /\ ~completed /\ ~leaving /\ page # "collection" => installed = lost
===============================================================================
