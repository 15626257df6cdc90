--------------------------- MODULE CollectionsPage ---------------------------
(***************************************************************************)
(* The list of collections and the wizard that creates one                 *)
(* (CollectionsPage, CreateCollectionWizard, PipelineOverridesEditor).     *)
(* Three loads, a creation and a deletion may be out at once; the wizard   *)
(* stays mounted while it is closed, and its answers arrive whether it is  *)
(* open or not.                                                            *)
(***************************************************************************)
EXTENDS Naturals, FiniteSets

CONSTANTS
    None,
    Ingestion, Retrieval,   \* the pipelines of each kind
    Default,                \* kind -> its default pipeline
    Fields,                 \* the settings of the one node a pipeline has
    Overlap,                \* whether the list may be loading while something is written
    Edited,                 \* bound: kinds whose overrides are edited
    MaxBorn                 \* bound: collections ever created

VARIABLES
    stored,      \* collections the server has, numbered as they are created
    born,        \* the last number given
    listed, counted,   \* those in the list, and those with stats
    loads,       \* of "collections" and "pipelines": "out", "landed" or "failed"
    fetched,     \* what the collections load has read, or None
    wizard,      \* the wizard's state
    creating,    \* the payload of the creation out, or None
    target,      \* the collection asked about, or None
    deleting     \* the collection whose deletion is out, or None

vars == <<stored, born, listed, counted, loads, fetched, wizard, creating, target, deleting>>

steps == {"basics", "pipelines", "defaults", "review"}
Order == [basics |-> 0, pipelines |-> 1, defaults |-> 2, review |-> 3]
Kinds == {"ingestion", "retrieval"}
Pipelines == [ingestion |-> Ingestion, retrieval |-> Retrieval]

\* A field of an override: as seeded, as edited, cleared by hand, or never there.
NoOverrides == [f \in {} |-> "seeded"]
Whole == [f \in Fields |-> "seeded"]

Blank == [open |-> FALSE, step |-> "basics", name |-> "",
          form |-> [k \in Kinds |-> None],
          showAdvanced |-> FALSE,
          overrides |-> [k \in Kinds |-> NoOverrides]]

Init ==
    /\ stored = {1} /\ born = 1 /\ listed = {} /\ counted = {}
    /\ loads = [collections |-> "out", pipelines |-> "out"] /\ fetched = None
    /\ wizard = Blank /\ creating = None /\ target = None /\ deleting = None

Writing == creating # None \/ deleting # None
Loading == loads.collections = "out"
Known == loads.pipelines = "landed"
defaultOf(known) == [k \in Kinds |-> IF known THEN Default[k] ELSE None]

--------------------------------------------------------------------------------
(***************************************************************************)
(* What rendering the wizard does by itself: a selection still empty takes *)
(* the default, and with the advanced settings shown on the defaults,      *)
(* overrides still empty are seeded from the whole of each pipeline.       *)
(***************************************************************************)

backfilled(w, defaults) ==
    [w EXCEPT !.form = [k \in Kinds |-> IF @[k] = None THEN defaults[k] ELSE @[k]]]

usesDefaultPipelines(w) == \A k \in Kinds : w.form[k] = Default[k]

seeded(w) ==
    IF ~(w.showAdvanced /\ usesDefaultPipelines(w)) THEN w
    ELSE [w EXCEPT !.overrides =
            [k \in Kinds |-> IF DOMAIN @[k] = {} THEN Whole ELSE @[k]]]

\* Mutant: overrides are seeded by the click that shows them only.
SeedOnExpand(w) ==
    IF w.open /\ w.showAdvanced # wizard.showAdvanced THEN seeded(w) ELSE w

Rendered(w) == IF w.open THEN seeded(w) ELSE w

--------------------------------------------------------------------------------
(***************************************************************************)
(* The two loads.                                                          *)
(***************************************************************************)
ReadCollections ==
    /\ Loading /\ fetched = None /\ fetched' = stored
    /\ UNCHANGED <<stored, born, listed, counted, loads, wizard, creating, target, deleting>>

loadCollections ==
    /\ Loading
    /\ \/ /\ fetched # None /\ listed' = fetched /\ counted' = fetched
          /\ loads' = [loads EXCEPT !.collections = "landed"]
       \/ /\ loads' = [loads EXCEPT !.collections = "failed"] /\ UNCHANGED <<listed, counted>>
    /\ fetched' = None
    /\ UNCHANGED <<stored, born, wizard, creating, target, deleting>>

loadPipelines ==
    /\ loads.pipelines = "out"
    /\ \/ /\ loads' = [loads EXCEPT !.pipelines = "landed"]
          /\ wizard' = IF wizard.open THEN Rendered(backfilled(wizard, defaultOf(TRUE))) ELSE wizard
       \/ loads' = [loads EXCEPT !.pipelines = "failed"] /\ UNCHANGED wizard
    /\ UNCHANGED <<stored, born, listed, counted, fetched, creating, target, deleting>>

\* A refreshed session has the list loaded again; a load still out is dropped.
NewToken ==
    /\ ~Loading /\ (Overlap \/ ~Writing)
    /\ loads' = [loads EXCEPT !.collections = "out"] /\ fetched' = None
    /\ UNCHANGED <<stored, born, listed, counted, wizard, creating, target, deleting>>

--------------------------------------------------------------------------------
(***************************************************************************)
(* The wizard.                                                             *)
(***************************************************************************)
ChangesWizard(w) ==
    /\ wizard' = Rendered(w)
    /\ UNCHANGED <<stored, born, listed, counted, loads, fetched, creating, target, deleting>>

\* Opening starts from a blank slate, the defaults chosen if they are known.
OpenWizard ==
    /\ ~wizard.open /\ target = None
    /\ ChangesWizard([backfilled(Blank, defaultOf(Known)) EXCEPT !.open = TRUE])

onClose == wizard.open /\ ChangesWizard([wizard EXCEPT !.open = FALSE])

\* The steps at the side are never disabled; Next and Back are.
onStepChange(s) == wizard.open /\ wizard.step # s /\ ChangesWizard([wizard EXCEPT !.step = s])

canProceed ==
    CASE wizard.step = "basics"    -> wizard.name # ""
      [] wizard.step = "pipelines" -> \A k \in Kinds : wizard.form[k] # None
      [] OTHER                     -> TRUE

onNext ==
    /\ wizard.open /\ wizard.step # "review" /\ creating = None /\ canProceed
    /\ \E s \in steps : Order[s] = Order[wizard.step] + 1 /\ ChangesWizard([wizard EXCEPT !.step = s])

onBack ==
    /\ wizard.open /\ wizard.step # "basics" /\ creating = None
    /\ \E s \in steps : Order[s] + 1 = Order[wizard.step] /\ ChangesWizard([wizard EXCEPT !.step = s])

TypeName(n) ==
    /\ wizard.open /\ wizard.step = "basics" /\ wizard.name # n
    /\ ChangesWizard([wizard EXCEPT !.name = n])

Choose(k, p) ==
    /\ wizard.open /\ wizard.step = "pipelines" /\ Known /\ wizard.form[k] # p
    /\ ChangesWizard([wizard EXCEPT !.form[k] = p])

toggleAdvanced ==
    /\ wizard.open /\ wizard.step = "defaults"
    /\ ChangesWizard([wizard EXCEPT !.showAdvanced = ~@])

\* An edit is laid over what the node's override holds, which may be nothing.
handleConfigChange(k, f, how) ==
    /\ wizard.open /\ wizard.step = "defaults" /\ Known
    /\ wizard.showAdvanced /\ usesDefaultPipelines(wizard)
    /\ LET held == wizard.overrides[k]
           at(g) == IF g \in DOMAIN held THEN held[g] ELSE "absent"
           next == [g \in Fields |-> IF g = f THEN how ELSE at(g)]
       IN ChangesWizard([wizard EXCEPT !.overrides[k] = next])

--------------------------------------------------------------------------------
(***************************************************************************)
(* Creating: the wizard's answer is applied, and the wizard closed,        *)
(* whether it is still the one that asked or one opened since.             *)
(***************************************************************************)
Payload(w) ==
    [pipelines |-> w.form,
     overrides |-> IF w.showAdvanced /\ usesDefaultPipelines(w) THEN w.overrides ELSE None,
     phase |-> "sent", id |-> None]

handleCreate ==
    /\ wizard.open /\ wizard.step = "review" /\ creating = None /\ (Overlap \/ ~Loading)
    /\ creating' = Payload(wizard)
    /\ UNCHANGED <<stored, born, listed, counted, loads, fetched, wizard, target, deleting>>

\* The route stores the collection; a fault before that stores nothing.
ServerCreates ==
    /\ creating # None /\ creating.phase = "sent" /\ born < MaxBorn
    /\ born' = born + 1 /\ stored' = stored \cup {born + 1}
    /\ creating' = [creating EXCEPT !.phase = "done", !.id = born + 1]
    /\ UNCHANGED <<listed, counted, loads, fetched, wizard, target, deleting>>

handleCreated ==
    /\ creating # None /\ creating.phase = "done"
    /\ listed' = listed \cup {creating.id} /\ counted' = counted \cup {creating.id}
    /\ wizard' = [wizard EXCEPT !.open = FALSE] /\ creating' = None
    /\ UNCHANGED <<stored, born, loads, fetched, target, deleting>>

CreateFails ==
    /\ creating # None /\ creating.phase = "sent" /\ creating' = None
    /\ UNCHANGED <<stored, born, listed, counted, loads, fetched, wizard, target, deleting>>

--------------------------------------------------------------------------------
(***************************************************************************)
(* Deleting.  Escape closes the question while the deletion is out; its    *)
(* button stays disabled, and the answer closes whatever is asked by then. *)
(***************************************************************************)
onDeleteRequest(c) ==
    /\ ~Loading /\ c \in listed /\ ~wizard.open /\ target = None /\ target' = c
    /\ UNCHANGED <<stored, born, listed, counted, loads, fetched, wizard, creating, deleting>>

onCancel ==
    /\ target # None /\ target' = None
    /\ UNCHANGED <<stored, born, listed, counted, loads, fetched, wizard, creating, deleting>>

handleDelete ==
    /\ target # None /\ deleting = None /\ (Overlap \/ ~Loading)
    /\ deleting' = [of |-> target, phase |-> "sent"]
    /\ UNCHANGED <<stored, born, listed, counted, loads, fetched, wizard, creating, target>>

ServerDeletes ==
    /\ deleting # None /\ deleting.phase = "sent"
    /\ stored' = stored \ {deleting.of} /\ deleting' = [deleting EXCEPT !.phase = "done"]
    /\ UNCHANGED <<born, listed, counted, loads, fetched, wizard, creating, target>>

DeleteAnswers ==
    /\ deleting # None
    /\ IF deleting.phase = "done"
       THEN listed' = listed \ {deleting.of} /\ counted' = counted \ {deleting.of}
       ELSE UNCHANGED <<listed, counted>>
    /\ deleting' = None /\ target' = None
    /\ UNCHANGED <<stored, born, loads, fetched, wizard, creating>>

--------------------------------------------------------------------------------
Next ==
    \/ ReadCollections \/ loadCollections \/ loadPipelines \/ NewToken
    \/ OpenWizard \/ onClose \/ onNext \/ onBack \/ toggleAdvanced
    \/ \E s \in steps : onStepChange(s)
    \/ \E n \in {"", "n"} : TypeName(n)
    \/ \E k \in Kinds : \E p \in Pipelines[k] : Choose(k, p)
    \/ \E k \in Edited, f \in Fields, how \in {"edited", "cleared"} : handleConfigChange(k, f, how)
    \/ handleCreate \/ ServerCreates \/ handleCreated \/ CreateFails
    \/ \E c \in 1..MaxBorn : onDeleteRequest(c)
    \/ onCancel \/ handleDelete \/ ServerDeletes \/ DeleteAnswers

Spec == Init /\ [][Next]_vars

--------------------------------------------------------------------------------
(***************************************************************************)
(* Properties.                                                             *)
(***************************************************************************)
\* Types, and: stats go with the list, and a selection is empty only until
\* the pipelines are known.
TypeOK ==
    /\ stored \subseteq 1..born /\ born \in 1..MaxBorn /\ listed \subseteq 1..born
    /\ counted = listed /\ (fetched # None => Loading)
    /\ wizard.step \in steps /\ wizard.name \in {"", "n"}
    /\ \A k \in Kinds :
        /\ wizard.form[k] \in Pipelines[k] \cup {None}
        /\ DOMAIN wizard.overrides[k] \in {{}, Fields}
        /\ wizard.open /\ Known => wizard.form[k] # None
    /\ target \in listed \cup {None}

\* The settings a creation sends hold every field of the pipeline, those the
\* user cleared excepted: an edit made while the pipelines were loading, or
\* after going away from the defaults and back, never submits one field and
\* drops the others (the re-seed during render).
OverridesAreWhole ==
    creating # None /\ creating.overrides # None =>
        \A k \in Kinds : LET sent == creating.overrides[k]
                         IN DOMAIN sent = Fields /\ \A f \in Fields : sent[f] # "absent"

\* Overrides are sent for the default pipelines alone, so never for a
\* pipeline other than the one they were taken from.
OverridesFitPipelines ==
    creating # None /\ creating.overrides # None => creating.pipelines = Default

\* With nothing out and the list loaded, it shows what the server has, after
\* creations and deletions that answered late, failed, or were walked away
\* from (handleCreated, handleDelete's closure over its own target).
ListIsTrue ==
    loads.collections = "landed" /\ ~Writing => listed = stored
===============================================================================
