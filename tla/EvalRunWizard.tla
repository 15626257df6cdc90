----------------------------- MODULE EvalRunWizard -----------------------------
(***************************************************************************)
(* The new-run wizard of the evaluation page (NewRunWizard, its reducer    *)
(* and lib/run-config), and what the server makes of the depth it asks for *)
(* (evals/execution/depth.py).  Each retrieval pipeline declares one input *)
(* variable that limits how many results it returns; metrics at cutoff k   *)
(* mean something only if k results can come back.                         *)
(***************************************************************************)
EXTENDS Integers, FiniteSets, FiniteSetsExt

CONSTANTS
    Datasets,      \* dataset -> number of queries
    Ingestion,     \* ingestion pipelines
    Limit,         \* retrieval pipeline -> the maximum its depth variable declares
    ServerKnows,   \* retrieval pipelines whose depth variable has a name the server knows
    NodeCap,       \* retrieval pipeline -> smallest static top_k of a node
    Cutoffs,       \* the k chips
    Typed,         \* numbers that may be typed into a field
    Overfetch, MaxTopK,     \* _CHUNK_OVERFETCH, _MAX_TOP_K
    None

VARIABLES
    wizard,        \* WizardState, None while the wizard is not mounted
    listed,        \* datasets.data, ready ones
    launched       \* the payload of the createEvalRun in flight, or None

vars == <<wizard, listed, launched>>

Retrieval == DOMAIN Limit
Presets == [quick |-> 2, standard |-> 4]       \* and "full", which has no number
Unset == -1                                    \* a field nobody typed in
Blank == 0                                     \* a field emptied, or not a number

initialWizardState ==
    [step |-> 0, dataset |-> None, ingestion |-> None, retrieval |-> None, preset |-> "quick",
     queries |-> Unset, ks |-> Cutoffs, input |-> Unset, typedFor |-> None, busy |-> FALSE,
     message |-> FALSE]

Init == wizard = None /\ listed = DOMAIN Datasets /\ launched = None

\* Reopening the wizard before an abandoned launch is answered, and editing a
\* field while the launch is in flight, change nothing of that launch: the
\* model leaves both out.
OpenWizard ==
    /\ wizard = None /\ launched = None /\ wizard' = initialWizardState
    /\ UNCHANGED <<listed, launched>>

\* The shell's close button and backdrop work while the launch is in flight.
CloseWizard == wizard # None /\ wizard' = None /\ UNCHANGED <<listed, launched>>

\* wizardReducer.
Dispatch(w) == ~wizard.busy /\ wizard' = w /\ UNCHANGED <<listed, launched>>

\* A step is reached from the sidebar at any time, or with Back and Next.
StepReady ==
    CASE wizard.step = 0 -> wizard.dataset # None
      [] wizard.step = 1 -> wizard.ingestion # None /\ wizard.retrieval # None
      [] wizard.step = 2 -> wizard.ks # {}

SetStep(s) == wizard # None /\ s # wizard.step /\ Dispatch([wizard EXCEPT !.step = s])

DatasetStep(d) ==
    /\ wizard # None /\ wizard.step = 0 /\ d \in listed
    /\ Dispatch([wizard EXCEPT !.dataset = d])

\* Mutant: choosing another pipeline keeps the values typed for the one before
PipelinesKeepInput(i, r) ==
    /\ wizard # None /\ wizard.step = 1
    /\ \/ Dispatch([wizard EXCEPT !.ingestion = i])
       \/ r # wizard.retrieval /\ Dispatch([wizard EXCEPT !.retrieval = r])

PipelinesStep(i, r) ==
    /\ wizard # None /\ wizard.step = 1
    /\ \/ Dispatch([wizard EXCEPT !.ingestion = i])
       \/ r # wizard.retrieval
          /\ Dispatch([wizard EXCEPT !.retrieval = r, !.input = Unset, !.typedFor = None])

SetRunInput(v) ==
    /\ wizard # None /\ wizard.step = 1 /\ wizard.retrieval # None
    /\ Dispatch([wizard EXCEPT !.input = v, !.typedFor = wizard.retrieval])

ScopeStep(k, p, q) ==
    /\ wizard # None /\ wizard.step = 2
    /\ \/ Dispatch([wizard EXCEPT !.ks = IF k \in @ THEN @ \ {k} ELSE @ \cup {k}])
       \/ Dispatch([wizard EXCEPT !.preset = p])
       \/ Dispatch([wizard EXCEPT !.queries = q])

(***************************************************************************)
(* lib/run-config.                                                         *)
(***************************************************************************)
MaxK(ks) == IF ks = {} THEN 10 ELSE Max(ks)

clampToBounds(r, v) == IF v > Limit[r] THEN Limit[r] ELSE v

\* The value bound to the depth variable; Blank when the field was emptied.
coerceInputs(w) ==
    CASE w.input = Unset -> clampToBounds(w.retrieval, MaxK(w.ks))
      [] w.input = Blank -> Blank
      [] OTHER -> clampToBounds(w.retrieval, w.input)

effectiveResultDepth(w) ==
    Min({MaxK(w.ks), NodeCap[w.retrieval]}
          \cup (IF coerceInputs(w) = Blank THEN {} ELSE {coerceInputs(w)}))

\* The cutoffs the wizard warns about.
truncatedCutoffs(w) == {k \in w.ks : w.retrieval # None /\ k > effectiveResultDepth(w)}

resolveCount(override, preset, total) ==
    IF override > 0 THEN override
    ELSE LET all == IF total > 1 THEN total ELSE 1 IN
         IF preset \in DOMAIN Presets /\ Presets[preset] < all THEN Presets[preset] ELSE all

launchPayload(w) ==
    [dataset |-> w.dataset, ingestion |-> w.ingestion, retrieval |-> w.retrieval, ks |-> w.ks,
     input |-> IF w.retrieval = None THEN Blank ELSE coerceInputs(w),
     typed |-> w.input > 0, typedFor |-> w.typedFor, override |-> w.queries > 0,
     warned |-> truncatedCutoffs(w),
     queries |-> resolveCount(w.queries, w.preset, Datasets[w.dataset])]

\* Launch is offered by the last step; a dataset that has left the list makes
\* it do nothing.
Launch ==
    /\ wizard # None /\ wizard.step = 2 /\ StepReady /\ ~wizard.busy
    /\ wizard.dataset \in listed
    /\ wizard' = [wizard EXCEPT !.busy = TRUE, !.message = FALSE]
    /\ launched' = launchPayload(wizard)
    /\ UNCHANGED listed

\* create_run refuses an incomplete payload; otherwise the page moves on to the
\* run, and the wizard goes with it.
Accepted(p) == p.ingestion # None /\ p.retrieval # None

LaunchAnswers ==
    /\ launched # None /\ launched' = None
    /\ \/ Accepted(launched) /\ wizard' = None
       \/ wizard' = IF wizard = None THEN None
                    ELSE [wizard EXCEPT !.busy = FALSE, !.message = TRUE]
    /\ UNCHANGED listed

\* A poll of the page drops a dataset that was deleted elsewhere.
DatasetGone(d) ==
    /\ d \in listed /\ Cardinality(listed) > 1 /\ listed' = listed \ {d}
    /\ UNCHANGED <<wizard, launched>>

Next ==
    \/ OpenWizard \/ CloseWizard \/ Launch \/ LaunchAnswers
    \/ \E s \in 0..2 : SetStep(s)
    \/ \E d \in DOMAIN Datasets : DatasetStep(d) \/ DatasetGone(d)
    \/ \E i \in Ingestion, r \in Retrieval : PipelinesStep(i, r)
    \/ \E v \in Typed \cup {Blank} : SetRunInput(v)
    \/ \E k \in Cutoffs, p \in DOMAIN Presets \cup {"full"}, q \in Typed \cup {Unset, Blank} :
          ScopeStep(k, p, q)

Spec == Init /\ [][Next]_vars

--------------------------------------------------------------------------------
(***************************************************************************)
(* The server: evals/execution/depth.py.                                   *)
(***************************************************************************)
DepthCaps(r) == IF r \in ServerKnows THEN {Limit[r]} ELSE {}

EffectiveTopK(p) ==
    LET deepest == MaxK(p.ks)
        over == IF deepest * Overfetch < MaxTopK THEN deepest * Overfetch ELSE MaxTopK
        desired == IF deepest > over THEN deepest ELSE over
    IN  Min({desired} \cup DepthCaps(p.retrieval))

\* raise_bound_depths: a bound variable is raised to the fetch depth if the
\* server recognises its name.
RaiseBoundDepths(p) ==
    IF p.retrieval \in ServerKnows /\ p.input # Blank /\ p.input < EffectiveTopK(p)
    THEN EffectiveTopK(p) ELSE p.input

\* How many results each query of the run can bring back.
ServedDepth(p) == Min({RaiseBoundDepths(p), NodeCap[p.retrieval]})

--------------------------------------------------------------------------------
\* The values the variables take.
TypeOK ==
    /\ wizard # None =>
          /\ wizard.step \in 0..2 /\ wizard.dataset \in DOMAIN Datasets \cup {None}
          /\ wizard.ks \subseteq Cutoffs /\ wizard.busy \in BOOLEAN
          /\ wizard.input # Unset <=> wizard.typedFor # None
    /\ listed \subseteq DOMAIN Datasets /\ (wizard # None /\ wizard.busy => launched # None)

Ran == launched # None /\ Accepted(launched)

\* A run is never given a value that was typed for another pipeline's variable,
\* nor one outside the bounds its own pipeline declares, which would make every
\* query fail.
InputsFit ==
    Ran => /\ launched.typed => launched.typedFor = launched.retrieval
           /\ launched.input <= Limit[launched.retrieval]

\* A cutoff the wizard did not warn about can be scored: the pipeline run the
\* server makes of it returns that many results (unless the field of the depth
\* variable was emptied, which leaves the depth to the pipeline's default).
UnwarnedIsServed ==
    Ran /\ launched.input # Blank =>
        \A k \in launched.ks \ launched.warned : k <= ServedDepth(launched)

\* A run asks for at least one query, for no more than the dataset has unless a
\* number was typed, and scores at least one cutoff.
RunIsMeaningful ==
    launched # None =>
        /\ launched.queries >= 1 /\ launched.ks # {}
        /\ ~launched.override => launched.queries <= Max({1, Datasets[launched.dataset]})

\* Inductive: a typed value is for the pipeline that is chosen now, and what is
\* launched has the values a wizard makes of its choices.
Wizards ==
    [step : 0..2, dataset : DOMAIN Datasets \cup {None}, ingestion : Ingestion \cup {None},
     retrieval : Retrieval \cup {None}, preset : DOMAIN Presets \cup {"full"},
     queries : Typed \cup {Unset, Blank}, ks : SUBSET Cutoffs, input : Typed \cup {Unset, Blank},
     typedFor : Retrieval \cup {None}, busy : BOOLEAN, message : BOOLEAN]

Payloads ==
    [dataset : DOMAIN Datasets, ingestion : Ingestion \cup {None}, retrieval : Retrieval \cup {None},
     ks : SUBSET Cutoffs, input : Nat, typed : BOOLEAN, typedFor : Retrieval \cup {None},
     override : BOOLEAN, warned : SUBSET Cutoffs, queries : Nat]

RunWizardInv ==
    /\ wizard # None =>
          /\ wizard \in Wizards /\ (wizard.busy => launched # None)
          /\ (wizard.input # Unset <=> wizard.typedFor # None)
          /\ wizard.typedFor \in {None, wizard.retrieval}
    /\ listed \subseteq DOMAIN Datasets /\ launched \in {None} \cup Payloads
    /\ InputsFit /\ UnwarnedIsServed /\ RunIsMeaningful
===============================================================================
