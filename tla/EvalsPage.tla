------------------------------- MODULE EvalsPage -------------------------------
(***************************************************************************)
(* The landing page of evaluations (EvalsWorkspace and its panels over     *)
(* useEvalsWorkspace): the lists of datasets and runs, polled while        *)
(* something in them is unfinished, and the actions on them, each of which *)
(* reads the list it changed again.  Background tasks of the server move   *)
(* datasets and runs to their outcome.                                     *)
(***************************************************************************)
EXTENDS ApiQueries, Naturals, FiniteSets

CONSTANTS
    Slots,         \* identities for datasets
    Runs,          \* the runs stored when the page opens
    OfDataset,     \* the dataset those runs were made against
    MaxActions     \* bound: requests in flight beside an import

VARIABLES
    stored,        \* server: dataset -> status, "absent" before its row exists, then "deleted"
    task,          \* server: run -> "absent", "active" or "over"
    datasets,      \* the page's two polled queries
    runs,
    dialog,        \* "none", "import", "upload", or the row a confirmation asks about
    busyKey,       \* an import of the benchmark is in flight
    actions        \* the other requests in flight

vars == <<stored, task, datasets, runs, dialog, busyKey, actions>>
page == <<dialog, busyKey, actions>>

Busy == {"downloading", "generating"}
NoRow == {"absent", "deleted"}
DatasetStates == Busy \cup NoRow \cup {"ready", "failed"}
RunStates == {"absent", "active", "over"}

Init ==
    /\ stored \in [Slots -> {"absent"}] \cup
                  {[s \in Slots |-> IF s = OfDataset THEN "ready" ELSE "absent"]}
    /\ task \in [Runs -> {"absent", "active"}]
    /\ \A r \in Runs : task[r] = "active" => stored[OfDataset] = "ready"
    /\ datasets = Ask(NewQuery) /\ runs = Ask(NewQuery)
    /\ dialog = "none" /\ busyKey = FALSE /\ actions = {}

--------------------------------------------------------------------------------
(***************************************************************************)
(* The server's tasks and answers.                                         *)
(***************************************************************************)
DatasetFinishes(s) ==
    /\ stored[s] \in Busy /\ \E o \in {"ready", "failed"} : stored' = [stored EXCEPT ![s] = o]
    /\ UNCHANGED <<task, datasets, runs, page>>

RunFinishes(r) ==
    /\ task[r] = "active" /\ task' = [task EXCEPT ![r] = "over"]
    /\ UNCHANGED <<stored, datasets, runs, page>>

ServeDatasets ==
    /\ Unserved(datasets) /\ datasets' = Serve(datasets, stored)
    /\ UNCHANGED <<stored, task, runs, page>>

ServeRuns ==
    /\ Unserved(runs) /\ runs' = Serve(runs, task)
    /\ UNCHANGED <<stored, task, datasets, page>>

LandDatasets ==
    /\ datasets.served /\ datasets' = Land(datasets)
    /\ UNCHANGED <<stored, task, runs, page>>

LandRuns ==
    /\ runs.served /\ runs' = Land(runs)
    /\ UNCHANGED <<stored, task, datasets, page>>

Lose ==
    /\ \/ datasets.loading /\ datasets' = Fault(datasets) /\ UNCHANGED runs
       \/ runs.loading /\ runs' = Fault(runs) /\ UNCHANGED datasets
    /\ UNCHANGED <<stored, task, page>>

--------------------------------------------------------------------------------
(***************************************************************************)
(* The page.  An action that fails only shows its error.                   *)
(***************************************************************************)
hasBusyDataset == datasets.data # None /\ \E s \in Slots : datasets.data[s] \in Busy
hasActiveRun == runs.data # None /\ \E r \in Runs : runs.data[r] = "active"

Poll ==
    /\ hasBusyDataset \/ hasActiveRun
    /\ datasets' = IF hasBusyDataset THEN Ask(datasets) ELSE datasets
    /\ runs' = IF hasActiveRun THEN Ask(runs) ELSE runs
    /\ UNCHANGED <<stored, task, page>>

\* What the panels list.
Listed == IF datasets.data = None THEN {} ELSE {s \in Slots : datasets.data[s] \notin NoRow}
ListedRuns == IF runs.data = None THEN {} ELSE {r \in Runs : runs.data[r] # "absent"}
Deletable == Listed \cup {r \in ListedRuns : runs.data[r] # "active"}

OpenDialog(d) ==
    /\ dialog = "none" /\ d \in {"import", "upload"} \cup Deletable /\ dialog' = d
    /\ UNCHANGED <<stored, task, datasets, runs, busyKey, actions>>

CloseDialog ==
    /\ dialog # "none" /\ dialog' = "none"
    /\ UNCHANGED <<stored, task, datasets, runs, busyKey, actions>>

\* The benchmark is the dataset OfDataset; its button is off once the list has it.
Import ==
    /\ dialog = "import" /\ OfDataset \notin Listed /\ ~busyKey
    /\ busyKey' = TRUE
    /\ UNCHANGED <<stored, task, datasets, runs, dialog, actions>>

\* A list that lags behind lets the benchmark be imported again: another row.
ImportAnswers ==
    /\ busyKey /\ busyKey' = FALSE
    /\ \/ /\ IF \A s \in Slots : stored[s] # "absent" THEN UNCHANGED stored
             ELSE \E s \in Slots :
                     /\ stored[s] = "absent" /\ (stored[OfDataset] = "absent" => s = OfDataset)
                     /\ stored' = [stored EXCEPT ![s] = "downloading"]
          /\ datasets' = Ask(datasets) /\ dialog' = IF dialog = "import" THEN "none" ELSE dialog
       \/ UNCHANGED <<stored, datasets, dialog>>
    /\ UNCHANGED <<task, runs, actions>>

\* A dataset is uploaded, or the generation wizard is launched.
Add(kind) ==
    /\ kind = "upload" => dialog = "upload"
    /\ kind \notin actions /\ Cardinality(actions) < MaxActions /\ actions' = actions \cup {kind}
    /\ UNCHANGED <<stored, task, datasets, runs, dialog, busyKey>>

AddAnswers(kind) ==
    /\ kind \in actions \cap {"upload", "generate"} /\ actions' = actions \ {kind}
    /\ \/ /\ \E s \in Slots \ {OfDataset} : stored[s] = "absent" /\
                stored' = [stored EXCEPT ![s] = IF kind = "upload" THEN "ready" ELSE "generating"]
          /\ datasets' = Ask(datasets)
          /\ dialog' = IF kind = "upload" /\ dialog = "upload" THEN "none" ELSE dialog
       \/ UNCHANGED <<stored, datasets, dialog>>
    /\ UNCHANGED <<task, runs, busyKey>>

Confirm ==
    /\ dialog \in Slots \cup Runs /\ dialog \notin actions /\ Cardinality(actions) < MaxActions
    /\ actions' = actions \cup {dialog}
    /\ UNCHANGED <<stored, task, datasets, runs, dialog, busyKey>>

\* delete_dataset refuses while runs refer to the dataset, delete_run while the
\* run is active; the answer closes whatever confirmation is open.
RemoveDataset(s) ==
    /\ s \in actions /\ actions' = actions \ {s} /\ dialog' = "none"
    /\ IF stored[s] \notin NoRow /\ (s = OfDataset => \A r \in Runs : task[r] = "absent")
       THEN /\ stored' = [stored EXCEPT ![s] = "deleted"] /\ datasets' = Ask(datasets)
       ELSE UNCHANGED <<stored, datasets>>
    /\ UNCHANGED <<task, runs, busyKey>>

RemoveRun(r) ==
    /\ r \in actions /\ actions' = actions \ {r} /\ dialog' = "none"
    /\ IF task[r] = "over"
       THEN task' = [task EXCEPT ![r] = "absent"] /\ runs' = Ask(runs)
       ELSE UNCHANGED <<task, runs>>
    /\ UNCHANGED <<stored, datasets, busyKey>>

Next ==
    \/ \E s \in Slots : DatasetFinishes(s) \/ RemoveDataset(s)
    \/ \E r \in Runs : RunFinishes(r) \/ RemoveRun(r)
    \/ ServeDatasets \/ ServeRuns \/ LandDatasets \/ LandRuns \/ Lose
    \/ Poll \/ CloseDialog \/ Import \/ ImportAnswers \/ Confirm
    \/ \E d \in {"import", "upload"} \cup Slots \cup Runs : OpenDialog(d)
    \/ \E kind \in {"upload", "generate"} : Add(kind) \/ AddAnswers(kind)

\* Tasks end, timers fire; a poll is answered before the next one, again and again.
Fairness ==
    /\ \A s \in Slots : SF_vars(DatasetFinishes(s))
    /\ WF_vars(Poll) /\ SF_vars(ServeDatasets) /\ SF_vars(LandDatasets)

Spec == Init /\ [][Next]_vars /\ Fairness

--------------------------------------------------------------------------------
\* The values the variables take.
TypeOK ==
    /\ stored \in [Slots -> DatasetStates] /\ task \in [Runs -> RunStates]
    /\ actions \subseteq Slots \cup Runs \cup {"upload", "generate"}
    /\ busyKey \in BOOLEAN

\* Once nothing is in flight, the lists show every dataset and run the page's
\* own actions have left on the server, and none they removed: no answer that
\* was on its way when an action completed overwrites what came after it.
ListsAreTrue ==
    /\ Settled(datasets) => Listed = {s \in Slots : stored[s] \notin NoRow}
    /\ Settled(runs) => ListedRuns = {r \in Runs : task[r] # "absent"}

\* A run never outlives the dataset it was made against.
RunsHaveDataset == \A r \in Runs : task[r] # "absent" => stored[OfDataset] \notin NoRow

\* Why the lists are true: an answer on its way, and what is shown once nothing
\* is, have the rows that are stored, because whatever adds or removes a row
\* asks again; the tasks only change the state of one.
SameRows(read) == \A s \in Slots : read[s] \in NoRow <=> stored[s] \in NoRow
SameRuns(read) == \A r \in Runs : read[r] = "absent" <=> task[r] = "absent"
ListsInv ==
    /\ TypeOK /\ RunsHaveDataset
    /\ IsQuery(datasets) /\ IsQuery(runs)
    /\ datasets.served => datasets.answer \in [Slots -> DatasetStates] /\ SameRows(datasets.answer)
    /\ Settled(datasets) => datasets.data \in [Slots -> DatasetStates] /\ SameRows(datasets.data)
    /\ runs.served => runs.answer \in [Runs -> RunStates] /\ SameRuns(runs.answer)
    /\ Settled(runs) => runs.data \in [Runs -> RunStates] /\ SameRuns(runs.data)

\* A dataset shown as downloading or generating does not stay so: the poll goes
\* on until the list shows its outcome (or its row is gone).
OutcomeIsShown ==
    \A s \in Slots :
        (datasets.data # None /\ datasets.data[s] \in Busy)
            ~> (datasets.data # None /\ datasets.data[s] \notin Busy)
===============================================================================
