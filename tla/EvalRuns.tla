------------------------------- MODULE EvalRuns -------------------------------
(***************************************************************************)
(* Evaluation runs: app/evals/service.py (create, cancel, delete),         *)
(* app/evals/execution/runner.py (the background engine) and               *)
(* app/evals/provisioning.py (the eval collection the runs share).         *)
(*                                                                         *)
(* Every run here is of one user, one dataset and one ingestion pipeline,  *)
(* so all of them have the same cache key and want the same collection;    *)
(* they differ in the retrieval pipeline they evaluate.  A run's row is    *)
(* written by its runner and by the API's cancel and delete, each in a     *)
(* session of its own: an UPDATE carries the attributes the session set,   *)
(* whatever another session committed since it read the row.               *)
(***************************************************************************)
EXTENDS Naturals, FiniteSetTheorems, TLAPS

CONSTANTS
    Runs,           \* eval runs
    Clients,        \* API requests that cancel or delete
    Queries,        \* the sampled queries
    Docs,           \* the corpus
    Sample,         \* Sample[r]: the documents of run r's plan
    Retrieval,      \* Retrieval[r]: run.retrieval_pipeline_id
    Overlap,        \* may a run start while another is under way
    MaxCalls,       \* bound: cancel and delete requests
    MaxErrors,      \* bound: exceptions in a run body
    MaxFaults,      \* bound: database errors that poison a runner's session
    MaxCrashes      \* bound: process deaths

Nothing == "none"
RunsAssumption ==
    /\ IsFiniteSet(Docs) /\ IsFiniteSet(Queries)
    /\ Sample \in [Runs -> SUBSET Docs]
    /\ Nothing \notin Runs /\ Overlap \in BOOLEAN
    /\ \A r \in Runs : Retrieval[r] # Nothing
    /\ {MaxCalls, MaxErrors, MaxFaults, MaxCrashes} \subseteq Nat

Active == {"pending", "provisioning", "ingesting", "running"}
Statuses == Active \cup {"completed", "failed", "cancelled"}
Pipelines == {Retrieval[r] : r \in Runs}
Rows == Runs \X Docs            \* a document row: who registered it, for what

VARIABLES
    row,            \* row[r]: EvalRun.status; "unmade" and "gone" around its life
    items,          \* items[r][q]: the pipeline that answered q, if q has an item
    progress,       \* progress[r]: EvalRun.progress_done
    pc,             \* pc[r]: where run_eval is
    found,          \* found[r]: the eval collection run r works with
    reused,         \* reused[r]: ProvisionResult.reused
    tool,           \* tool[c]: the primary tool of the collection c created
    doc,            \* doc[c][w]: DocumentStatus of row w of collection c
    missing,        \* missing[r]: what _missing_docs returned
    work,           \* work[r][q]: a pool worker's answer
    current,        \* current[r]: the future as_completed handed out
    client,         \* client[k]: what a request has read
    budget          \* what is left of the bounds

vars == <<row, items, progress, pc, found, reused, tool, doc, missing, work,
          current, client, budget>>

rowVars  == <<row, items, progress>>
collVars == <<tool, doc>>
ownVars  == <<found, reused, missing, work, current>>

Idle == [op |-> "idle", run |-> Nothing]
Collections == {c \in Runs : tool[c] # Nothing}
Present(c) == {d \in Docs : \E r \in Runs : doc[c][<<r, d>>] # Nothing}
Total(r) == Cardinality(Sample[r]) + Cardinality(Queries)
Collected(r) == {q \in Queries : items[r][q] # Nothing}
Spend(b) == budget[b] > 0 /\ budget' = [budget EXCEPT ![b] = @ - 1]
Working == {"planned", "provision", "find", "bind", "register", "ingest",
            "check", "mark", "evaluate", "add", "last", "finalize", "failing"}

Init ==
    /\ row = [r \in Runs |-> "unmade"]
    /\ items = [r \in Runs |-> [q \in Queries |-> Nothing]]
    /\ progress = [r \in Runs |-> 0]
    /\ pc = [r \in Runs |-> "idle"]
    /\ found = [r \in Runs |-> Nothing] /\ reused = [r \in Runs |-> FALSE]
    /\ tool = [c \in Runs |-> Nothing]
    /\ doc = [c \in Runs |-> [w \in Rows |-> Nothing]]
    /\ missing = [r \in Runs |-> {}]
    /\ work = [r \in Runs |-> [q \in Queries |-> Nothing]]
    /\ current = [r \in Runs |-> Nothing]
    /\ client = [k \in Clients |-> Idle]
    /\ budget = [calls |-> MaxCalls, errors |-> MaxErrors,
                 faults |-> MaxFaults, crashes |-> MaxCrashes]

-----------------------------------------------------------------------------
(* EvalService.create_run; the route schedules run_eval with the commit.   *)
Create(r) ==
    /\ row[r] = "unmade"
    /\ Overlap \/ \A s \in Runs : pc[s] \in {"idle", "ended"}
    /\ row' = [row EXCEPT ![r] = "pending"]
    /\ pc' = [pc EXCEPT ![r] = "scheduled"]
    /\ UNCHANGED <<items, progress, collVars, ownVars, client, budget>>

Goto(r, l) == pc' = [pc EXCEPT ![r] = l]

(* A commit of the runner's session that changes the run row: of a row     *)
(* that is gone it updates nothing, which SQLAlchemy raises as an error,   *)
(* and the handler's own commit then meets the same.                       *)
Commit(r, st, l) ==
    IF row[r] = "gone"
    THEN Goto(r, "ended") /\ UNCHANGED row
    ELSE Goto(r, l) /\ row' = [row EXCEPT ![r] = st]

(* run_eval: only a pending run is executed.                               *)
Begin(r) ==
    /\ pc[r] = "scheduled"
    /\ Goto(r, IF row[r] = "pending" THEN "planned" ELSE "ended")
    /\ UNCHANGED <<rowVars, collVars, ownVars, client, budget>>

MarkProvisioning(r) ==
    /\ pc[r] = "planned"
    /\ Commit(r, "provisioning", "provision")
    /\ UNCHANGED <<items, progress, collVars, ownVars, client, budget>>

MarkIngesting(r) ==
    /\ pc[r] = "provision"
    /\ Commit(r, "ingesting", "find")
    /\ UNCHANGED <<items, progress, collVars, ownVars, client, budget>>

(* EvalProvisioner.provision: find_existing ...                            *)
Find(r) ==
    /\ pc[r] = "find"
    /\ \/ /\ Collections = {}
          /\ UNCHANGED <<found, reused>>
       \/ \E c \in Collections :
             /\ found' = [found EXCEPT ![r] = c]
             /\ reused' = [reused EXCEPT ![r] = TRUE]
    /\ Goto(r, "bind")
    /\ UNCHANGED <<rowVars, collVars, missing, work, current, client, budget>>

(* A plausible slip: a reused collection is taken to hold the sample.      *)
BindTrusts(r) ==
    /\ pc[r] = "bind"
    /\ found' = [found EXCEPT ![r] = IF found[r] = Nothing THEN r ELSE @]
    /\ tool' = [tool EXCEPT ![found'[r]] = Retrieval[r]]
    /\ missing' = [missing EXCEPT ![r] = IF reused[r] THEN {} ELSE Sample[r]]
    /\ Goto(r, "register")
    /\ UNCHANGED <<rowVars, reused, doc, work, current, client, budget>>

(* ... then _bind_retrieval on the one found, or a fresh collection bound  *)
(* to both pipelines, committed; and what of the sample is not in it yet.  *)
Bind(r) ==
    /\ pc[r] = "bind"
    /\ found' = [found EXCEPT ![r] = IF found[r] = Nothing THEN r ELSE @]
    /\ tool' = [tool EXCEPT ![found'[r]] = Retrieval[r]]
    /\ missing' = [missing EXCEPT ![r] = Sample[r] \ Present(found'[r])]
    /\ Goto(r, "register")
    /\ UNCHANGED <<rowVars, reused, doc, work, current, client, budget>>

(* _materialize_and_ingest: register every missing document ...            *)
Register(r) ==
    /\ pc[r] = "register"
    /\ doc' = [doc EXCEPT ![found[r]] =
                 [w \in Rows |-> IF w[1] = r /\ w[2] \in missing[r] THEN "pending" ELSE @[w]]]
    /\ Goto(r, "ingest")
    /\ UNCHANGED <<rowVars, tool, ownVars, client, budget>>

(* ... and ingest each, a failed one included, then `bump'.  Which of them *)
(* goes first, and how many at a time, is left open.                       *)
Ingest(r, d) ==
    /\ pc[r] = "ingest"
    /\ doc[found[r]][<<r, d>>] = "pending"
    /\ \E st \in {"ready", "failed"} :
          doc' = [doc EXCEPT ![found[r]][<<r, d>>] = st]
    /\ Commit(r, row[r], "ingest")
    /\ progress' = [progress EXCEPT ![r] = IF row[r] = "gone" THEN @ ELSE @ + 1]
    /\ UNCHANGED <<items, tool, ownVars, client, budget>>

(* Provisioning is over; a reused collection counts as wholly ingested.    *)
Provisioned(r) ==
    /\ pc[r] = "ingest"
    /\ \A d \in missing[r] : doc[found[r]][<<r, d>>] # "pending"
    /\ progress' = [progress EXCEPT ![r] = IF reused[r] /\ row[r] # "gone"
                                           THEN Cardinality(Sample[r]) ELSE @]
    /\ Commit(r, row[r], "check")
    /\ UNCHANGED <<items, collVars, ownVars, client, budget>>

(* EvalRunner._cancelled: refresh; of a row that is gone it raises.        *)
Checked(r, l) ==
    Goto(r, CASE row[r] = "gone" -> "failing" [] row[r] = "cancelled" -> "ended" [] OTHER -> l)

CheckProvisioned(r) ==
    /\ pc[r] = "check"
    /\ Checked(r, "mark")
    /\ UNCHANGED <<rowVars, collVars, ownVars, client, budget>>

MarkRunning(r) ==
    /\ pc[r] = "mark"
    /\ Commit(r, "running", "evaluate")
    /\ UNCHANGED <<items, progress, collVars, ownVars, client, budget>>

(* _evaluate_task on a pool worker: the query goes to whatever is the      *)
(* collection's primary tool then.  After the loop broke off, the pool     *)
(* still waits for the workers that had started.                           *)
Answer(r, q) ==
    /\ pc[r] \in {"evaluate", "add", "last"}
    /\ work[r][q] = Nothing
    /\ work' = [work EXCEPT ![r][q] = tool[found[r]]]
    /\ UNCHANGED <<rowVars, pc, collVars, found, reused, missing, current, client, budget>>

(* The loop over as_completed: check, then persist the item and progress.  *)
Collect(r, q) ==
    /\ pc[r] = "evaluate"
    /\ work[r][q] # Nothing /\ q \notin Collected(r)
    /\ current' = [current EXCEPT ![r] = q]
    /\ Goto(r, CASE row[r] = "gone" -> "failing" [] row[r] = "cancelled" -> "last" [] OTHER -> "add")
    /\ UNCHANGED <<rowVars, collVars, found, reused, missing, work, client, budget>>

(* A plausible slip: the item is added and never committed.                *)
AddItemLost(r) ==
    /\ pc[r] = "add"
    /\ Goto(r, "evaluate")
    /\ UNCHANGED <<rowVars, collVars, ownVars, client, budget>>

(* An item of a run that is gone breaks its foreign key.                   *)
AddItem(r) ==
    /\ pc[r] = "add"
    /\ Commit(r, row[r], "evaluate")
    /\ items' = [items EXCEPT ![r][current[r]] = IF row[r] = "gone" THEN @ ELSE work[r][current[r]]]
    /\ progress' = [progress EXCEPT ![r] = IF row[r] = "gone" THEN @ ELSE @ + 1]
    /\ UNCHANGED <<collVars, ownVars, client, budget>>

LoopEnds(r) ==
    /\ pc[r] = "evaluate" /\ Collected(r) = Queries
    /\ Goto(r, "last")
    /\ UNCHANGED <<rowVars, collVars, ownVars, client, budget>>

CheckEvaluated(r) ==
    /\ pc[r] = "last"
    /\ Checked(r, "finalize")
    /\ UNCHANGED <<rowVars, collVars, ownVars, client, budget>>

(* _finalize: aggregates over the persisted items, and the last status.    *)
Finalize(r) ==
    /\ pc[r] = "finalize"
    /\ Commit(r, "completed", "ended")
    /\ UNCHANGED <<items, progress, collVars, ownVars, client, budget>>

(* execute(): an exception in the body is recorded as a failed run.        *)
Raise(r) ==
    /\ pc[r] \in Working \ {"failing"}
    /\ Spend("errors")
    /\ Goto(r, "failing")
    /\ UNCHANGED <<rowVars, collVars, ownVars, client>>

MarkFailed(r) ==
    /\ pc[r] = "failing"
    /\ Commit(r, "failed", "ended")
    /\ UNCHANGED <<items, progress, collVars, ownVars, client, budget>>

(* A flush that failed leaves the session unusable until a rollback that   *)
(* execute() does not make: its own commit raises, run_eval logs it.       *)
Poison(r) ==
    /\ pc[r] \in {"planned", "provision", "register", "ingest", "mark", "add", "finalize"}
    /\ Spend("faults")
    /\ Goto(r, "ended")
    /\ UNCHANGED <<rowVars, collVars, ownVars, client>>

RunnerStep(r) ==
    \/ Begin(r) \/ MarkProvisioning(r) \/ MarkIngesting(r) \/ Find(r) \/ Bind(r)
    \/ Register(r) \/ (\E d \in Docs : Ingest(r, d)) \/ Provisioned(r)
    \/ CheckProvisioned(r) \/ MarkRunning(r) \/ (\E q \in Queries : Answer(r, q) \/ Collect(r, q))
    \/ AddItem(r) \/ LoopEnds(r) \/ CheckEvaluated(r) \/ Finalize(r) \/ MarkFailed(r)

-----------------------------------------------------------------------------
(* EvalService.cancel_run and delete_run: read, check, then write.         *)
CancelRead(k, r) ==
    /\ client[k] = Idle /\ row[r] \in Active
    /\ Spend("calls")
    /\ client' = [client EXCEPT ![k] = [op |-> "cancel", run |-> r]]
    /\ UNCHANGED <<rowVars, pc, collVars, ownVars>>

CancelWrite(k) ==
    LET r == client[k].run
    IN  /\ client[k].op = "cancel"
        /\ row' = [row EXCEPT ![r] = IF @ = "gone" THEN @ ELSE "cancelled"]
        /\ client' = [client EXCEPT ![k] = Idle]
        /\ UNCHANGED <<items, progress, pc, collVars, ownVars, budget>>

DeleteRead(k, r) ==
    /\ client[k] = Idle /\ row[r] \in Statuses \ Active
    /\ Spend("calls")
    /\ client' = [client EXCEPT ![k] = [op |-> "delete", run |-> r]]
    /\ UNCHANGED <<rowVars, pc, collVars, ownVars>>

DeleteWrite(k) ==
    LET r == client[k].run
    IN  /\ client[k].op = "delete"
        /\ row' = [row EXCEPT ![r] = "gone"]
        /\ items' = [items EXCEPT ![r] = [q \in Queries |-> Nothing]]
        /\ client' = [client EXCEPT ![k] = Idle]
        /\ UNCHANGED <<progress, pc, collVars, ownVars, budget>>

ClientStep(k) ==
    \/ \E r \in Runs : CancelRead(k, r) \/ DeleteRead(k, r)
    \/ CancelWrite(k) \/ DeleteWrite(k)

(* The process dies: background tasks, workers and requests with it.       *)
(* Nothing at startup looks at eval runs.                                  *)
Crash ==
    /\ Spend("crashes")
    /\ pc' = [r \in Runs |-> IF pc[r] = "idle" THEN "idle" ELSE "ended"]
    /\ client' = [k \in Clients |-> Idle]
    /\ UNCHANGED <<rowVars, collVars, ownVars>>

Quiet == (\A r \in Runs : pc[r] = "ended") /\ UNCHANGED vars

Next ==
    \/ \E r \in Runs : Create(r) \/ RunnerStep(r) \/ Raise(r) \/ Poison(r)
    \/ \E k \in Clients : ClientStep(k)
    \/ Crash
    \/ Quiet

Spec == Init /\ [][Next]_vars

(* A scheduled background task runs on its thread, and a provider call     *)
(* returns or raises: the runner goes on while it can.                     *)
FairSpec == Spec /\ \A r \in Runs : WF_vars(RunnerStep(r))

-----------------------------------------------------------------------------
RunTypes ==
    /\ row \in [Runs -> Statuses \cup {"unmade", "gone"}]
    /\ items \in [Runs -> [Queries -> Pipelines \cup {Nothing}]]
    /\ progress \in [Runs -> Nat]
    /\ pc \in [Runs -> Working \cup {"idle", "scheduled", "ended"}]
    /\ found \in [Runs -> Runs \cup {Nothing}] /\ reused \in [Runs -> BOOLEAN]
    /\ tool \in [Runs -> Pipelines \cup {Nothing}]
    /\ doc \in [Runs -> [Rows -> {Nothing, "pending", "ready", "failed"}]]
    /\ missing \in [Runs -> SUBSET Docs]
    /\ work \in [Runs -> [Queries -> Pipelines \cup {Nothing}]]
    /\ current \in [Runs -> Queries \cup {Nothing}]

(* The variables hold what they are for, and no bar is more than full.     *)
TypeOK == RunTypes /\ \A r \in Runs : progress[r] <= Total(r)

(* A run is marked completed only over the whole sample: every query has   *)
(* its item and the progress bar is full, although a cancellation breaks   *)
(* the loop off, a deletion takes the items, and documents may have been   *)
(* ingested by an earlier run.                                             *)
CompletedIsWhole ==
    \A r \in Runs : row[r] = "completed" =>
        Collected(r) = Queries /\ progress[r] = Total(r)

(* The process died, or a database error left a runner's session unusable:  *)
(* nothing then records the outcome of the run it was working on.          *)
RunnerLost == budget.crashes < MaxCrashes \/ budget.faults < MaxFaults

(* The items of a run were answered by the pipeline the run evaluates,     *)
(* though the runs point one shared collection at their pipelines in turn. *)
OwnPipeline ==
    \A r \in Runs : \A q \in Queries : items[r][q] \in {Nothing, Retrieval[r]}

(* When a run's queries start, each document of its sample is in its       *)
(* collection and its ingestion is over, by whichever run it was done;     *)
(* _missing_docs is deceived only by a run that broke off and left the     *)
(* document registered.                                                    *)
CorpusIngested ==
    \A r \in Runs : pc[r] \in {"evaluate", "add", "last", "finalize"} =>
        \A d \in Sample[r] : \E s \in Runs :
            \/ doc[found[r]][<<s, d>>] \in {"ready", "failed"}
            \/ doc[found[r]][<<s, d>>] = "pending" /\ pc[s] = "ended"

(* Runs of one dataset and ingestion pipeline share one eval collection.   *)
OneCollection == Cardinality(Collections) <= 1

(* A runner that is through has left its run in a status that is not one   *)
(* of work in progress, whichever way out it took: the checks for a        *)
(* cancellation, the handler, a row deleted under it, or the last commit.  *)
OutcomeRecorded ==
    \A r \in Runs : pc[r] = "ended" => row[r] \notin Active \/ RunnerLost

(* A run that was created does not stay in progress for ever, unless its   *)
(* runner was lost: the loop collects every answer and comes to an end.    *)
RunSettles ==
    \A r \in Runs : row[r] \in Active ~> (row[r] \notin Active \/ RunnerLost)

-----------------------------------------------------------------------------
(* The invariant that carries them, in the phases of a runner.             *)
Unbound == {"idle", "scheduled", "planned", "provision", "find", "bind"}
Unregistered == Unbound \cup {"register"}
Evaluating == {"evaluate", "add", "last", "finalize"}
Provided == {"check", "mark"} \cup Evaluating
Bound == {"register", "ingest"} \cup Provided

BudgetType ==
    /\ budget \in [{"calls", "errors", "faults", "crashes"} -> Nat]
    /\ budget.faults <= MaxFaults /\ budget.crashes <= MaxCrashes

\* A request is about a run that was made.
ClientFacts ==
    \A k \in Clients : client[k] # Idle =>
        /\ client[k] \in [op : {"cancel", "delete"}, run : Runs]
        /\ row[client[k].run] # "unmade"

\* What the status of a run has to do with where its runner is.
RowFacts ==
    \A r \in Runs :
        /\ pc[r] = "idle" <=> row[r] = "unmade"
        /\ pc[r] = "scheduled" => row[r] \in {"pending", "cancelled", "gone"}
        /\ row[r] = "completed" => pc[r] = "ended"

\* A run takes over a collection that exists, or makes its own and puts its
\* whole sample into it.
CollectionFacts ==
    \A r \in Runs :
        /\ tool[r] = Nothing => \A w \in Rows : doc[r][w] = Nothing
        /\ pc[r] \in Unbound =>
             /\ tool[r] = Nothing
             /\ reused[r] <=> found[r] # Nothing
             /\ found[r] # Nothing => pc[r] = "bind" /\ tool[found[r]] # Nothing
        /\ pc[r] \in Bound =>
             /\ found[r] \in Runs /\ tool[found[r]] # Nothing
             /\ missing[r] \subseteq Sample[r]
             /\ reused[r] \/ missing[r] = Sample[r]

\* The rows a run registered are those of its missing documents, and none of
\* them is pending when provisioning is over.
RegisteredFacts ==
    \A r \in Runs :
        /\ pc[r] \in Unregistered => \A c \in Runs, d \in Docs : doc[c][<<r, d>>] = Nothing
        /\ pc[r] \in Bound \ {"register"} => \A d \in Docs :
             doc[found[r]][<<r, d>>] # Nothing <=> d \in missing[r]
        /\ pc[r] \in Provided => \A d \in missing[r] : doc[found[r]][<<r, d>>] # "pending"

\* The documents of r's own that are ingested.
Ingested(r) == {d \in missing[r] : doc[found[r]][<<r, d>>] # "pending"}

\* The progress bar counts ingested documents and then collected answers.
ProgressFacts ==
    \A r \in Runs : row[r] # "gone" =>
        /\ pc[r] \in Unregistered => progress[r] = 0
        /\ pc[r] = "ingest" => progress[r] = Cardinality(Ingested(r))
        /\ pc[r] \in {"check", "mark"} => progress[r] = Cardinality(Sample[r])
        /\ pc[r] \in Evaluating => progress[r] = Cardinality(Sample[r]) + Cardinality(Collected(r))
        /\ row[r] = "completed" => progress[r] = Total(r)

\* What has been collected, and what is about to be.
CollectedFacts ==
    \A r \in Runs : row[r] # "gone" =>
        /\ pc[r] \in Unregistered \cup {"ingest", "check", "mark"} => Collected(r) = {}
        /\ pc[r] = "add" =>
             current[r] \in Queries \ Collected(r) /\ work[r][current[r]] # Nothing
        /\ pc[r] = "last" => Collected(r) = Queries \/ row[r] = "cancelled"
        /\ pc[r] = "finalize" \/ row[r] = "completed" => Collected(r) = Queries

RunsInv ==
    /\ TypeOK /\ BudgetType /\ ClientFacts /\ RowFacts /\ CollectionFacts
    /\ RegisteredFacts /\ ProgressFacts /\ CollectedFacts /\ OutcomeRecorded

-----------------------------------------------------------------------------
(* One run after the other.                                                *)
Alone == \A r, s \in Runs : pc[r] \notin {"idle", "ended"} /\ pc[s] \notin {"idle", "ended"} => r = s

\* The shared collection is bound to the pipeline of the run under way, and
\* that run's answers come from it.
OwnFacts ==
    \A r \in Runs :
        /\ pc[r] \in Bound => tool[found[r]] = Retrieval[r]
        /\ \A q \in Queries : work[r][q] \in {Nothing, Retrieval[r]}

\* A document that is not missing was registered by a run that is over.
CorpusFacts ==
    \A r \in Runs :
        /\ pc[r] = "bind" /\ found[r] = Nothing => Collections = {}
        /\ pc[r] \in Bound => \A d \in Sample[r] \ missing[r] : \E s \in Runs :
             pc[s] = "ended" /\ doc[found[r]][<<s, d>>] # Nothing

SharedOnce == \A c, e \in Collections : c = e

SerialInv == Alone /\ OwnFacts /\ OwnPipeline /\ CorpusFacts /\ SharedOnce
Serial == ~Overlap => SerialInv

\* What a runner does with its run, its creation and its faults included.
RunAction(r) == Create(r) \/ RunnerStep(r) \/ Raise(r) \/ Poison(r)

\* The corpus and the questions are finite, and so is what is sampled of them.
LEMMA Sizes ==
    ASSUME RunsAssumption
    PROVE  /\ Cardinality(Queries) \in Nat
           /\ \A r \in Runs : /\ Sample[r] \subseteq Docs /\ IsFiniteSet(Sample[r])
                              /\ Cardinality(Sample[r]) \in Nat /\ Total(r) \in Nat
<1>1. \A r \in Runs : Sample[r] \subseteq Docs
  BY DEF RunsAssumption
<1>2. \A r \in Runs : IsFiniteSet(Sample[r])
  BY <1>1, FS_Subset DEF RunsAssumption
<1>3. Cardinality(Queries) \in Nat /\ \A r \in Runs : Cardinality(Sample[r]) \in Nat
  BY <1>2, FS_CardinalityType DEF RunsAssumption
<1>4. QED
  BY <1>1, <1>2, <1>3 DEF Total

\* A runner, and nobody else, writes the variables of its run with values of
\* the right kind.
LEMMA RunnerTypes ==
    ASSUME RunsAssumption, RunTypes, CollectionFacts, NEW r \in Runs, RunAction(r)
    PROVE  RunTypes'
<1> USE DEF RunTypes, Statuses, Active, Working, Goto, Commit, rowVars, collVars, ownVars
<1>1. CASE Create(r)
  BY <1>1 DEF Create
<1>2. CASE Begin(r)
  BY <1>2 DEF Begin
<1>3. CASE MarkProvisioning(r) \/ MarkIngesting(r)
  BY <1>3 DEF MarkProvisioning, MarkIngesting
<1>4. CASE Find(r)
  <2>1. found' \in [Runs -> Runs \cup {Nothing}]
    BY <1>4 DEF Find, Collections
  <2>2. reused' \in [Runs -> BOOLEAN]
    <3>1. reused' = reused \/ reused' = [reused EXCEPT ![r] = TRUE]
      BY <1>4 DEF Find
    <3>2. QED
      BY <3>1
  <2>3. QED
    BY <1>4, <2>1, <2>2 DEF Find
<1>5. CASE Bind(r)
  BY <1>5, Sizes DEF Bind, Pipelines
<1>6. CASE Register(r)
  BY <1>6 DEF Register
<1>7. ASSUME NEW d \in Docs, Ingest(r, d) PROVE RunTypes'
  <2>1. doc' \in [Runs -> [Rows -> {Nothing, "pending", "ready", "failed"}]]
    <3>1. found[r] \in Runs
      BY <1>7 DEF Ingest, CollectionFacts, Bound
    <3>2. PICK st \in {"ready", "failed"} : doc' = [doc EXCEPT ![found[r]][<<r, d>>] = st]
      BY <1>7 DEF Ingest
    <3>3. [doc[found[r]] EXCEPT ![<<r, d>>] = st] \in [Rows -> {Nothing, "pending", "ready", "failed"}]
      BY <3>1
    <3>4. QED
      BY <3>1, <3>2, <3>3
  <2>2. row' \in [Runs -> Statuses \cup {"unmade", "gone"}]
    BY <1>7 DEF Ingest
  <2>3. progress' \in [Runs -> Nat]
    BY <1>7 DEF Ingest
  <2>4. QED
    BY <1>7, <2>1, <2>2, <2>3 DEF Ingest
<1>8. CASE Provisioned(r)
  BY <1>8, Sizes DEF Provisioned
<1>9. CASE CheckProvisioned(r) \/ CheckEvaluated(r)
  BY <1>9 DEF CheckProvisioned, CheckEvaluated, Checked
<1>10. CASE MarkRunning(r)
  BY <1>10 DEF MarkRunning
<1>11. ASSUME NEW q \in Queries, Answer(r, q) PROVE RunTypes'
  BY <1>11 DEF Answer, CollectionFacts, Bound, Provided, Evaluating
<1>12. ASSUME NEW q \in Queries, Collect(r, q) PROVE RunTypes'
  BY <1>12 DEF Collect
<1>13. CASE AddItem(r)
  <2>1. items' \in [Runs -> [Queries -> Pipelines \cup {Nothing}]]
    <3>1. items' = [items EXCEPT ![r] = [items[r] EXCEPT ![current[r]] =
                       IF row[r] = "gone" THEN @ ELSE work[r][current[r]]]]
      BY <1>13 DEF AddItem
    <3>2. /\ items[r] \in [Queries -> Pipelines \cup {Nothing}]
          /\ work[r] \in [Queries -> Pipelines \cup {Nothing}]
      OBVIOUS
    <3>3. [items[r] EXCEPT ![current[r]] = IF row[r] = "gone" THEN @ ELSE work[r][current[r]]]
            \in [Queries -> Pipelines \cup {Nothing}]
      BY <3>2
    <3>4. QED
      BY <3>1, <3>3, Zenon
  <2>2. row' \in [Runs -> Statuses \cup {"unmade", "gone"}] /\ progress' \in [Runs -> Nat]
    BY <1>13 DEF AddItem
  <2>3. QED
    BY <1>13, <2>1, <2>2, ZenonT(60) DEF AddItem
<1>14. CASE LoopEnds(r) \/ Finalize(r) \/ MarkFailed(r)
  BY <1>14 DEF LoopEnds, Finalize, MarkFailed
<1>15. CASE Raise(r) \/ Poison(r)
  BY <1>15 DEF Raise, Poison
<1>16. QED
  BY <1>1, <1>2, <1>3, <1>4, <1>5, <1>6, <1>7, <1>8, <1>9, <1>10, <1>11, <1>12,
     <1>13, <1>14, <1>15 DEF RunAction, RunnerStep

\* The other runs keep their rows, items and runners, and every collection the
\* documents the others registered; no collection loses its tool.
LEMMA RunnerFrame ==
    ASSUME RunsAssumption, RunTypes, CollectionFacts, NEW r \in Runs, RunAction(r)
    PROVE  /\ client' = client
           /\ \A s \in Runs : s # r =>
                /\ row'[s] = row[s] /\ items'[s] = items[s] /\ progress'[s] = progress[s]
                /\ pc'[s] = pc[s] /\ found'[s] = found[s] /\ reused'[s] = reused[s]
                /\ missing'[s] = missing[s] /\ work'[s] = work[s] /\ current'[s] = current[s]
                /\ \A c \in Runs, d \in Docs : doc'[c][<<s, d>>] = doc[c][<<s, d>>]
           /\ \A c \in Runs : tool[c] # Nothing => tool'[c] # Nothing
<1> USE DEF RunTypes, Goto, Commit, rowVars, collVars, ownVars
<1>1. CASE Create(r)
  BY <1>1 DEF Create
<1>2. CASE Begin(r) \/ MarkProvisioning(r) \/ MarkIngesting(r)
  BY <1>2 DEF Begin, MarkProvisioning, MarkIngesting
<1>3. CASE Find(r)
  BY <1>3 DEF Find
<1>4. CASE Bind(r)
  BY <1>4 DEF Bind, RunsAssumption
<1>5. CASE Register(r)
  BY <1>5 DEF Register, Rows
<1>6. ASSUME NEW d \in Docs, Ingest(r, d)
      PROVE  /\ client' = client
             /\ \A s \in Runs : s # r =>
                  /\ row'[s] = row[s] /\ items'[s] = items[s] /\ progress'[s] = progress[s]
                  /\ pc'[s] = pc[s] /\ found'[s] = found[s] /\ reused'[s] = reused[s]
                  /\ missing'[s] = missing[s] /\ work'[s] = work[s] /\ current'[s] = current[s]
                  /\ \A c \in Runs, e \in Docs : doc'[c][<<s, e>>] = doc[c][<<s, e>>]
             /\ \A c \in Runs : tool[c] # Nothing => tool'[c] # Nothing
  <2>1. PICK st \in {"ready", "failed"} : doc' = [doc EXCEPT ![found[r]][<<r, d>>] = st]
    BY <1>6 DEF Ingest
  <2>2. ASSUME NEW s \in Runs, s # r, NEW c \in Runs, NEW e \in Docs
        PROVE  doc'[c][<<s, e>>] = doc[c][<<s, e>>]
    BY <2>1, <2>2 DEF Rows
  <2>3. QED
    BY <1>6, <2>2 DEF Ingest
<1>7. CASE Provisioned(r)
  BY <1>7 DEF Provisioned
<1>8. CASE CheckProvisioned(r) \/ MarkRunning(r) \/ LoopEnds(r) \/ CheckEvaluated(r)
  BY <1>8 DEF CheckProvisioned, MarkRunning, LoopEnds, CheckEvaluated, Checked
<1>9. ASSUME NEW q \in Queries, Answer(r, q) \/ Collect(r, q)
      PROVE  /\ client' = client
             /\ \A s \in Runs : s # r =>
                  /\ row'[s] = row[s] /\ items'[s] = items[s] /\ progress'[s] = progress[s]
                  /\ pc'[s] = pc[s] /\ found'[s] = found[s] /\ reused'[s] = reused[s]
                  /\ missing'[s] = missing[s] /\ work'[s] = work[s] /\ current'[s] = current[s]
             /\ UNCHANGED <<doc, tool>>
  BY <1>9 DEF Answer, Collect
<1>10. CASE AddItem(r)
  BY <1>10 DEF AddItem
<1>11. CASE Finalize(r) \/ MarkFailed(r) \/ Raise(r) \/ Poison(r)
  BY <1>11 DEF Finalize, MarkFailed, Raise, Poison
<1>12. QED
  BY <1>1, <1>2, <1>3, <1>4, <1>5, <1>6, <1>7, <1>8, <1>9, <1>10, <1>11
     DEF RunAction, RunnerStep

\* A request changes the row of one run, which was made: it is cancelled, unless
\* it is gone, or it is gone with its items.
LEMMA ClientFrame ==
    ASSUME RunTypes, ClientFacts, NEW k \in Clients, ClientStep(k)
    PROVE  /\ UNCHANGED <<progress, pc, tool, doc, found, reused, missing, work, current>>
           /\ \A r \in Runs :
                \/ row'[r] = row[r] /\ items'[r] = items[r]
                \/ /\ row[r] \notin {"unmade", "gone"} /\ row'[r] = "cancelled"
                   /\ items'[r] = items[r]
                \/ row[r] # "unmade" /\ row'[r] = "gone"
<1> USE DEF RunTypes, collVars, ownVars, rowVars
<1>1. CASE CancelWrite(k) \/ DeleteWrite(k)
  <2>1. client[k].run \in Runs /\ row[client[k].run] # "unmade"
    BY <1>1 DEF CancelWrite, DeleteWrite, ClientFacts, Idle
  <2>2. CASE CancelWrite(k)
    BY <2>1, <2>2 DEF CancelWrite
  <2>3. CASE DeleteWrite(k)
    BY <2>1, <2>3 DEF DeleteWrite
  <2>4. QED
    BY <1>1, <2>2, <2>3
<1>2. ASSUME NEW r \in Runs, CancelRead(k, r) \/ DeleteRead(k, r)
      PROVE  UNCHANGED <<row, items, progress, pc, tool, doc, found, reused, missing, work, current>>
  BY <1>2 DEF CancelRead, DeleteRead
<1>3. QED
  BY <1>1, <1>2 DEF ClientStep

\* A request keeps the types, and is about a run that was made.
LEMMA ClientTypes ==
    ASSUME RunTypes, ClientFacts, NEW k \in Clients, ClientStep(k)
    PROVE  RunTypes' /\ ClientFacts'
<1> USE DEF RunTypes, collVars, ownVars, rowVars, Statuses, Active
<1>1. CASE CancelWrite(k) \/ DeleteWrite(k)
  <2>1. client' = [client EXCEPT ![k] = Idle]
    BY <1>1 DEF CancelWrite, DeleteWrite
  <2>2. \A r \in Runs : row'[r] = "unmade" => row[r] = "unmade"
    BY <1>1, ClientFrame DEF ClientStep
  <2>3. ClientFacts'
    BY <2>1, <2>2 DEF ClientFacts
  <2>4. row' \in [Runs -> Statuses \cup {"unmade", "gone"}]
    BY <1>1 DEF CancelWrite, DeleteWrite
  <2>5. items' \in [Runs -> [Queries -> Pipelines \cup {Nothing}]]
    <3>1. [q \in Queries |-> Nothing] \in [Queries -> Pipelines \cup {Nothing}]
      OBVIOUS
    <3>2. UNCHANGED items \/ items' = [items EXCEPT ![client[k].run] = [q \in Queries |-> Nothing]]
      BY <1>1 DEF CancelWrite, DeleteWrite
    <3>3. QED
      BY <3>1, <3>2
  <2>6. QED
    BY <1>1, <2>3, <2>4, <2>5 DEF CancelWrite, DeleteWrite
<1>2. ASSUME NEW r \in Runs, CancelRead(k, r) \/ DeleteRead(k, r)
      PROVE  RunTypes' /\ ClientFacts'
  <2>1. UNCHANGED <<row, items, progress, pc, tool, doc, found, reused, missing, work, current>>
    BY <1>2 DEF CancelRead, DeleteRead
  <2>2. PICK op \in {"cancel", "delete"} : client' = [client EXCEPT ![k] = [op |-> op, run |-> r]]
    BY <1>2 DEF CancelRead, DeleteRead
  <2>3. row[r] # "unmade"
    BY <1>2 DEF CancelRead, DeleteRead
  <2>4. ClientFacts'
    <3> DEFINE q == [op |-> op, run |-> r]
    <3>1. q \in [op : {"cancel", "delete"}, run : Runs] /\ q.run = r
      OBVIOUS
    <3> HIDE DEF q
    <3>2. client' = [client EXCEPT ![k] = q]
      BY <2>2 DEF q
    <3>3. QED
      BY <2>1, <2>3, <3>1, <3>2 DEF ClientFacts
  <2>5. QED
    BY <2>1, <2>4
<1>3. QED
  BY <1>1, <1>2 DEF ClientStep

\* Budgets are only spent: a runner that was lost stays lost, and a poisoned
\* session or a dead process makes it so.
LEMMA BudgetStep ==
    ASSUME RunsAssumption, BudgetType, [Next]_vars
    PROVE  /\ BudgetType' /\ (RunnerLost => RunnerLost')
           /\ Crash \/ (\E r \in Runs : Poison(r)) => RunnerLost'
<1> USE DEF BudgetType, RunnerLost, RunsAssumption
<1>1. ASSUME NEW b \in {"calls", "errors", "faults", "crashes"}, Spend(b)
      PROVE  /\ BudgetType' /\ (RunnerLost => RunnerLost')
             /\ b \in {"faults", "crashes"} => RunnerLost'
  BY <1>1 DEF Spend
<1>2. CASE UNCHANGED budget
  BY <1>2 DEF Poison, Crash, Spend
<1>3. CASE \E r \in Runs : Poison(r) \/ Raise(r)
  BY <1>1, <1>3 DEF Poison, Raise, Crash
<1>4. CASE \E k \in Clients, r \in Runs : CancelRead(k, r) \/ DeleteRead(k, r)
  <2>1. Spend("calls")
    BY <1>4 DEF CancelRead, DeleteRead
  <2>2. ~Crash /\ \A r \in Runs : ~Poison(r)
    BY <2>1 DEF Crash, Poison, Spend
  <2>3. QED
    BY <1>1, <2>1, <2>2
<1>5. CASE Crash
  BY <1>1, <1>5 DEF Crash
<1>6. QED
  BY <1>2, <1>3, <1>4, <1>5 DEF Next, vars, Quiet, Create, RunnerStep, Begin,
     MarkProvisioning, MarkIngesting, Find, Bind, Register, Ingest, Provisioned,
     CheckProvisioned, MarkRunning, Answer, Collect, AddItem, LoopEnds, CheckEvaluated,
     Finalize, MarkFailed, ClientStep, CancelWrite, DeleteWrite

\* The statuses a runner leaves behind.
LEMMA RunnerRows ==
    ASSUME RunsAssumption, RunTypes, BudgetType, CollectionFacts, RowFacts, OutcomeRecorded,
           NEW r \in Runs, RunAction(r)
    PROVE  RowFacts' /\ OutcomeRecorded'
<1> DEFINE Fits == /\ pc'[r] = "idle" <=> row'[r] = "unmade"
                   /\ pc'[r] = "scheduled" => row'[r] \in {"pending", "cancelled", "gone"}
                   /\ row'[r] = "completed" => pc'[r] = "ended"
                   /\ pc'[r] = "ended" => row'[r] \notin Active \/ RunnerLost'
<1>1. RunnerLost => RunnerLost'
  BY BudgetStep DEF RunAction, Next
<1>2. Fits
  <2> USE <1>1 DEF RunTypes, Goto, Commit, Statuses, Active, Working, RowFacts, OutcomeRecorded
  <2>1. CASE Create(r)
    BY <2>1 DEF Create
  <2>2. CASE Begin(r) \/ MarkProvisioning(r) \/ MarkIngesting(r)
    BY <2>2 DEF Begin, MarkProvisioning, MarkIngesting, rowVars
  <2>3. CASE Find(r) \/ Bind(r) \/ Register(r)
    BY <2>3 DEF Find, Bind, Register, rowVars
  <2>4. CASE (\E d \in Docs : Ingest(r, d)) \/ Provisioned(r)
    BY <2>4 DEF Ingest, Provisioned
  <2>5. CASE CheckProvisioned(r) \/ MarkRunning(r) \/ LoopEnds(r) \/ CheckEvaluated(r)
    BY <2>5 DEF CheckProvisioned, MarkRunning, LoopEnds, CheckEvaluated, Checked, rowVars
  <2>6. CASE \E q \in Queries : Answer(r, q) \/ Collect(r, q)
    BY <2>6 DEF Answer, Collect, rowVars
  <2>7. CASE AddItem(r)
    BY <2>7 DEF AddItem
  <2>8. CASE Finalize(r) \/ MarkFailed(r) \/ Raise(r)
    BY <2>8 DEF Finalize, MarkFailed, Raise, rowVars
  <2>9. CASE Poison(r)
    <3>1. RunnerLost'
      BY <2>9, BudgetStep DEF RunAction, Next
    <3>2. QED
      BY <2>9, <3>1 DEF Poison, rowVars
  <2>10. QED
    BY <2>1, <2>2, <2>3, <2>4, <2>5, <2>6, <2>7, <2>8, <2>9 DEF RunAction, RunnerStep
<1>3. QED
  BY <1>1, <1>2, RunnerFrame DEF RowFacts, OutcomeRecorded

\* Every step keeps RowFacts and OutcomeRecorded.
LEMMA RowStep ==
    ASSUME RunsAssumption, RunTypes, BudgetType, ClientFacts, CollectionFacts, RowFacts,
           OutcomeRecorded, [Next]_vars
    PROVE  RowFacts' /\ OutcomeRecorded'
<1>1. BudgetType' /\ (RunnerLost => RunnerLost') /\ (Crash => RunnerLost')
  BY BudgetStep
<1>2. CASE UNCHANGED vars
  BY <1>1, <1>2 DEF vars, RowFacts, OutcomeRecorded
<1>3. ASSUME NEW r \in Runs, RunAction(r) PROVE RowFacts' /\ OutcomeRecorded'
  BY <1>3, RunnerRows
<1>4. ASSUME NEW k \in Clients, ClientStep(k) PROVE RowFacts' /\ OutcomeRecorded'
  BY <1>1, <1>4, ClientFrame DEF RunTypes, RowFacts, OutcomeRecorded, Active
<1>5. CASE Crash
  BY <1>1, <1>5 DEF Crash, rowVars, RunTypes, RowFacts, OutcomeRecorded
<1>6. QED
  BY <1>2, <1>3, <1>4, <1>5 DEF Next, RunAction, Quiet

\* A collection that has no tool yet gets one, and documents, from the run it is
\* named after only.
LEMMA CollectionsOf ==
    ASSUME RunsAssumption, RunTypes, CollectionFacts, NEW r \in Runs, RunAction(r),
           NEW c \in Runs, tool[c] = Nothing
    PROVE  /\ doc'[c] = doc[c]
           /\ tool'[c] # Nothing => c = r /\ Bind(r)
<1> USE DEF RunTypes, CollectionFacts, Unbound, Bound
<1>1. CASE Bind(r)
  BY <1>1 DEF Bind
<1>2. CASE Register(r)
  BY <1>2 DEF Register
<1>3. ASSUME NEW d \in Docs, Ingest(r, d)
      PROVE  doc'[c] = doc[c] /\ tool' = tool
  BY <1>3 DEF Ingest
<1>4. CASE UNCHANGED <<tool, doc>>
  BY <1>4
<1>5. QED
  BY <1>1, <1>2, <1>3, <1>4 DEF RunAction, RunnerStep, Create, Begin, MarkProvisioning,
     MarkIngesting, Find, Provisioned, CheckProvisioned, MarkRunning, Answer, Collect,
     AddItem, LoopEnds, CheckEvaluated, Finalize, MarkFailed, Raise, Poison, collVars

\* When r binds a collection it either takes over one that exists or makes its
\* own, which is empty.
LEMMA BindFacts ==
    ASSUME RunsAssumption, RunTypes, CollectionFacts, NEW r \in Runs, Bind(r)
    PROVE  /\ found'[r] \in Runs /\ tool'[found'[r]] = Retrieval[r] /\ Retrieval[r] # Nothing
           /\ IF reused[r] THEN found'[r] = found[r] ELSE found'[r] = r
           /\ reused'[r] = reused[r] /\ pc'[r] = "register" /\ doc' = doc
           /\ missing'[r] = Sample[r] \ Present(found'[r])
           /\ ~reused[r] => missing'[r] = Sample[r]
           /\ \A c \in Runs : c # found'[r] => tool'[c] = tool[c]
<1>1. /\ pc[r] = "bind" /\ (reused[r] <=> found[r] # Nothing)
      /\ tool[r] = Nothing => \A w \in Rows : doc[r][w] = Nothing
      /\ tool[r] = Nothing
  BY DEF Bind, CollectionFacts, Unbound
<1>2. /\ found' = [found EXCEPT ![r] = IF found[r] = Nothing THEN r ELSE @]
      /\ tool' = [tool EXCEPT ![found'[r]] = Retrieval[r]]
      /\ missing' = [missing EXCEPT ![r] = Sample[r] \ Present(found'[r])]
      /\ pc' = [pc EXCEPT ![r] = "register"] /\ UNCHANGED <<reused, doc>>
  BY DEF Bind, Goto
<1>3. found'[r] \in Runs /\ IF found[r] # Nothing THEN found'[r] = found[r] ELSE found'[r] = r
  BY <1>2 DEF RunTypes
<1>4. missing'[r] = Sample[r] \ Present(found'[r])
  BY <1>2 DEF RunTypes
<1>5. ASSUME ~reused[r] PROVE missing'[r] = Sample[r]
  <2>1. found'[r] = r /\ \A s \in Runs, d \in Docs : doc[r][<<s, d>>] = Nothing
    BY <1>1, <1>3, <1>5 DEF Rows
  <2>2. Present(found'[r]) = {}
    BY <2>1 DEF Present
  <2>3. QED
    BY <1>4, <2>2
<1>6. QED
  BY <1>1, <1>2, <1>3, <1>4, <1>5 DEF RunTypes, RunsAssumption

\* Where a runner goes: it binds before it registers, registers before it
\* ingests, provisions before it evaluates, and never goes back.
LEMMA Phases ==
    ASSUME RunTypes, RowFacts, NEW r \in Runs, RunAction(r)
    PROVE  /\ pc'[r] \in Unbound => pc[r] \in Unbound
           /\ pc'[r] = "register" => pc[r] = "register" \/ Bind(r)
           /\ pc'[r] = "ingest" => pc[r] = "ingest" \/ Register(r)
           /\ pc'[r] \in {"check", "mark"} => pc[r] \in {"check", "mark"} \/ Provisioned(r)
           /\ pc'[r] \in Evaluating => pc[r] \in Evaluating \/ MarkRunning(r)
           /\ pc[r] = "ended" => pc'[r] = "ended"
           /\ pc[r] # "idle" => pc'[r] # "idle"
<1> USE DEF RunTypes, Goto, Commit, Checked, Unbound, Evaluating, Working
<1>1. CASE Create(r)
  BY <1>1 DEF Create, RowFacts
<1>2. CASE Begin(r) \/ MarkProvisioning(r) \/ MarkIngesting(r) \/ Find(r)
  BY <1>2 DEF Begin, MarkProvisioning, MarkIngesting, Find
<1>3. CASE Bind(r)
  BY <1>3 DEF Bind
<1>4. CASE Register(r) \/ \E d \in Docs : Ingest(r, d)
  BY <1>4, ZenonT(60) DEF Register, Ingest
<1>5. CASE Provisioned(r) \/ CheckProvisioned(r)
  BY <1>5 DEF Provisioned, CheckProvisioned
<1>6. CASE MarkRunning(r) \/ \E q \in Queries : Answer(r, q) \/ Collect(r, q)
  BY <1>6 DEF MarkRunning, Answer, Collect
<1>7. CASE AddItem(r) \/ LoopEnds(r) \/ CheckEvaluated(r)
  BY <1>7 DEF AddItem, LoopEnds, CheckEvaluated
<1>8. CASE Finalize(r) \/ MarkFailed(r) \/ Raise(r) \/ Poison(r)
  BY <1>8 DEF Finalize, MarkFailed, Raise, Poison
<1>9. QED
  BY <1>1, <1>2, <1>3, <1>4, <1>5, <1>6, <1>7, <1>8 DEF RunAction, RunnerStep

\* A runner keeps CollectionFacts.
LEMMA RunnerCollections ==
    ASSUME RunsAssumption, RunTypes, RowFacts, CollectionFacts, NEW r \in Runs, RunAction(r)
    PROVE  CollectionFacts'
<1>1. ASSUME NEW c \in Runs, tool'[c] = Nothing, NEW w \in Rows PROVE doc'[c][w] = Nothing
  <2>1. tool[c] = Nothing
    BY <1>1, RunnerFrame
  <2>2. QED
    BY <1>1, <2>1, CollectionsOf DEF CollectionFacts
<1>2. ASSUME NEW s \in Runs, pc'[s] \in Unbound
      PROVE  /\ tool'[s] = Nothing
             /\ reused'[s] <=> found'[s] # Nothing
             /\ found'[s] # Nothing => pc'[s] = "bind" /\ tool'[found'[s]] # Nothing
  <2>1. CASE s = r
    <3> USE DEF RunTypes, CollectionFacts, Unbound, Goto, Commit, Collections
    <3>1. CASE Create(r)
      BY <1>2, <2>1, <3>1 DEF Create, collVars, ownVars, RowFacts
    <3>2. CASE Begin(r) \/ MarkProvisioning(r) \/ MarkIngesting(r)
      BY <1>2, <2>1, <3>2 DEF Begin, MarkProvisioning, MarkIngesting, collVars, ownVars
    <3>3. CASE Find(r)
      <4>1. CASE UNCHANGED <<found, reused>>
        BY <1>2, <2>1, <3>3, <4>1 DEF Find, collVars
      <4>2. ASSUME NEW c \in Collections, found' = [found EXCEPT ![r] = c],
                   reused' = [reused EXCEPT ![r] = TRUE]
            PROVE  /\ tool'[s] = Nothing
                   /\ reused'[s] <=> found'[s] # Nothing
                   /\ found'[s] # Nothing => pc'[s] = "bind" /\ tool'[found'[s]] # Nothing
        <5>1. c \in Runs /\ c # Nothing /\ tool[c] # Nothing
          BY RunsAssumption DEF RunsAssumption
        <5>2. found'[s] = c /\ reused'[s] = TRUE /\ pc'[s] = "bind" /\ tool' = tool /\ tool[s] = Nothing
          BY <2>1, <3>3, <4>2 DEF Find, collVars
        <5>3. QED
          BY <5>1, <5>2
      <4>3. QED
        BY <3>3, <4>1, <4>2 DEF Find
    <3>4. CASE Bind(r)
      BY <1>2, <2>1, <3>4, BindFacts
    <3>5. CASE pc[r] \notin Unbound
      BY <1>2, <2>1, <3>5, Phases
    <3>6. CASE Raise(r) \/ Poison(r)
      BY <1>2, <2>1, <3>6 DEF Raise, Poison
    <3>7. QED
      BY <3>1, <3>2, <3>3, <3>4, <3>5, <3>6 DEF RunAction, RunnerStep, Register, Ingest,
         Provisioned, CheckProvisioned, MarkRunning, Answer, Collect, AddItem, LoopEnds,
         CheckEvaluated, Finalize, MarkFailed
  <2>2. CASE s # r
    <3>1. pc'[s] = pc[s] /\ found'[s] = found[s] /\ reused'[s] = reused[s]
      BY <2>2, RunnerFrame
    <3>2. tool'[s] = Nothing
      BY <1>2, <2>2, <3>1, CollectionsOf DEF CollectionFacts
    <3>3. found[s] # Nothing => found[s] \in Runs /\ tool[found[s]] # Nothing
      BY <1>2, <3>1 DEF RunTypes, CollectionFacts
    <3>4. QED
      BY <1>2, <3>1, <3>2, <3>3, RunnerFrame DEF CollectionFacts
  <2>3. QED
    BY <2>1, <2>2
<1>3. ASSUME NEW s \in Runs, pc'[s] \in Bound
      PROVE  /\ found'[s] \in Runs /\ tool'[found'[s]] # Nothing
             /\ missing'[s] \subseteq Sample[s]
             /\ reused'[s] \/ missing'[s] = Sample[s]
  <2>1. CASE s = r /\ Bind(r)
    BY <2>1, BindFacts
  <2>2. CASE s = r /\ pc[r] \in Bound
    <3>1. UNCHANGED <<found, missing, reused>>
      BY <2>2 DEF RunAction, RunnerStep, Create, Begin, MarkProvisioning,
         MarkIngesting, Find, Bind, Register, Ingest, Provisioned, CheckProvisioned,
         MarkRunning, Answer, Collect, AddItem, LoopEnds, CheckEvaluated, Finalize,
         MarkFailed, Raise, Poison, ownVars, Bound, Provided, Evaluating
    <3>2. QED
      BY <2>2, <3>1, RunnerFrame DEF CollectionFacts
  <2>3. CASE s = r /\ ~Bind(r) /\ pc[r] \notin Bound
    BY <1>3, <2>3, ZenonT(60) DEF RunAction, RunnerStep, Create, Begin, MarkProvisioning,
       MarkIngesting, Find, Register, Ingest, Provisioned, CheckProvisioned,
       MarkRunning, Answer, Collect, AddItem, LoopEnds, CheckEvaluated, Finalize,
       MarkFailed, Raise, Poison, Goto, Commit, RunTypes, Bound, Provided, Evaluating
  <2>4. CASE s # r
    BY <1>3, <2>4, RunnerFrame DEF CollectionFacts
  <2>5. QED
    BY <2>1, <2>2, <2>3, <2>4
<1>4. QED
  BY <1>1, <1>2, <1>3 DEF CollectionFacts

\* Every step does.
LEMMA CollectionStep ==
    ASSUME RunsAssumption, RunTypes, ClientFacts, RowFacts, CollectionFacts, [Next]_vars
    PROVE  CollectionFacts'
<1>1. CASE UNCHANGED <<pc, collVars, ownVars>>
  BY <1>1 DEF collVars, ownVars, CollectionFacts
<1>2. ASSUME NEW r \in Runs, RunAction(r) PROVE CollectionFacts'
  BY <1>2, RunnerCollections
<1>3. ASSUME NEW k \in Clients, ClientStep(k) PROVE CollectionFacts'
  BY <1>3, ClientFrame DEF CollectionFacts
<1>4. CASE Crash
  <2>1. \A r \in Runs : pc'[r] = pc[r] \/ pc'[r] = "ended"
    BY <1>4 DEF Crash, RunTypes
  <2>2. UNCHANGED <<collVars, ownVars>>
    BY <1>4 DEF Crash
  <2>3. QED
    BY <2>1, <2>2 DEF CollectionFacts, collVars, ownVars, Unbound, Bound, Provided, Evaluating
<1>5. QED
  BY <1>1, <1>2, <1>3, <1>4 DEF Next, RunAction, Quiet, vars, collVars, ownVars

\* What r does to the documents it registered.
LEMMA OwnDocuments ==
    ASSUME RunsAssumption, RunTypes, CollectionFacts, NEW r \in Runs, RunAction(r)
    PROVE  /\ Register(r) \/ (\E d \in Docs : Ingest(r, d)) \/ UNCHANGED doc
           /\ Register(r) => \A d \in Docs :
                doc'[found[r]][<<r, d>>] = IF d \in missing[r] THEN "pending"
                                           ELSE doc[found[r]][<<r, d>>]
           /\ \A d \in Docs : Ingest(r, d) =>
                /\ found[r] \in Runs
                /\ doc[found[r]][<<r, d>>] = "pending"
                /\ doc'[found[r]][<<r, d>>] \in {"ready", "failed"}
                /\ \A e \in Docs : e # d => doc'[found[r]][<<r, e>>] = doc[found[r]][<<r, e>>]
<1>1. CASE Register(r)
  <2>1. found[r] \in Runs
    BY <1>1 DEF Register, CollectionFacts, Bound
  <2>2. doc'[found[r]] = [w \in Rows |-> IF w[1] = r /\ w[2] \in missing[r] THEN "pending"
                                         ELSE doc[found[r]][w]]
    BY <1>1, <2>1 DEF Register, RunTypes
  <2>3. ASSUME NEW d \in Docs
        PROVE  doc'[found[r]][<<r, d>>] = IF d \in missing[r] THEN "pending"
                                          ELSE doc[found[r]][<<r, d>>]
    BY <2>2 DEF Rows
  <2>4. \A d \in Docs : ~Ingest(r, d)
    BY <1>1 DEF Register, Ingest
  <2>5. QED
    BY <1>1, <2>3, <2>4
<1>2. ASSUME NEW d \in Docs, Ingest(r, d)
      PROVE  /\ doc[found[r]][<<r, d>>] = "pending" /\ found[r] \in Runs
             /\ doc'[found[r]][<<r, d>>] \in {"ready", "failed"}
             /\ \A e \in Docs : e # d => doc'[found[r]][<<r, e>>] = doc[found[r]][<<r, e>>]
  <2>1. PICK st \in {"ready", "failed"} : doc' = [doc EXCEPT ![found[r]][<<r, d>>] = st]
    BY <1>2 DEF Ingest
  <2>2. found[r] \in Runs /\ doc[found[r]][<<r, d>>] = "pending"
    BY <1>2 DEF Ingest, CollectionFacts, Bound
  <2>3. QED
    BY <2>1, <2>2 DEF RunTypes, Rows
<1>3. QED
  BY <1>1, <1>2 DEF RunAction, RunnerStep, Create, Begin, MarkProvisioning, MarkIngesting,
     Find, Bind, Provisioned, CheckProvisioned, MarkRunning, Answer, Collect, AddItem,
     LoopEnds, CheckEvaluated, Finalize, MarkFailed, Raise, Poison, collVars

\* A runner that is not about to bind keeps what provisioning decided.
LEMMA DecidedStays ==
    ASSUME RunTypes, NEW r \in Runs, RunAction(r), pc[r] \in Bound
    PROVE  UNCHANGED <<found, reused, missing>>
BY DEF RunAction, RunnerStep, Create, Begin, MarkProvisioning,
   MarkIngesting, Find, Bind, Register, Ingest, Provisioned, CheckProvisioned,
   MarkRunning, Answer, Collect, AddItem, LoopEnds, CheckEvaluated, Finalize,
   MarkFailed, Raise, Poison, ownVars, Bound, Provided, Evaluating

\* A runner keeps RegisteredFacts.
LEMMA RunnerRegisters ==
    ASSUME RunsAssumption, RunTypes, RowFacts, CollectionFacts, RegisteredFacts,
           NEW r \in Runs, RunAction(r)
    PROVE  RegisteredFacts'
<1>1. ASSUME pc'[r] \in Unregistered, NEW c \in Runs, NEW d \in Docs
      PROVE  doc'[c][<<r, d>>] = Nothing
  <2>1. pc[r] \in Unregistered
    BY <1>1, Phases DEF Unregistered, Unbound, Bind
  <2>2. UNCHANGED doc
    <3>1. ~Register(r)
      BY <1>1 DEF Register, Goto, RunTypes, Unregistered, Unbound
    <3>2. ~\E e \in Docs : Ingest(r, e)
      BY <2>1 DEF Ingest, Unregistered, Unbound
    <3>3. QED
      BY <3>1, <3>2, OwnDocuments
  <2>3. QED
    BY <2>1, <2>2 DEF RegisteredFacts
<1>2. ASSUME pc'[r] \in Bound \ {"register"}, NEW d \in Docs
      PROVE  doc'[found'[r]][<<r, d>>] # Nothing <=> d \in missing'[r]
  <2>1. pc[r] \in Bound /\ (pc[r] = "register" => Register(r))
    BY <1>2, Phases DEF Bound, Provided, Evaluating, Register, Provisioned, MarkRunning
  <2>2. UNCHANGED <<found, missing>>
    BY <2>1, DecidedStays
  <2>3. CASE Register(r)
    <3>1. /\ found[r] \in Runs /\ doc[found[r]][<<r, d>>] = Nothing
      BY <2>3 DEF Register, RegisteredFacts, Unregistered, CollectionFacts, Bound
    <3>2. QED
      BY <2>2, <2>3, <3>1, OwnDocuments DEF Nothing
  <2>4. CASE ~Register(r)
    <3>1. doc[found[r]][<<r, d>>] # Nothing <=> d \in missing[r]
      BY <2>1, <2>4 DEF RegisteredFacts
    <3>2. doc'[found[r]][<<r, d>>] # Nothing <=> doc[found[r]][<<r, d>>] # Nothing
      BY <2>4, OwnDocuments DEF Nothing
    <3>3. QED
      BY <2>2, <3>1, <3>2
  <2>5. QED
    BY <2>3, <2>4
<1>3. ASSUME pc'[r] \in Provided, NEW d \in missing'[r]
      PROVE  doc'[found'[r]][<<r, d>>] # "pending"
  <2>1. pc[r] \in Provided \/ Provisioned(r)
    BY <1>3, Phases DEF Provided, Evaluating, MarkRunning
  <2>2. pc[r] \in Bound /\ ~Register(r) /\ (pc[r] = "ingest" => ~\E e \in Docs : Ingest(r, e))
    <3>1. pc[r] \in Bound /\ ~Register(r)
      BY <2>1 DEF Bound, Provided, Evaluating, Provisioned, Register
    <3>2. ASSUME NEW e \in Docs, Ingest(r, e) PROVE pc'[r] \in {"ingest", "ended"}
      BY <3>2 DEF Ingest, Commit, Goto, RunTypes
    <3>3. QED
      BY <1>3, <3>1, <3>2 DEF Provided, Evaluating
  <2>3. UNCHANGED <<found, missing>> /\ UNCHANGED doc
    <3>1. ~\E e \in Docs : Ingest(r, e)
      BY <2>1, <2>2 DEF Ingest, Provided, Evaluating, Provisioned
    <3>2. QED
      BY <2>2, <3>1, DecidedStays, OwnDocuments
  <2>4. QED
    BY <1>3, <2>1, <2>3 DEF RegisteredFacts, Provisioned
<1>4. ASSUME NEW s \in Runs, s # r
      PROVE  /\ pc'[s] = pc[s] /\ found'[s] = found[s] /\ missing'[s] = missing[s]
             /\ \A c \in Runs, d \in Docs : doc'[c][<<s, d>>] = doc[c][<<s, d>>]
  BY <1>4, RunnerFrame
<1>5. ASSUME NEW s \in Runs, pc[s] \in Bound
      PROVE  found[s] \in Runs /\ missing[s] \subseteq Docs
  BY <1>5 DEF CollectionFacts, RunTypes
<1>6. Provided \subseteq Bound
  BY DEF Bound, Provided
<1>7. QED
  BY <1>1, <1>2, <1>3, <1>4, <1>5, <1>6 DEF RegisteredFacts

\* Every step does.
LEMMA RegisteredStep ==
    ASSUME RunsAssumption, RunTypes, ClientFacts, RowFacts, CollectionFacts, RegisteredFacts,
           [Next]_vars
    PROVE  RegisteredFacts'
<1>1. CASE UNCHANGED <<pc, collVars, ownVars>>
  BY <1>1 DEF collVars, ownVars, RegisteredFacts
<1>2. ASSUME NEW r \in Runs, RunAction(r) PROVE RegisteredFacts'
  BY <1>2, RunnerRegisters
<1>3. ASSUME NEW k \in Clients, ClientStep(k) PROVE RegisteredFacts'
  BY <1>3, ClientFrame DEF RegisteredFacts
<1>4. CASE Crash
  <2>1. \A r \in Runs : pc'[r] = pc[r] \/ pc'[r] = "ended"
    BY <1>4 DEF Crash, RunTypes
  <2>2. UNCHANGED <<collVars, ownVars>>
    BY <1>4 DEF Crash
  <2>3. QED
    BY <2>1, <2>2 DEF RegisteredFacts, collVars, ownVars, Unregistered, Unbound, Bound,
       Provided, Evaluating
<1>5. QED
  BY <1>1, <1>2, <1>3, <1>4 DEF Next, RunAction, Quiet, vars, collVars, ownVars

\* A row that is gone stays gone.
LEMMA GoneStays ==
    ASSUME RunTypes, NEW r \in Runs, RunAction(r), row[r] = "gone"
    PROVE  row'[r] = "gone"
BY DEF RunTypes, RunAction, RunnerStep, Create, Begin, MarkProvisioning,
   MarkIngesting, Find, Bind, Register, Ingest, Provisioned, CheckProvisioned,
   MarkRunning, Answer, Collect, AddItem, LoopEnds, CheckEvaluated, Finalize,
   MarkFailed, Raise, Poison, rowVars, Commit, Goto

\* Items are added by AddItem only: one more query is collected.
LEMMA AddFacts ==
    ASSUME RunsAssumption, RunTypes, CollectedFacts, NEW r \in Runs, AddItem(r), row[r] # "gone"
    PROVE  /\ progress'[r] = progress[r] + 1
           /\ Collected(r)' = Collected(r) \cup {current[r]}
           /\ current[r] \in Queries \ Collected(r)
           /\ Cardinality(Collected(r)') = Cardinality(Collected(r)) + 1
           /\ Cardinality(Collected(r)) \in Nat
<1>1. /\ current[r] \in Queries \ Collected(r) /\ work[r][current[r]] # Nothing
      /\ items[r] \in [Queries -> Pipelines \cup {Nothing}]
  BY DEF AddItem, CollectedFacts, RunTypes
<1>2. /\ progress'[r] = progress[r] + 1
      /\ items' = [items EXCEPT ![r] = [items[r] EXCEPT ![current[r]] = work[r][current[r]]]]
  BY DEF AddItem, RunTypes
<1>3. items'[r] = [items[r] EXCEPT ![current[r]] = work[r][current[r]]]
  BY <1>2 DEF RunTypes
<1>4. \A q \in Queries : items'[r][q] = IF q = current[r] THEN work[r][current[r]] ELSE items[r][q]
  BY <1>1, <1>3
<1>5. Collected(r)' = Collected(r) \cup {current[r]}
  BY <1>1, <1>4 DEF Collected
<1>6. IsFiniteSet(Collected(r)) /\ Cardinality(Collected(r)) \in Nat
  BY FS_Subset, FS_CardinalityType DEF RunsAssumption, Collected
<1>7. Cardinality(Collected(r)') = Cardinality(Collected(r)) + 1
  BY <1>1, <1>5, <1>6, FS_AddElement
<1>8. QED
  BY <1>1, <1>2, <1>5, <1>6, <1>7

\* No other step of the runner touches the items.
LEMMA ItemsStay ==
    ASSUME NEW r \in Runs, RunAction(r), ~AddItem(r)
    PROVE  items' = items
BY DEF RunAction, RunnerStep, Create, Begin, MarkProvisioning,
   MarkIngesting, Find, Bind, Register, Ingest, Provisioned, CheckProvisioned,
   MarkRunning, Answer, Collect, LoopEnds, CheckEvaluated, Finalize,
   MarkFailed, Raise, Poison, rowVars

\* What is collected, or about to be, as a runner goes on.
LEMMA RunnerCollects ==
    ASSUME RunsAssumption, RunTypes, RowFacts, CollectionFacts, CollectedFacts,
           NEW r \in Runs, RunAction(r)
    PROVE  CollectedFacts'
<1>1. ASSUME row'[r] # "gone"
      PROVE  /\ pc'[r] \in Unregistered \cup {"ingest", "check", "mark"} => Collected(r)' = {}
             /\ pc'[r] = "add" => current'[r] \in Queries \ Collected(r)' /\ work'[r][current'[r]] # Nothing
             /\ pc'[r] = "last" => Collected(r)' = Queries \/ row'[r] = "cancelled"
             /\ pc'[r] = "finalize" \/ row'[r] = "completed" => Collected(r)' = Queries
  <2>1. row[r] # "gone"
    BY <1>1, GoneStays
  <2>2. CASE AddItem(r)
    BY <2>1, <2>2 DEF AddItem, RunTypes, Commit, Goto, Unregistered, Unbound, RowFacts
  <2>3. CASE ~AddItem(r)
    <3>1. Collected(r)' = Collected(r)
      BY <2>3, ItemsStay DEF Collected
    <3>2. pc'[r] \in Unregistered \cup {"ingest", "check", "mark"} =>
            pc[r] \in Unregistered \cup {"ingest", "check", "mark"}
      BY Phases DEF Unregistered, Bind, Register, Provisioned, Unbound
    <3>3. pc'[r] = "add" => current'[r] \in Queries \ Collected(r) /\ work'[r][current'[r]] # Nothing
      <4>1. CASE \E q \in Queries : Collect(r, q)
        BY <2>1, <4>1 DEF Collect, RunTypes, Goto
      <4>2. CASE \E q \in Queries : Answer(r, q)
        <5>1. PICK q \in Queries : Answer(r, q)
          BY <4>2
        <5>2. /\ work[r][q] = Nothing /\ UNCHANGED <<pc, current>>
              /\ work' = [work EXCEPT ![r][q] = tool[found[r]]]
          BY <5>1 DEF Answer
        <5>3. ASSUME pc[r] = "add" PROVE work'[r][current[r]] # Nothing /\ current[r] \in Queries \ Collected(r)
          <6>1. current[r] \in Queries \ Collected(r) /\ work[r][current[r]] # Nothing
            BY <2>1, <5>3 DEF CollectedFacts
          <6>2. current[r] # q
            BY <5>2, <6>1
          <6>3. work'[r][current[r]] = work[r][current[r]]
            BY <5>2, <6>1, <6>2 DEF RunTypes
          <6>4. QED
            BY <6>1, <6>3
        <5>4. QED
          BY <5>2, <5>3
      <4>3. CASE ~\E q \in Queries : Collect(r, q) \/ Answer(r, q)
        <5>1. pc'[r] # "add" \/ pc[r] = "add"
          BY <2>3, <4>3 DEF RunAction, RunnerStep, Create, Begin, MarkProvisioning,
             MarkIngesting, Find, Bind, Register, Ingest, Provisioned, CheckProvisioned, Checked,
             MarkRunning, LoopEnds, CheckEvaluated, Finalize,
             MarkFailed, Raise, Poison, Commit, Goto, RunTypes
        <5>2. pc[r] = "add" => pc'[r] # "add"
          BY <2>3, <4>3 DEF RunAction, RunnerStep, Create, Begin, MarkProvisioning, RowFacts,
             MarkIngesting, Find, Bind, Register, Ingest, Provisioned, CheckProvisioned, Checked,
             MarkRunning, LoopEnds, CheckEvaluated, Finalize,
             MarkFailed, Raise, Poison, Commit, Goto, RunTypes
        <5>3. QED
          BY <5>1, <5>2
      <4>4. QED
        BY <4>1, <4>2, <4>3
    <3>4. pc'[r] = "last" => Collected(r) = Queries \/ row'[r] = "cancelled"
      <4>1. CASE LoopEnds(r)
        BY <4>1 DEF LoopEnds
      <4>2. ASSUME NEW q \in Queries, Collect(r, q), pc'[r] = "last" PROVE row'[r] = "cancelled"
        BY <2>1, <4>2 DEF Collect, Goto, RunTypes, rowVars
      <4>3. ASSUME NEW q \in Queries, Answer(r, q), pc'[r] = "last"
            PROVE Collected(r) = Queries \/ row'[r] = "cancelled"
        BY <2>1, <4>3 DEF Answer, CollectedFacts, rowVars
      <4>4. ASSUME ~LoopEnds(r), ~\E q \in Queries : Collect(r, q) \/ Answer(r, q)
            PROVE  pc'[r] # "last"
        BY <2>3, <4>4 DEF RunAction, RunnerStep, Create, Begin, MarkProvisioning, RowFacts,
           MarkIngesting, Find, Bind, Register, Ingest, Provisioned, CheckProvisioned, Checked,
           MarkRunning, CheckEvaluated, Finalize,
           MarkFailed, Raise, Poison, Commit, Goto, RunTypes
      <4>5. QED
        BY <4>1, <4>2, <4>3, <4>4
    <3>5. pc'[r] = "finalize" => Collected(r) = Queries
      <4>1. CASE CheckEvaluated(r)
        BY <2>1, <4>1 DEF CheckEvaluated, Checked, Goto, CollectedFacts, RunTypes
      <4>2. CASE ~CheckEvaluated(r)
        <5>1. pc'[r] # "finalize"
          BY <2>3, <4>2 DEF RunAction, RunnerStep, Create, Begin, MarkProvisioning, RowFacts,
             MarkIngesting, Find, Bind, Register, Ingest, Provisioned, CheckProvisioned, Checked,
             MarkRunning, LoopEnds, Answer, Collect, Finalize,
             MarkFailed, Raise, Poison, Commit, Goto, RunTypes
        <5>2. QED
          BY <5>1
      <4>3. QED
        BY <4>1, <4>2
    <3>6. row'[r] = "completed" => Collected(r) = Queries
      <4>1. CASE Finalize(r)
        BY <2>1, <4>1 DEF Finalize, CollectedFacts
      <4>2. CASE ~Finalize(r)
        <5>1. row'[r] = "completed" => row[r] = "completed"
          BY <2>3, <4>2 DEF RunAction, RunnerStep, Create, Begin, MarkProvisioning,
             MarkIngesting, Find, Bind, Register, Ingest, Provisioned, CheckProvisioned, rowVars,
             MarkRunning, LoopEnds, CheckEvaluated, Answer, Collect,
             MarkFailed, Raise, Poison, Commit, RunTypes
        <5>2. QED
          BY <2>1, <5>1 DEF CollectedFacts
      <4>3. QED
        BY <4>1, <4>2
    <3>7. QED
      BY <2>1, <3>1, <3>2, <3>3, <3>4, <3>5, <3>6 DEF CollectedFacts
  <2>4. QED
    BY <2>2, <2>3
<1>2. ASSUME NEW s \in Runs, s # r
      PROVE  /\ pc'[s] = pc[s] /\ row'[s] = row[s] /\ Collected(s)' = Collected(s)
             /\ current'[s] = current[s] /\ work'[s] = work[s]
  BY <1>2, RunnerFrame DEF Collected
<1>3. QED
  BY <1>1, <1>2 DEF CollectedFacts

\* Every step keeps CollectedFacts.
LEMMA CollectedStep ==
    ASSUME RunsAssumption, RunTypes, ClientFacts, RowFacts, CollectionFacts, CollectedFacts,
           [Next]_vars
    PROVE  CollectedFacts'
<1>1. CASE UNCHANGED vars
  BY <1>1 DEF vars, CollectedFacts, Collected
<1>2. ASSUME NEW r \in Runs, RunAction(r) PROVE CollectedFacts'
  BY <1>2, RunnerCollects
<1>3. ASSUME NEW k \in Clients, ClientStep(k) PROVE CollectedFacts'
  <2>1. UNCHANGED <<pc, work, current>>
    BY <1>3, ClientFrame
  <2>2. ASSUME NEW r \in Runs, row'[r] # "gone"
        PROVE  /\ row[r] # "gone" /\ Collected(r)' = Collected(r)
               /\ row'[r] \in {row[r], "cancelled"}
    BY <1>3, <2>2, ClientFrame DEF Collected
  <2>3. QED
    BY <2>1, <2>2 DEF CollectedFacts
<1>4. CASE Crash
  <2>1. \A r \in Runs : pc'[r] = pc[r] \/ pc'[r] = "ended"
    BY <1>4 DEF Crash, RunTypes
  <2>2. UNCHANGED <<rowVars, ownVars>>
    BY <1>4 DEF Crash
  <2>3. QED
    BY <2>1, <2>2 DEF CollectedFacts, Collected, rowVars, ownVars, Unregistered, Unbound
<1>5. QED
  BY <1>1, <1>2, <1>3, <1>4 DEF Next, RunAction, Quiet

\* Ingesting one more document of r's own counts one more.
LEMMA IngestFacts ==
    ASSUME RunsAssumption, RunTypes, CollectionFacts, RegisteredFacts, NEW r \in Runs,
           NEW d \in Docs, Ingest(r, d)
    PROVE  /\ Cardinality(Ingested(r)') = Cardinality(Ingested(r)) + 1
           /\ Cardinality(Ingested(r)) \in Nat
           /\ Cardinality(Ingested(r)') <= Cardinality(Sample[r])
<1>1. /\ UNCHANGED <<found, missing>> /\ pc[r] = "ingest" /\ found[r] \in Runs
      /\ missing[r] \subseteq Sample[r]
  BY DEF Ingest, ownVars, CollectionFacts, Bound
<1>2. /\ doc[found[r]][<<r, d>>] = "pending"
      /\ doc'[found[r]][<<r, d>>] # "pending"
      /\ \A e \in Docs : e # d => doc'[found[r]][<<r, e>>] = doc[found[r]][<<r, e>>]
  BY OwnDocuments DEF RunAction, RunnerStep
<1>3. d \in missing[r]
  BY <1>1, <1>2 DEF RegisteredFacts, Bound, Nothing
<1>4. Ingested(r)' = Ingested(r) \cup {d} /\ d \notin Ingested(r)
  BY <1>1, <1>2, <1>3, Sizes DEF Ingested
<1>5. /\ IsFiniteSet(Ingested(r)) /\ Cardinality(Ingested(r)) \in Nat
  BY <1>1, Sizes, FS_Subset, FS_CardinalityType DEF Ingested
<1>6. Cardinality(Ingested(r)') = Cardinality(Ingested(r)) + 1
  BY <1>4, <1>5, FS_AddElement
<1>7. Ingested(r)' \subseteq Sample[r]
  BY <1>1 DEF Ingested
<1>8. Cardinality(Ingested(r)') <= Cardinality(Sample[r])
  BY <1>7, Sizes, FS_Subset
<1>9. QED
  BY <1>5, <1>6, <1>8

\* A runner that leaves provisioning has its whole sample counted.
LEMMA ProvisionedFacts ==
    ASSUME RunsAssumption, RunTypes, CollectionFacts, ProgressFacts, NEW r \in Runs,
           Provisioned(r), row[r] # "gone"
    PROVE  progress'[r] = Cardinality(Sample[r])
<1>1. pc[r] = "ingest" /\ progress[r] = Cardinality(Ingested(r))
  BY DEF Provisioned, ProgressFacts
<1>2. CASE reused[r]
  BY <1>2 DEF Provisioned, RunTypes
<1>3. CASE ~reused[r]
  <2>1. missing[r] = Sample[r] /\ missing[r] \subseteq Docs
    BY <1>1, <1>3 DEF CollectionFacts, Bound, RunTypes
  <2>2. Ingested(r) = Sample[r]
    BY <2>1 DEF Provisioned, Ingested
  <2>3. progress'[r] = progress[r]
    BY <1>3 DEF Provisioned, RunTypes
  <2>4. QED
    BY <1>1, <2>2, <2>3
<1>4. QED
  BY <1>2, <1>3

\* Nothing else moves the progress bar.
LEMMA ProgressStays ==
    ASSUME RunTypes, NEW r \in Runs, RunAction(r),
           row[r] = "gone" \/ (~AddItem(r) /\ ~Provisioned(r) /\ ~\E d \in Docs : Ingest(r, d))
    PROVE  progress'[r] = progress[r]
<1>1. CASE AddItem(r) \/ Provisioned(r) \/ \E d \in Docs : Ingest(r, d)
  BY <1>1 DEF AddItem, Provisioned, Ingest, RunTypes
<1>2. CASE ~(AddItem(r) \/ Provisioned(r) \/ \E d \in Docs : Ingest(r, d))
  BY <1>2 DEF RunAction, RunnerStep, Create, Begin, MarkProvisioning,
   MarkIngesting, Find, Bind, Register, CheckProvisioned,
   MarkRunning, Answer, Collect, LoopEnds, CheckEvaluated, Finalize,
   MarkFailed, Raise, Poison, rowVars
<1>3. QED
  BY <1>1, <1>2

\* A runner keeps ProgressFacts and fills no bar beyond its end.
LEMMA RunnerProgresses ==
    ASSUME RunsAssumption, TypeOK, RowFacts, CollectionFacts, RegisteredFacts, ProgressFacts,
           CollectedFacts, NEW r \in Runs, RunAction(r)
    PROVE  ProgressFacts' /\ \A s \in Runs : progress'[s] <= Total(s)
<1> USE DEF TypeOK
<1>0. Cardinality(Sample[r]) \in Nat /\ Cardinality(Queries) \in Nat
  BY Sizes
<1>4. ASSUME NEW s \in Runs, s # r
      PROVE  /\ pc'[s] = pc[s] /\ row'[s] = row[s] /\ Collected(s)' = Collected(s)
             /\ progress'[s] = progress[s]
             /\ pc[s] = "ingest" => Ingested(s)' = Ingested(s)
  <2>1. pc[s] = "ingest" => found[s] \in Runs /\ missing[s] \subseteq Docs
    BY DEF CollectionFacts, Bound, RunTypes
  <2>2. QED
    BY <1>4, <2>1, RunnerFrame DEF Collected, Ingested
<1>1. CASE row[r] = "gone"
  <2>1. row'[r] = "gone" /\ progress'[r] = progress[r]
    BY <1>1, GoneStays, ProgressStays
  <2>2. \A s \in Runs : progress'[s] <= Total(s)
    BY <1>4, <2>1
  <2>3. ProgressFacts'
    BY <1>4, <2>1 DEF ProgressFacts
  <2>4. QED
    BY <2>2, <2>3
<1>2. ASSUME row[r] # "gone", row'[r] # "gone"
      PROVE  /\ pc'[r] \in Unregistered => progress'[r] = 0
             /\ pc'[r] = "ingest" => progress'[r] = Cardinality(Ingested(r)')
             /\ pc'[r] \in {"check", "mark"} => progress'[r] = Cardinality(Sample[r])
             /\ pc'[r] \in Evaluating =>
                  progress'[r] = Cardinality(Sample[r]) + Cardinality(Collected(r)')
             /\ row'[r] = "completed" => progress'[r] = Total(r)
  <2>1. CASE AddItem(r)
    <3>1. pc[r] = "add" /\ pc'[r] = "evaluate" /\ row'[r] = row[r] /\ row[r] # "completed"
      BY <1>2, <2>1 DEF AddItem, Commit, Goto, RunTypes, RowFacts
    <3>2. progress[r] = Cardinality(Sample[r]) + Cardinality(Collected(r))
      BY <1>2, <3>1 DEF ProgressFacts, Evaluating
    <3>3. QED
      BY <1>0, <1>2, <2>1, <3>1, <3>2, AddFacts DEF Unregistered, Unbound, Evaluating
  <2>2. CASE Provisioned(r)
    <3>1. pc'[r] = "check" /\ row'[r] = row[r] /\ row[r] # "completed"
      BY <1>2, <2>2 DEF Provisioned, Commit, Goto, RunTypes, RowFacts
    <3>2. QED
      BY <1>2, <2>2, <3>1, ProvisionedFacts DEF Unregistered, Unbound, Evaluating
  <2>3. ASSUME NEW d \in Docs, Ingest(r, d)
        PROVE  /\ pc'[r] = "ingest" /\ progress'[r] = Cardinality(Ingested(r)')
               /\ row'[r] # "completed"
    <3>1. pc'[r] = "ingest" /\ row'[r] = row[r] /\ row[r] # "completed"
      BY <1>2, <2>3 DEF Ingest, Commit, Goto, RunTypes, RowFacts
    <3>2. progress'[r] = progress[r] + 1 /\ progress[r] = Cardinality(Ingested(r))
      BY <1>2, <2>3 DEF Ingest, RunTypes, ProgressFacts
    <3>3. QED
      BY <2>3, <3>1, <3>2, IngestFacts
  <2>4. CASE ~(AddItem(r) \/ Provisioned(r) \/ \E d \in Docs : Ingest(r, d))
    <3>1. progress'[r] = progress[r] /\ Collected(r)' = Collected(r)
      BY <2>4, ProgressStays, ItemsStay DEF Collected
    <3>2. pc'[r] \in Unregistered => pc[r] \in Unregistered
      BY Phases DEF Unregistered, Bind, Unbound
    <3>3. pc'[r] = "ingest" => progress[r] = Cardinality(Ingested(r)')
      <4>1. CASE Register(r)
        <5>1. /\ found[r] \in Runs /\ pc[r] = "register" /\ UNCHANGED <<found, missing>>
              /\ progress[r] = 0 /\ missing[r] \subseteq Docs
          BY <1>2, <4>1 DEF Register, ProgressFacts, Unregistered, ownVars, RunTypes,
             CollectionFacts, Bound
        <5>2. Ingested(r)' = {}
          BY <4>1, <5>1, OwnDocuments DEF Ingested
        <5>3. QED
          BY <5>1, <5>2, FS_EmptySet
      <4>2. CASE ~Register(r)
        <5>1. pc'[r] = "ingest" => pc[r] = "ingest"
          BY <4>2, Phases
        <5>2. UNCHANGED doc
          BY <2>4, <4>2, OwnDocuments
        <5>3. pc[r] = "ingest" => UNCHANGED <<found, missing>>
          BY DecidedStays DEF Bound
        <5>4. pc[r] = "ingest" => Ingested(r)' = Ingested(r)
          BY <5>2, <5>3 DEF Ingested
        <5>5. QED
          BY <1>2, <5>1, <5>4 DEF ProgressFacts
      <4>3. QED
        BY <4>1, <4>2
    <3>4. pc'[r] \in {"check", "mark"} => pc[r] \in {"check", "mark"}
      BY <2>4, Phases
    <3>5. pc'[r] \in Evaluating => progress[r] = Cardinality(Sample[r]) + Cardinality(Collected(r))
      <4>1. CASE MarkRunning(r)
        <5>1. pc[r] = "mark" /\ Collected(r) = {}
          BY <1>2, <4>1 DEF MarkRunning, CollectedFacts
        <5>2. progress[r] = Cardinality(Sample[r])
          BY <1>2, <5>1 DEF ProgressFacts
        <5>3. QED
          BY <1>0, <5>1, <5>2, FS_EmptySet
      <4>2. CASE ~MarkRunning(r)
        BY <1>2, <4>2, Phases DEF ProgressFacts
      <4>3. QED
        BY <4>1, <4>2
    <3>6. row'[r] = "completed" => progress[r] = Total(r)
      <4>1. CASE Finalize(r)
        BY <1>2, <4>1 DEF Finalize, ProgressFacts, CollectedFacts, Evaluating, Total
      <4>2. CASE ~Finalize(r)
        <5>1. row'[r] = "completed" => row[r] = "completed"
          BY <2>4, <4>2 DEF RunAction, RunnerStep, Create, Begin, MarkProvisioning,
             MarkIngesting, Find, Bind, Register, CheckProvisioned, rowVars,
             MarkRunning, LoopEnds, CheckEvaluated, Answer, Collect,
             MarkFailed, Raise, Poison, Commit, RunTypes
        <5>2. QED
          BY <1>2, <5>1 DEF ProgressFacts
      <4>3. QED
        BY <4>1, <4>2
    <3>7. QED
      BY <1>2, <3>1, <3>2, <3>3, <3>4, <3>5, <3>6 DEF ProgressFacts
  <2>5. QED
    BY <2>1, <2>2, <2>3, <2>4 DEF Unregistered, Unbound, Evaluating
<1>3. ASSUME row[r] # "gone" PROVE progress'[r] <= Total(r)
  <2>1. CASE AddItem(r)
    <3>1. progress[r] = Cardinality(Sample[r]) + Cardinality(Collected(r))
      BY <1>3, <2>1 DEF AddItem, ProgressFacts, Evaluating
    <3>2. Cardinality(Collected(r)') <= Cardinality(Queries)
      BY FS_Subset DEF RunsAssumption, Collected
    <3>3. QED
      BY <1>0, <1>3, <2>1, <3>1, <3>2, AddFacts DEF Total
  <2>2. CASE Provisioned(r)
    BY <1>0, <1>3, <2>2, ProvisionedFacts DEF Total
  <2>3. CASE \E d \in Docs : Ingest(r, d)
    <3>1. PICK d \in Docs : Ingest(r, d)
      BY <2>3
    <3>2. progress'[r] = progress[r] + 1 /\ progress[r] = Cardinality(Ingested(r))
      BY <1>3, <3>1 DEF Ingest, RunTypes, ProgressFacts
    <3>3. QED
      BY <1>0, <3>1, <3>2, IngestFacts DEF Total
  <2>4. CASE ~(AddItem(r) \/ Provisioned(r) \/ \E d \in Docs : Ingest(r, d))
    BY <2>4, ProgressStays
  <2>5. QED
    BY <2>1, <2>2, <2>3, <2>4
<1>5. CASE row[r] # "gone"
  <2>1. \A s \in Runs : progress'[s] <= Total(s)
    BY <1>3, <1>4, <1>5
  <2>2. ProgressFacts'
    BY <1>2, <1>4, <1>5 DEF ProgressFacts
  <2>3. QED
    BY <2>1, <2>2
<1>6. QED
  BY <1>1, <1>5

\* Every step keeps ProgressFacts and the types.
LEMMA ProgressStep ==
    ASSUME RunsAssumption, TypeOK, ClientFacts, RowFacts, CollectionFacts, RegisteredFacts,
           ProgressFacts, CollectedFacts, [Next]_vars
    PROVE  ProgressFacts' /\ TypeOK'
<1>1. CASE UNCHANGED vars
  <2>1. RunTypes' /\ \A r \in Runs : progress'[r] <= Total(r)
    BY <1>1 DEF vars, TypeOK, RunTypes
  <2>2. UNCHANGED <<row, pc, progress>>
    BY <1>1 DEF vars
  <2>3. \A r \in Runs : Collected(r)' = Collected(r) /\ Ingested(r)' = Ingested(r)
    BY <1>1 DEF vars, Collected, Ingested
  <2>4. ProgressFacts'
    BY <2>2, <2>3 DEF ProgressFacts
  <2>5. TypeOK'
    BY <2>1 DEF TypeOK, Total
  <2>6. QED
    BY <2>4, <2>5
<1>2. ASSUME NEW r \in Runs, RunAction(r) PROVE ProgressFacts' /\ TypeOK'
  BY <1>2, RunnerProgresses, RunnerTypes DEF TypeOK, Total
<1>3. ASSUME NEW k \in Clients, ClientStep(k) PROVE ProgressFacts' /\ TypeOK'
  <2>1. UNCHANGED <<pc, progress, doc, found, missing>> /\ RunTypes'
    BY <1>3, ClientFrame, ClientTypes DEF TypeOK
  <2>2. ASSUME NEW r \in Runs, row'[r] # "gone"
        PROVE  /\ row[r] # "gone" /\ Collected(r)' = Collected(r)
               /\ row'[r] \in {row[r], "cancelled"}
    BY <1>3, <2>2, ClientFrame DEF Collected, TypeOK
  <2>3. QED
    BY <2>1, <2>2 DEF ProgressFacts, TypeOK, Ingested, Total
<1>4. CASE Crash
  <2>1. \A r \in Runs : pc'[r] = pc[r] \/ pc'[r] = "ended"
    BY <1>4 DEF Crash, TypeOK, RunTypes
  <2>2. UNCHANGED <<rowVars, collVars, ownVars>> /\ pc' \in [Runs -> Working \cup {"idle", "scheduled", "ended"}]
    BY <1>4 DEF Crash
  <2>3. RunTypes'
    BY <2>2 DEF TypeOK, RunTypes, rowVars, collVars, ownVars
  <2>4. QED
    BY <2>1, <2>2, <2>3, SMTT(60) DEF ProgressFacts, Collected, Ingested, rowVars, collVars, ownVars,
       Unregistered, Unbound, Evaluating, TypeOK, Total
<1>5. QED
  BY <1>1, <1>2, <1>3, <1>4 DEF Next, RunAction, Quiet

\* Every step leaves requests with runs that were made.
LEMMA ClientStays ==
    ASSUME RunsAssumption, RunTypes, ClientFacts, RowFacts, CollectionFacts, [Next]_vars
    PROVE  ClientFacts'
<1>1. CASE UNCHANGED vars
  BY <1>1 DEF vars, ClientFacts
<1>2. ASSUME NEW r \in Runs, RunAction(r) PROVE ClientFacts'
  <2>1. client' = client /\ \A s \in Runs : s # r => row'[s] = row[s]
    BY <1>2, RunnerFrame
  <2>2. row'[r] = "unmade" => row[r] = "unmade"
    BY <1>2 DEF RunAction, RunnerStep, Create, Begin, MarkProvisioning, MarkIngesting, Find, Bind,
       Register, Ingest, Provisioned, CheckProvisioned, MarkRunning, Answer, Collect, AddItem,
       LoopEnds, CheckEvaluated, Finalize, MarkFailed, Raise, Poison, Commit, rowVars, RunTypes
  <2>3. QED
    BY <2>1, <2>2 DEF ClientFacts
<1>3. ASSUME NEW k \in Clients, ClientStep(k) PROVE ClientFacts'
  BY <1>3, ClientTypes
<1>4. CASE Crash
  BY <1>4 DEF Crash, ClientFacts
<1>5. QED
  BY <1>1, <1>2, <1>3, <1>4 DEF Next, RunAction, Quiet

\* The invariant holds before the first run.
LEMMA RunsStart ==
    ASSUME RunsAssumption, Init
    PROVE  RunsInv
<1>1. TypeOK
  <2>1. RunTypes
    BY DEF Init, RunTypes, Pipelines, Rows
  <2>2. \A r \in Runs : progress[r] = 0 /\ Total(r) \in Nat
    BY Sizes DEF Init
  <2>3. QED
    BY <2>1, <2>2 DEF TypeOK
<1>2. BudgetType
  BY DEF Init, BudgetType, RunsAssumption
<1>3. /\ \A k \in Clients : client[k] = Idle
      /\ \A r \in Runs : /\ pc[r] = "idle" /\ row[r] = "unmade" /\ tool[r] = Nothing
                         /\ found[r] = Nothing /\ reused[r] = FALSE /\ progress[r] = 0
                         /\ Collected(r) = {} /\ \A w \in Rows : doc[r][w] = Nothing
  BY DEF Init, Collected
<1>4. ClientFacts /\ RowFacts /\ OutcomeRecorded
  BY <1>3 DEF ClientFacts, RowFacts, OutcomeRecorded
<1>5. CollectionFacts /\ RegisteredFacts
  BY <1>3 DEF CollectionFacts, RegisteredFacts, Bound, Provided, Evaluating, Unregistered, Unbound, Rows
<1>6. ProgressFacts /\ CollectedFacts
  BY <1>3 DEF ProgressFacts, CollectedFacts, Evaluating, Unregistered, Unbound
<1>7. QED
  BY <1>1, <1>2, <1>4, <1>5, <1>6 DEF RunsInv

\* Every step keeps it.
LEMMA RunsStep ==
    ASSUME RunsAssumption, RunsInv, [Next]_vars
    PROVE  RunsInv'
<1>1. /\ TypeOK /\ RunTypes /\ BudgetType /\ ClientFacts /\ RowFacts /\ CollectionFacts
      /\ RegisteredFacts /\ ProgressFacts /\ CollectedFacts /\ OutcomeRecorded
  BY DEF RunsInv, TypeOK
<1>2. BudgetType' /\ ClientFacts'
  BY <1>1, BudgetStep, ClientStays
<1>3. RowFacts' /\ OutcomeRecorded'
  BY <1>1, RowStep
<1>4. CollectionFacts' /\ RegisteredFacts'
  BY <1>1, CollectionStep, RegisteredStep
<1>5. CollectedFacts' /\ ProgressFacts' /\ TypeOK'
  BY <1>1, CollectedStep, ProgressStep
<1>6. QED
  BY <1>2, <1>3, <1>4, <1>5 DEF RunsInv

\* What the invariant is for.
LEMMA WholeRuns ==
    ASSUME RunsInv
    PROVE  TypeOK /\ CompletedIsWhole /\ OutcomeRecorded
BY DEF RunsInv, CompletedIsWhole, CollectedFacts, ProgressFacts

(* However requests, exceptions, database errors and crashes fall between  *)
(* the steps of any number of runners (runner.py, service.py), a run that  *)
(* says it is completed has an item for every query and a full bar, and a  *)
(* runner that is through has recorded what became of its run.             *)
THEOREM CompletedRunsAreWhole ==
    ASSUME RunsAssumption
    PROVE  Spec => [](TypeOK /\ CompletedIsWhole /\ OutcomeRecorded)
<1>1. Init => RunsInv
  BY RunsStart
<1>2. RunsInv /\ [Next]_vars => RunsInv'
  BY RunsStep
<1>3. RunsInv => TypeOK /\ CompletedIsWhole /\ OutcomeRecorded
  BY WholeRuns
<1>4. QED
  BY <1>1, <1>2, <1>3, PTL DEF Spec

-----------------------------------------------------------------------------
\* A run that was created acts until its runner is through.
LEMMA ActsWhileUnderWay ==
    ASSUME NEW r \in Runs, RunAction(r), ~Create(r)
    PROVE  pc[r] \notin {"idle", "ended"}
BY DEF RunAction, RunnerStep, Begin, MarkProvisioning, MarkIngesting, Find, Bind, Register,
   Ingest, Provisioned, CheckProvisioned, MarkRunning, Answer, Collect, AddItem, LoopEnds,
   CheckEvaluated, Finalize, MarkFailed, Raise, Poison, Working

\* Where runs do not overlap, the one that acts is the only one under way.
LEMMA AloneStep ==
    ASSUME ~Overlap, RunTypes, RowFacts, ClientFacts, Alone, [Next]_vars
    PROVE  Alone'
<1>1. CASE UNCHANGED pc
  BY <1>1 DEF Alone
<1>2. ASSUME NEW r \in Runs, RunAction(r) PROVE Alone'
  <2>1. \A s \in Runs : s # r => pc'[s] = pc[s]
    BY <1>2, ZenonT(60) DEF RunAction, RunnerStep, Create, Begin, MarkProvisioning, MarkIngesting, Find, Bind,
       Register, Ingest, Provisioned, CheckProvisioned, MarkRunning, Answer, Collect, AddItem,
       LoopEnds, CheckEvaluated, Checked, Finalize, MarkFailed, Raise, Poison, Commit, Goto, RunTypes
  <2>2. CASE Create(r)
    BY <2>1, <2>2 DEF Create, Alone
  <2>3. CASE ~Create(r)
    <3>1. pc[r] \notin {"idle", "ended"}
      BY <1>2, <2>3, ActsWhileUnderWay
    <3>2. QED
      BY <2>1, <3>1 DEF Alone
  <2>4. QED
    BY <2>2, <2>3
<1>3. ASSUME NEW k \in Clients, ClientStep(k) PROVE UNCHANGED pc
  BY <1>3, ClientFrame
<1>4. CASE Crash
  <2>1. \A r \in Runs : pc'[r] \in {"idle", "ended"}
    BY <1>4 DEF Crash
  <2>2. QED
    BY <2>1 DEF Alone
<1>5. QED
  BY <1>1, <1>2, <1>3, <1>4 DEF Next, RunAction, Quiet, vars

\* A run that acts alone asks its own pipeline and stores that pipeline's answers.
LEMMA OwnStep ==
    ASSUME RunsAssumption, RunTypes, ClientFacts, RowFacts, CollectionFacts, Alone, OwnFacts,
           OwnPipeline, CollectedFacts, [Next]_vars
    PROVE  OwnFacts' /\ OwnPipeline'
<1>1. CASE UNCHANGED vars
  BY <1>1 DEF vars, OwnFacts, OwnPipeline
<1>2. ASSUME NEW r \in Runs, RunAction(r) PROVE OwnFacts' /\ OwnPipeline'
  <2>1. \A s \in Runs : s # r => /\ pc'[s] = pc[s] /\ found'[s] = found[s]
                                 /\ work'[s] = work[s] /\ items'[s] = items[s]
    BY <1>2, RunnerFrame
  <2>2. ASSUME NEW s \in Runs, pc'[s] \in Bound PROVE tool'[found'[s]] = Retrieval[s]
    <3>1. CASE Bind(r)
      <4>1. CASE s = r
        BY <3>1, <4>1, BindFacts
      <4>2. CASE s # r
        BY <2>1, <2>2, <3>1, <4>2 DEF Bind, Alone, Bound, Provided, Evaluating
      <4>3. QED
        BY <4>1, <4>2
    <3>2. CASE ~Bind(r)
      <4>1. pc[s] \in Bound
        BY <1>2, <2>1, <2>2, <3>2, Phases DEF Bound, Provided, Evaluating, Register, Provisioned,
           MarkRunning
      <4>2. found'[s] = found[s]
        BY <1>2, <2>1, <4>1, DecidedStays
      <4>3. UNCHANGED tool
        BY <1>2, <3>2 DEF RunAction, RunnerStep, Create, Begin, MarkProvisioning, MarkIngesting,
           Find, Register, Ingest, Provisioned, CheckProvisioned, MarkRunning, Answer, Collect,
           AddItem, LoopEnds, CheckEvaluated, Finalize, MarkFailed, Raise, Poison, collVars
      <4>4. QED
        BY <4>1, <4>2, <4>3 DEF OwnFacts
    <3>3. QED
      BY <3>1, <3>2
  <2>3. ASSUME NEW q \in Queries PROVE work'[r][q] \in {Nothing, Retrieval[r]}
    <3>1. ASSUME NEW p \in Queries, Answer(r, p) PROVE work'[r][q] \in {Nothing, Retrieval[r]}
      <4>1. tool[found[r]] = Retrieval[r]
        BY <3>1 DEF Answer, OwnFacts, Bound, Provided, Evaluating
      <4>2. work' = [work EXCEPT ![r][p] = Retrieval[r]]
        BY <3>1, <4>1 DEF Answer
      <4>3. work'[r][q] \in {work[r][q], Retrieval[r]}
        BY <4>2 DEF RunTypes
      <4>4. QED
        BY <4>3 DEF OwnFacts
    <3>2. CASE ~\E p \in Queries : Answer(r, p)
      <4>1. UNCHANGED work
        BY <1>2, <3>2 DEF RunAction, RunnerStep, Create, Begin, MarkProvisioning, MarkIngesting,
           Find, Bind, Register, Ingest, Provisioned, CheckProvisioned, MarkRunning, Collect,
           AddItem, LoopEnds, CheckEvaluated, Finalize, MarkFailed, Raise, Poison, ownVars
      <4>2. QED
        BY <4>1 DEF OwnFacts
    <3>3. QED
      BY <3>1, <3>2
  <2>4. ASSUME NEW q \in Queries PROVE items'[r][q] \in {Nothing, Retrieval[r]}
    <3>1. CASE AddItem(r) /\ row[r] # "gone"
      <4>1. items' = [items EXCEPT ![r][current[r]] = work[r][current[r]]]
        BY <3>1 DEF AddItem
      <4>2. current[r] \in Queries
        BY <3>1 DEF AddItem, CollectedFacts
      <4>3. items'[r][q] \in {items[r][q], work[r][q]}
        BY <4>1 DEF RunTypes
      <4>4. QED
        BY <4>3 DEF OwnFacts, OwnPipeline
    <3>2. CASE ~(AddItem(r) /\ row[r] # "gone")
      <4>1. CASE ~AddItem(r)
        BY <1>2, <4>1, ItemsStay DEF OwnPipeline
      <4>2. CASE AddItem(r)
        <5>1. items' = [items EXCEPT ![r][current[r]] = @]
          BY <3>2, <4>2 DEF AddItem
        <5>2. items'[r][q] = items[r][q]
          BY <5>1 DEF RunTypes
        <5>3. QED
          BY <5>2 DEF OwnPipeline
      <4>3. QED
        BY <4>1, <4>2
    <3>3. QED
      BY <3>1, <3>2
  <2>5. OwnFacts'
    BY <2>1, <2>2, <2>3 DEF OwnFacts
  <2>6. OwnPipeline'
    BY <2>1, <2>4 DEF OwnPipeline
  <2>7. QED
    BY <2>5, <2>6
<1>3. ASSUME NEW k \in Clients, ClientStep(k) PROVE OwnFacts' /\ OwnPipeline'
  <2>1. UNCHANGED <<pc, tool, found, work>>
    BY <1>3, ClientFrame
  <2>2. CASE CancelWrite(k) \/ \E r \in Runs : CancelRead(k, r) \/ DeleteRead(k, r)
    <3>1. UNCHANGED items
      BY <2>2 DEF CancelWrite, CancelRead, DeleteRead, rowVars
    <3>2. QED
      BY <2>1, <3>1 DEF OwnFacts, OwnPipeline
  <2>3. CASE DeleteWrite(k)
    <3>1. items' = [items EXCEPT ![client[k].run] = [q \in Queries |-> Nothing]]
      BY <2>3 DEF DeleteWrite
    <3>2. \A r \in Runs, q \in Queries : items'[r][q] \in {Nothing, items[r][q]}
      BY <3>1 DEF RunTypes
    <3>3. QED
      BY <2>1, <3>2 DEF OwnFacts, OwnPipeline
  <2>4. QED
    BY <1>3, <2>2, <2>3 DEF ClientStep
<1>4. CASE Crash
  BY <1>4 DEF Crash, OwnFacts, OwnPipeline, Bound, Provided, Evaluating, rowVars, collVars, ownVars
<1>5. QED
  BY <1>1, <1>2, <1>3, <1>4 DEF Next, RunAction, Quiet

\* What a later run finds in the collection was registered by one that is over.
LEMMA CorpusStep ==
    ASSUME RunsAssumption, RunTypes, ClientFacts, RowFacts, CollectionFacts, RegisteredFacts,
           Alone, CorpusFacts, [Next]_vars
    PROVE  CorpusFacts'
<1>1. CASE UNCHANGED vars
  BY <1>1 DEF vars, CorpusFacts, Collections
<1>2. ASSUME NEW r \in Runs, RunAction(r) PROVE CorpusFacts'
  <2>1. \A s \in Runs : s # r =>
          /\ pc'[s] = pc[s] /\ found'[s] = found[s] /\ missing'[s] = missing[s]
          /\ \A c \in Runs, d \in Docs : doc'[c][<<s, d>>] = doc[c][<<s, d>>]
    BY <1>2, RunnerFrame
  <2>2. CASE Create(r)
    <3>1. /\ pc'[r] = "scheduled" /\ pc[r] = "idle" /\ UNCHANGED <<found, missing, doc, tool>>
      BY <2>2 DEF Create, RowFacts, RunTypes, collVars, ownVars
    <3>2. QED
      BY <2>1, <3>1 DEF CorpusFacts, Collections, Bound, Provided, Evaluating
  <2>3. CASE ~Create(r)
    <3>1. pc[r] \notin {"idle", "ended"}
      BY <1>2, <2>3, ActsWhileUnderWay
    <3>2. \A s \in Runs : s # r => pc'[s] \in {"idle", "ended"}
      BY <2>1, <3>1 DEF Alone
    <3>3. ASSUME pc'[r] = "bind", found'[r] = Nothing PROVE Collections' = {}
      <4>1. CASE Find(r)
        BY <3>3, <4>1 DEF Find, Collections, RunTypes, RunsAssumption, collVars
      <4>2. CASE ~Find(r)
        <5>1. pc'[r] # "bind"
          BY <1>2, <2>3, <4>2 DEF RunAction, RunnerStep, Begin, MarkProvisioning, MarkIngesting,
             Bind, Register, Ingest, Provisioned, CheckProvisioned, MarkRunning, Answer, Collect,
             AddItem, LoopEnds, CheckEvaluated, Checked, Finalize, MarkFailed, Raise, Poison,
             Commit, Goto, RunTypes
        <5>2. QED
          BY <3>3, <5>1
      <4>3. QED
        BY <4>1, <4>2
    <3>4. ASSUME pc'[r] \in Bound, NEW d \in Sample[r] \ missing'[r]
          PROVE  \E s \in Runs : pc'[s] = "ended" /\ doc'[found'[r]][<<s, d>>] # Nothing
      <4>0. d \in Docs
        BY Sizes
      <4>1. CASE Bind(r)
        <5>1. d \in Present(found'[r]) /\ doc' = doc /\ found'[r] \in Runs
          BY <3>4, <4>1, BindFacts
        <5>2. PICK s \in Runs : doc[found'[r]][<<s, d>>] # Nothing
          BY <5>1 DEF Present
        <5>3. pc[s] \notin Unregistered
          BY <4>0, <5>1, <5>2 DEF RegisteredFacts
        <5>4. s # r
          BY <4>1, <5>3 DEF Bind, Unregistered, Unbound
        <5>5. pc'[s] = "ended"
          BY <2>1, <3>2, <5>3, <5>4 DEF Unregistered, Unbound
        <5>6. QED
          BY <5>1, <5>2, <5>5
      <4>2. CASE ~Bind(r)
        <5>1. pc[r] \in Bound
          BY <1>2, <3>4, <4>2, Phases DEF Bound, Provided, Evaluating, Register, Provisioned,
             MarkRunning
        <5>2. UNCHANGED <<found, missing>> /\ found[r] \in Runs
          BY <1>2, <5>1, DecidedStays DEF CollectionFacts
        <5>3. d \in Sample[r] \ missing[r]
          BY <3>4, <5>2
        <5>4. PICK s \in Runs : pc[s] = "ended" /\ doc[found[r]][<<s, d>>] # Nothing
          BY <5>1, <5>3 DEF CorpusFacts
        <5>5. s # r
          BY <3>1, <5>4
        <5>6. pc'[s] = "ended" /\ doc'[found'[r]][<<s, d>>] # Nothing
          BY <2>1, <4>0, <5>2, <5>4, <5>5
        <5>7. QED
          BY <5>6
      <4>3. QED
        BY <4>1, <4>2
    <3>5. QED
      BY <3>2, <3>3, <3>4 DEF CorpusFacts, Bound, Provided, Evaluating
  <2>4. QED
    BY <2>2, <2>3
<1>3. ASSUME NEW k \in Clients, ClientStep(k) PROVE CorpusFacts'
  <2>1. UNCHANGED <<pc, tool, doc, found, missing>>
    BY <1>3, ClientFrame
  <2>2. QED
    BY <2>1 DEF CorpusFacts, Collections
<1>4. CASE Crash
  <2>1. \A r \in Runs : pc'[r] \in {"idle", "ended"}
    BY <1>4 DEF Crash
  <2>2. QED
    BY <2>1 DEF CorpusFacts, Bound, Provided, Evaluating
<1>5. QED
  BY <1>1, <1>2, <1>3, <1>4 DEF Next, RunAction, Quiet

\* A run makes a collection only when there is none.
LEMMA SharedStep ==
    ASSUME RunsAssumption, RunTypes, ClientFacts, RowFacts, CollectionFacts, CorpusFacts,
           SharedOnce, [Next]_vars
    PROVE  SharedOnce'
<1>1. CASE UNCHANGED tool
  BY <1>1 DEF SharedOnce, Collections
<1>2. ASSUME NEW r \in Runs, Bind(r) PROVE SharedOnce'
  <2>1. /\ found'[r] \in Runs
        /\ IF reused[r] THEN found'[r] = found[r] ELSE found'[r] = r
        /\ \A c \in Runs : c # found'[r] => tool'[c] = tool[c]
    BY <1>2, BindFacts
  <2>2. /\ pc[r] = "bind" /\ (reused[r] <=> found[r] # Nothing)
        /\ found[r] # Nothing => tool[found[r]] # Nothing
    BY <1>2 DEF Bind, CollectionFacts, Unbound
  <2>3. CASE reused[r]
    <3>1. tool[found'[r]] # Nothing
      BY <2>1, <2>2, <2>3
    <3>2. Collections' \subseteq Collections
      BY <2>1, <3>1 DEF Collections
    <3>3. QED
      BY <3>2 DEF SharedOnce
  <2>4. CASE ~reused[r]
    <3>1. Collections = {}
      BY <2>2, <2>4 DEF CorpusFacts
    <3>2. Collections' \subseteq {r}
      BY <2>1, <2>4, <3>1 DEF Collections
    <3>3. QED
      BY <3>2 DEF SharedOnce
  <2>5. QED
    BY <2>3, <2>4
<1>3. ASSUME NEW r \in Runs, RunAction(r), ~Bind(r) PROVE UNCHANGED tool
  BY <1>3 DEF RunAction, RunnerStep, Create, Begin, MarkProvisioning, MarkIngesting, Find,
     Register, Ingest, Provisioned, CheckProvisioned, MarkRunning, Answer, Collect, AddItem,
     LoopEnds, CheckEvaluated, Finalize, MarkFailed, Raise, Poison, collVars
<1>4. ASSUME NEW k \in Clients, ClientStep(k) PROVE UNCHANGED tool
  BY <1>4, ClientFrame
<1>5. QED
  BY <1>1, <1>2, <1>3, <1>4 DEF Next, RunAction, Quiet, Crash, collVars, vars

\* The invariant of serial runs holds before the first run.
LEMMA SerialStart ==
    ASSUME Init
    PROVE  SerialInv
<1>1. \A r \in Runs : pc[r] = "idle" /\ tool[r] = Nothing
  BY DEF Init
<1>2. \A r \in Runs, q \in Queries : work[r][q] = Nothing /\ items[r][q] = Nothing
  BY DEF Init
<1>3. QED
  BY <1>1, <1>2 DEF SerialInv, Alone, OwnFacts, OwnPipeline, CorpusFacts, SharedOnce,
     Collections, Bound, Provided, Evaluating

\* Every step keeps it while no run starts before the last is over.
LEMMA SerialStep ==
    ASSUME RunsAssumption, ~Overlap, RunsInv, SerialInv, [Next]_vars
    PROVE  SerialInv'
<1>1. /\ RunTypes /\ ClientFacts /\ RowFacts /\ CollectionFacts /\ RegisteredFacts
      /\ CollectedFacts
  BY DEF RunsInv, TypeOK
<1>2. Alone /\ OwnFacts /\ OwnPipeline /\ CorpusFacts /\ SharedOnce
  BY DEF SerialInv
<1>3. Alone'
  BY <1>1, <1>2, AloneStep
<1>4. OwnFacts' /\ OwnPipeline'
  BY <1>1, <1>2, OwnStep
<1>5. CorpusFacts' /\ SharedOnce'
  BY <1>1, <1>2, CorpusStep, SharedStep
<1>6. QED
  BY <1>3, <1>4, <1>5 DEF SerialInv

\* What the serial runs' invariant is for.
LEMMA TrueRuns ==
    ASSUME RunsAssumption, RunsInv, SerialInv
    PROVE  OwnPipeline /\ CorpusIngested /\ OneCollection
<1>1. OwnPipeline /\ CorpusFacts /\ SharedOnce
  BY DEF SerialInv
<1>2. RunTypes /\ CollectionFacts /\ RegisteredFacts
  BY DEF RunsInv, TypeOK
<1>3. CorpusIngested
  <2>1. SUFFICES ASSUME NEW r \in Runs, pc[r] \in Evaluating, NEW d \in Sample[r]
                 PROVE  \E s \in Runs :
                          \/ doc[found[r]][<<s, d>>] \in {"ready", "failed"}
                          \/ doc[found[r]][<<s, d>>] = "pending" /\ pc[s] = "ended"
    BY DEF CorpusIngested, Evaluating
  <2>2. d \in Docs /\ found[r] \in Runs
    BY <1>2, <2>1, Sizes DEF CollectionFacts, Bound, Provided
  <2>3. \A s \in Runs : doc[found[r]][<<s, d>>] \in {Nothing, "pending", "ready", "failed"}
    BY <1>2, <2>2 DEF RunTypes, Rows
  <2>4. CASE d \in missing[r]
    <3>1. doc[found[r]][<<r, d>>] # Nothing /\ doc[found[r]][<<r, d>>] # "pending"
      BY <1>2, <2>1, <2>2, <2>4 DEF RegisteredFacts, Bound, Provided, Evaluating
    <3>2. QED
      BY <2>3, <3>1
  <2>5. CASE d \notin missing[r]
    <3>1. PICK s \in Runs : pc[s] = "ended" /\ doc[found[r]][<<s, d>>] # Nothing
      BY <1>1, <2>1, <2>5 DEF CorpusFacts, Bound, Provided
    <3>2. QED
      BY <2>3, <3>1
  <2>6. QED
    BY <2>4, <2>5
<1>4. OneCollection
  <2>1. CASE Collections = {}
    BY <2>1, FS_EmptySet DEF OneCollection
  <2>2. ASSUME NEW c \in Collections PROVE OneCollection
    <3>1. Collections = {c}
      BY <1>1, <2>2 DEF SharedOnce
    <3>2. Cardinality(Collections) = 1
      BY <3>1, FS_Singleton
    <3>3. QED
      BY <3>2 DEF OneCollection
  <2>3. QED
    BY <2>1, <2>2
<1>5. QED
  BY <1>1, <1>3, <1>4

(* As long as one run is over before the next begins, the runs of a user,  *)
(* dataset and ingestion pipeline share one collection (provisioning.py),  *)
(* each evaluates its own retrieval pipeline although they rebind that     *)
(* collection in turn, and no run queries it before its sample is there.   *)
THEOREM SerialRunsAreTrue ==
    ASSUME RunsAssumption, ~Overlap
    PROVE  Spec => [](OwnPipeline /\ CorpusIngested /\ OneCollection)
<1>1. Init => RunsInv /\ SerialInv
  BY RunsStart, SerialStart
<1>2. RunsInv /\ SerialInv /\ [Next]_vars => RunsInv' /\ SerialInv'
  BY RunsStep, SerialStep
<1>3. RunsInv /\ SerialInv => OwnPipeline /\ CorpusIngested /\ OneCollection
  BY TrueRuns
<1>4. QED
  BY <1>1, <1>2, <1>3, PTL DEF Spec
=============================================================================
