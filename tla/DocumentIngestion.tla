--------------------------- MODULE DocumentIngestion ---------------------------
(***************************************************************************)
(* The durable ingestion queue of the backend and the requests that feed   *)
(* it: app/services/ingestion_queue.py (the worker pool and its recovery), *)
(* app/services/ingestion.py (what one worker does with one document),     *)
(* app/db/repositories/document.py (the claim), app/services/files.py and  *)
(* app/services/file_deletion.py (upload, ingest/retry and delete).        *)
(*                                                                         *)
(* One step is one database statement group that is atomic for the others: *)
(* what lies between two commits of a session, between a read and the      *)
(* write that uses it, or one call to a store outside the transaction.     *)
(*                                                                         *)
(* Sessions follow SQLAlchemy over PostgreSQL READ COMMITTED:              *)
(*  - an ORM object remembers the status it was loaded with, and a flush   *)
(*    emits an UPDATE of the status only if it differs from that (Put);    *)
(*  - the first flush of a pipeline run UPDATEs the document row and so    *)
(*    holds its row lock until the worker's last commit (lock);            *)
(*  - pgvector tables are written in the session's own transaction, so     *)
(*    their changes are staged until it commits; Pinecone is changed at    *)
(*    once.                                                                *)
(***************************************************************************)
EXTENDS Naturals, Sequences, FiniteSets

CONSTANTS
    Docs,         \* ids of Document rows (uuid4: never used twice)
    Files,        \* ids of FileNode rows
    Workers,      \* threads of the ingestion pool
    Clients,      \* concurrent HTTP requests
    None,         \* "no document", "no file", "no lock holder"
    Backend,      \* where the vectors are kept: "pgvector" or "pinecone"
    RetryFrom,    \* statuses a POST .../ingest request is sent at
    MaxRequests,  \* bound on the number of requests
    MaxRestarts,  \* bound on the number of crashes and shutdowns
    MaxDbFaults   \* bound on database faults outside any error handler

Settled  == {"ready", "failed"}
Statuses == {"pending", "processing"} \union Settled
RowStates == Statuses \union {"none"}   \* "none": there is no such row

\* The pool is not empty, and every id is an id of one kind.
ASSUME IdsAssumption ==
    /\ IsFiniteSet(Docs)
    /\ None \notin Docs \union Files \union Workers
\* The backends the vector-store registry knows, and statuses a row can have.
ASSUME ConfigAssumption ==
    /\ Backend \in {"pgvector", "pinecone"}
    /\ RetryFrom \subseteq RowStates
\* The bounds on what the environment does.
ASSUME BoundsAssumption ==
    {MaxRequests, MaxRestarts, MaxDbFaults} \subseteq Nat

VARIABLES
    node,       \* file_nodes: "unborn", "live" or "gone"
    bytes,      \* the file store: are the uploaded bytes of a file there?
    status,     \* documents.status, "none" when there is no row
    fileOf,     \* documents.file_id (kept after the row is deleted)
    hasRun,     \* documents.ingestion_run_id is not null
    chunks,     \* committed batches of chunk rows of a document
    vec,        \* vectors of a document that a query can find
    lock,       \* the worker whose transaction holds the document's row lock
    queue,      \* the thread pool's queue of submitted ids
    up,         \* the process is past its lifespan startup and not stopping
    abandoned,  \* documents whose last carrier a database fault killed
    wpc, wdoc, wseen, wretry, wstaged,      \* workers
    cpc, cfile, cdoc, cseen, cstaged, cfk,  \* requests
    requests, restarts, faults              \* used budgets

tree    == <<node, bytes>>
rows    == <<status, fileOf, hasRun, chunks>>
worker  == <<wpc, wdoc, wseen, wretry, wstaged>>
client  == <<cpc, cfile, cdoc, cseen, cstaged, cfk>>
budgets == <<requests, restarts, faults>>
vars    == <<tree, rows, vec, lock, queue, up, abandoned, worker, client, budgets>>

WorkerPcs == {"idle", "claim", "load", "begin", "refresh", "purge", "start",
              "index", "finish", "lastread", "lastwrite"}
ClientPcs == {"idle", "save", "write", "enqueue", "delpurge", "delfiles", "delrows"}

StoresType ==
    /\ node \in [Files -> {"unborn", "live", "gone"}]
    /\ bytes \in [Files -> BOOLEAN]
    /\ status \in [Docs -> RowStates]
    /\ fileOf \in [Docs -> Files \union {None}]
    /\ hasRun \in [Docs -> BOOLEAN]
    /\ chunks \in [Docs -> Nat]
    /\ vec \in [Docs -> BOOLEAN]
    /\ lock \in [Docs -> Workers \union {None}]

WorkersType ==
    /\ wpc \in [Workers -> WorkerPcs]
    /\ wdoc \in [Workers -> Docs \union {None}]
    /\ \A w \in Workers : wpc[w] # "idle" => wdoc[w] \in Docs
    /\ wseen \in [Workers -> RowStates]
    /\ wretry \in [Workers -> BOOLEAN]
    /\ wstaged \in [Workers -> {"keep", "purged", "indexed"}]

ClientsType ==
    /\ cpc \in [Clients -> ClientPcs]
    /\ cfile \in [Clients -> Files \union {None}]
    /\ \A c \in Clients : cpc[c] # "idle" => cfile[c] \in Files
    /\ cdoc \in [Clients -> Docs \union {None}]
    /\ \A c \in Clients : cpc[c] = "enqueue" => cdoc[c] \in Docs
    /\ cseen \in [Clients -> RowStates]
    /\ cstaged \in [Clients -> BOOLEAN]
    /\ cfk \in [Clients -> BOOLEAN]

ProcessType ==
    /\ queue \in Seq(Docs)
    /\ up \in BOOLEAN
    /\ abandoned \subseteq Docs
    /\ requests \in Nat /\ restarts \in Nat /\ faults \in Nat

\* Every variable holds a value of its kind, and a busy thread or request knows
\* the document or file it works on.
TypeOK == StoresType /\ WorkersType /\ ClientsType /\ ProcessType

Init ==
    /\ node = [f \in Files |-> "unborn"]
    /\ bytes = [f \in Files |-> FALSE]
    /\ status = [d \in Docs |-> "none"]
    /\ fileOf = [d \in Docs |-> None]
    /\ hasRun = [d \in Docs |-> FALSE]
    /\ chunks = [d \in Docs |-> 0]
    /\ vec = [d \in Docs |-> FALSE]
    /\ lock = [d \in Docs |-> None]
    /\ queue = <<>>
    /\ up = TRUE
    /\ abandoned = {}
    /\ wpc = [w \in Workers |-> "idle"]
    /\ wdoc = [w \in Workers |-> None]
    /\ wseen = [w \in Workers |-> "none"]
    /\ wretry = [w \in Workers |-> FALSE]
    /\ wstaged = [w \in Workers |-> "keep"]
    /\ cpc = [c \in Clients |-> "idle"]
    /\ cfile = [c \in Clients |-> None]
    /\ cdoc = [c \in Clients |-> None]
    /\ cseen = [c \in Clients |-> "none"]
    /\ cstaged = [c \in Clients |-> FALSE]
    /\ cfk = [c \in Clients |-> FALSE]
    /\ requests = 0 /\ restarts = 0 /\ faults = 0

--------------------------------------------------------------------------------
(* Sessions and transactions *)

\* A flush of the ORM attribute `status`: the row is written only if the value
\* assigned differs from the one the session loaded.
Put(row, seen, new) == IF seen = new THEN row ELSE new

\* The vectors of d once the transaction that staged s commits.
Applied(d, s) == CASE s = "purged"  -> FALSE
                   [] s = "indexed" -> TRUE
                   [] OTHER         -> vec[d]

\* No transaction but w's holds uncommitted changes of d's pgvector rows.
VectorRowsFree(d, w) ==
    /\ \A x \in Workers \ {w} : wdoc[x] = d => wstaged[x] = "keep"
    /\ \A c \in Clients : cdoc[c] = d => ~cstaged[c]

\* A commit that inserts rows referencing d (chunks, ingestion events) makes a
\* delete that already scanned d's children fail on its foreign keys.
ChildrenAdded(d) ==
    cfk' = [c \in Clients |-> cfk[c] \/ (cdoc[c] = d /\ cpc[c] = "delrows")]

\* The session's transaction is rolled back or over: its locks are released.
Unlock(w) == lock' = [d \in Docs |-> IF lock[d] = w THEN None ELSE lock[d]]

\* Mutant: the job drops its document id on the way to the last-resort recorder.
WorkerGoesWithoutDoc(w, pc) ==
    /\ wpc' = [wpc EXCEPT ![w] = pc]
    /\ wdoc' = IF pc \in {"idle", "lastread"} THEN [wdoc EXCEPT ![w] = None] ELSE wdoc

\* Worker w goes on to pc; a thread that is idle again keeps nothing.
WorkerGoes(w, pc) ==
    /\ wpc' = [wpc EXCEPT ![w] = pc]
    /\ wdoc' = IF pc = "idle" THEN [wdoc EXCEPT ![w] = None] ELSE wdoc

WorkerForgets(w) ==
    /\ wseen' = [wseen EXCEPT ![w] = "none"]
    /\ wretry' = [wretry EXCEPT ![w] = FALSE]
    /\ wstaged' = [wstaged EXCEPT ![w] = "keep"]

\* Request c goes on to pc, or ends.
ClientGoes(c, pc) == cpc' = [cpc EXCEPT ![c] = pc]

ClientEnds(c) ==
    /\ cpc' = [cpc EXCEPT ![c] = "idle"]
    /\ cfile' = [cfile EXCEPT ![c] = None]
    /\ cdoc' = [cdoc EXCEPT ![c] = None]
    /\ cseen' = [cseen EXCEPT ![c] = "none"]
    /\ cstaged' = [cstaged EXCEPT ![c] = FALSE]
    /\ cfk' = [cfk EXCEPT ![c] = FALSE]

--------------------------------------------------------------------------------
(* A worker and its document: run_document_ingestion *)

\* A pool thread takes the next submitted id.
Dequeue(w) ==
    /\ wpc[w] = "idle"
    /\ queue # <<>>
    /\ queue' = Tail(queue)
    /\ wpc' = [wpc EXCEPT ![w] = "claim"]
    /\ wdoc' = [wdoc EXCEPT ![w] = Head(queue)]
    /\ UNCHANGED <<tree, rows, vec, lock, up, abandoned, wseen, wretry, wstaged,
                   client, budgets>>

\* Mutant: the conditional UPDATE accepts a document already being processed.
ClaimTakesProcessing(w) ==
    LET d == wdoc[w] IN
    /\ wpc[w] = "claim"
    /\ status[d] = "pending" => lock[d] = None
    /\ IF status[d] \in {"pending", "processing"}
       THEN status' = [status EXCEPT ![d] = "processing"] /\ WorkerGoes(w, "load")
       ELSE UNCHANGED status /\ WorkerGoes(w, "idle")
    /\ UNCHANGED <<tree, fileOf, hasRun, chunks, vec, lock, queue, up, abandoned,
                   wseen, wretry, wstaged, client, budgets>>

\* The conditional UPDATE pending -> processing and its commit. It waits for the
\* row lock only if the committed row matches its WHERE clause.
Claim(w) ==
    LET d == wdoc[w] IN
    /\ wpc[w] = "claim"
    /\ status[d] = "pending" => lock[d] = None
    /\ IF status[d] = "pending"
       THEN status' = [status EXCEPT ![d] = "processing"] /\ WorkerGoes(w, "load")
       ELSE UNCHANGED status /\ WorkerGoes(w, "idle")
    /\ UNCHANGED <<tree, fileOf, hasRun, chunks, vec, lock, queue, up, abandoned,
                   wseen, wretry, wstaged, client, budgets>>

\* session.get after the claim's commit; a deleted row ends the job.
Load(w) ==
    LET d == wdoc[w] IN
    /\ wpc[w] = "load"
    /\ IF status[d] = "none"
       THEN WorkerGoes(w, "idle") /\ UNCHANGED <<wseen, wretry>>
       ELSE /\ WorkerGoes(w, "begin")
            /\ wseen' = [wseen EXCEPT ![w] = status[d]]
            /\ wretry' = [wretry EXCEPT ![w] = hasRun[d]]
    /\ UNCHANGED <<tree, rows, vec, lock, queue, up, abandoned, wstaged, client, budgets>>

\* The first commit of ingest_document: processing, without the chunk rows of a
\* previous attempt. A first attempt always UPDATEs the row (its pipeline
\* columns change), a retry only if the status it loaded was another one.
Begin(w) ==
    LET d == wdoc[w] IN
    /\ wpc[w] = "begin"
    /\ lock[d] = None \/ (wretry[w] /\ wseen[w] = "processing")
    /\ IF status[d] = "none"
       THEN WorkerGoes(w, "lastread") /\ UNCHANGED <<status, chunks>>
       ELSE /\ WorkerGoes(w, "refresh")
            /\ status' = [status EXCEPT ![d] = Put(@, wseen[w], "processing")]
            /\ chunks' = [chunks EXCEPT ![d] = 0]
    /\ UNCHANGED <<tree, fileOf, hasRun, vec, lock, queue, up, abandoned,
                   wseen, wretry, wstaged, client, budgets>>

\* resolve_ingest_binding raises, or the commit does: nothing is written yet.
BeginFails(w) ==
    /\ wpc[w] = "begin"
    /\ WorkerGoes(w, "lastread")
    /\ UNCHANGED <<tree, rows, vec, lock, queue, up, abandoned,
                   wseen, wretry, wstaged, client, budgets>>

\* The commit expired the document; the next attribute access reloads it, or
\* raises outside the try block if the row is gone.
Refresh(w) ==
    LET d == wdoc[w] IN
    /\ wpc[w] = "refresh"
    /\ IF status[d] = "none"
       THEN WorkerGoes(w, "lastread") /\ UNCHANGED wseen
       ELSE /\ WorkerGoes(w, IF wretry[w] THEN "purge" ELSE "start")
            /\ wseen' = [wseen EXCEPT ![w] = status[d]]
    /\ UNCHANGED <<tree, rows, vec, lock, queue, up, abandoned, wretry, wstaged,
                   client, budgets>>

\* _purge_previous_vectors: Pinecone forgets the vectors at once, pgvector when
\* the session commits.
Purge(w) ==
    LET d == wdoc[w] IN
    /\ wpc[w] = "purge"
    /\ IF Backend = "pinecone"
       THEN vec' = [vec EXCEPT ![d] = FALSE] /\ UNCHANGED wstaged
       ELSE /\ VectorRowsFree(d, w)
            /\ wstaged' = [wstaged EXCEPT ![w] = "purged"]
            /\ UNCHANGED vec
    /\ WorkerGoes(w, "start")
    /\ UNCHANGED <<tree, rows, lock, queue, up, abandoned, wseen, wretry, client, budgets>>

\* The purge fails; the failure is logged and the retry goes on.
PurgeFails(w) ==
    /\ wpc[w] = "purge"
    /\ WorkerGoes(w, "start")
    /\ UNCHANGED <<tree, rows, vec, lock, queue, up, abandoned,
                   wseen, wretry, wstaged, client, budgets>>

\* Mutant: the run's first flush does not touch the document row.
StartWithoutRowLock(w) ==
    LET d == wdoc[w] IN
    /\ wpc[w] = "start"
    /\ status[d] # "none"
    /\ WorkerGoes(w, "index")
    /\ UNCHANGED <<tree, rows, vec, lock, queue, up, abandoned,
                   wseen, wretry, wstaged, client, budgets>>

\* The run starts: its first flush UPDATEs documents.ingestion_run_id, which
\* waits for the row lock and then keeps it. (A deleted row: see Poison.)
Start(w) ==
    LET d == wdoc[w] IN
    /\ wpc[w] = "start"
    /\ lock[d] = None
    /\ status[d] # "none"
    /\ lock' = [lock EXCEPT ![d] = w]
    /\ WorkerGoes(w, "index")
    /\ UNCHANGED <<tree, rows, vec, queue, up, abandoned,
                   wseen, wretry, wstaged, client, budgets>>

\* The indexer upserts the vectors. Its input is parsed from the stored bytes.
Index(w) ==
    LET d == wdoc[w] IN
    /\ wpc[w] = "index"
    /\ bytes[fileOf[d]]
    /\ IF Backend = "pinecone"
       THEN vec' = [vec EXCEPT ![d] = TRUE] /\ UNCHANGED wstaged
       ELSE /\ VectorRowsFree(d, w)
            /\ wstaged' = [wstaged EXCEPT ![w] = "indexed"]
            /\ UNCHANGED vec
    /\ WorkerGoes(w, "finish")
    /\ UNCHANGED <<tree, rows, lock, queue, up, abandoned, wseen, wretry, client, budgets>>

\* _persist_chunks: the new chunk rows, and READY on the document.
PersistChunks(w, d) ==
    /\ chunks' = [chunks EXCEPT ![d] = @ + 1]
    /\ status' = [status EXCEPT ![d] = Put(@, wseen[w], "ready")]

\* Chunk rows, READY, the success event and the last commit.
Succeed(w) ==
    LET d == wdoc[w] IN
    /\ wpc[w] = "finish"
    /\ PersistChunks(w, d)
    /\ hasRun' = [hasRun EXCEPT ![d] = TRUE]
    /\ vec' = [vec EXCEPT ![d] = Applied(d, wstaged[w])]
    /\ ChildrenAdded(d)
    /\ Unlock(w)
    /\ WorkerGoes(w, "idle")
    /\ WorkerForgets(w)
    /\ UNCHANGED <<tree, fileOf, queue, up, abandoned,
                   cpc, cfile, cdoc, cseen, cstaged, budgets>>

\* _record_failure: FAILED on the document.
RecordFailure(w, d) == status' = [status EXCEPT ![d] = Put(@, wseen[w], "failed")]

\* A step of the run raises: FAILED and an event are committed, and with them
\* whatever the run had staged. The exception then reaches the worker wrapper.
Fail(w) ==
    LET d == wdoc[w] IN
    /\ wpc[w] \in {"purge", "start", "index", "finish"}
    /\ lock[d] \in {None, w}
    /\ status[d] # "none"
    /\ RecordFailure(w, d)
    /\ hasRun' = [hasRun EXCEPT ![d] = @ \/ lock[d] = w]
    /\ vec' = [vec EXCEPT ![d] = Applied(d, wstaged[w])]
    /\ ChildrenAdded(d)
    /\ Unlock(w)
    /\ WorkerGoes(w, "lastread")
    /\ WorkerForgets(w)
    /\ UNCHANGED <<tree, fileOf, chunks, queue, up, abandoned,
                   cpc, cfile, cdoc, cseen, cstaged, budgets>>

\* The database aborts the session's transaction (a failed statement, a
\* deadlock victim, a row deleted meanwhile): the failure cannot be recorded on
\* it, everything uncommitted is lost, and the exception reaches the wrapper.
Poison(w) ==
    /\ wpc[w] \in {"purge", "start", "index", "finish"}
    /\ Unlock(w)
    /\ WorkerGoes(w, "lastread")
    /\ WorkerForgets(w)
    /\ UNCHANGED <<tree, rows, vec, queue, up, abandoned, client, budgets>>

\* Mutant: a poisoned session's failure is only logged.
LastReadLogsOnly(w) ==
    /\ wpc[w] = "lastread"
    /\ WorkerGoes(w, "idle")
    /\ WorkerForgets(w)
    /\ UNCHANGED <<tree, rows, vec, lock, queue, up, abandoned, client, budgets>>

\* _ensure_failure_recorded, on a fresh session: read the row ...
LastRead(w) ==
    /\ wpc[w] = "lastread"
    /\ WorkerGoes(w, IF status[wdoc[w]] = "processing" THEN "lastwrite" ELSE "idle")
    /\ WorkerForgets(w)
    /\ UNCHANGED <<tree, rows, vec, lock, queue, up, abandoned, client, budgets>>

\* ... and write FAILED if it was PROCESSING then. A row deleted in between
\* raises, and that is swallowed.
LastWrite(w) ==
    LET d == wdoc[w] IN
    /\ wpc[w] = "lastwrite"
    /\ lock[d] = None
    /\ status' = [status EXCEPT ![d] = IF @ = "none" THEN @ ELSE "failed"]
    /\ WorkerGoes(w, "idle")
    /\ UNCHANGED <<tree, fileOf, hasRun, chunks, vec, lock, queue, up, abandoned,
                   wseen, wretry, wstaged, client, budgets>>

\* A database fault (no free connection, a lost one) where the wrapper has no
\* handler, or in the recorder of last resort itself: the job ends here.
WorkerDbFault(w) ==
    /\ wpc[w] \in {"claim", "load", "lastread", "lastwrite"}
    /\ faults < MaxDbFaults
    /\ faults' = faults + 1
    /\ abandoned' = abandoned \union {wdoc[w]}
    /\ WorkerGoes(w, "idle")
    /\ WorkerForgets(w)
    /\ UNCHANGED <<tree, rows, vec, lock, queue, up, client, requests, restarts>>

WorkerStep(w) ==
    \/ Dequeue(w) \/ Claim(w) \/ Load(w)
    \/ Begin(w) \/ BeginFails(w) \/ Refresh(w)
    \/ Purge(w) \/ PurgeFails(w) \/ Start(w) \/ Index(w)
    \/ Succeed(w) \/ Fail(w) \/ Poison(w)
    \/ LastRead(w) \/ LastWrite(w)

--------------------------------------------------------------------------------
(* Requests: upload, ingest / retry, delete *)

\* The Document rows of a file, and the ids no row ever had.
DocsOf(f) == {d \in Docs : fileOf[d] = f /\ status[d] # "none"}
FreshDocs == {d \in Docs : fileOf[d] = None}

\* A new request about file f.
Arrives(c, f) ==
    /\ up
    /\ cpc[c] = "idle"
    /\ requests < MaxRequests
    /\ requests' = requests + 1
    /\ cfile' = [cfile EXCEPT ![c] = f]

\* register_upload: the bytes are in the file store before the rows commit.
UploadSave(c, f) ==
    /\ Arrives(c, f)
    /\ node[f] = "unborn" /\ ~bytes[f]
    /\ bytes' = [bytes EXCEPT ![f] = TRUE]
    /\ ClientGoes(c, "save")
    /\ UNCHANGED <<node, rows, vec, lock, queue, up, abandoned, worker,
                   cdoc, cseen, cstaged, cfk, restarts, faults>>

\* A new PENDING row for file f, enqueued once the response is built.
CreatePending(c, f, d) ==
    /\ status' = [status EXCEPT ![d] = "pending"]
    /\ fileOf' = [fileOf EXCEPT ![d] = f]
    /\ cdoc' = [cdoc EXCEPT ![c] = d]
    /\ ClientGoes(c, "enqueue")
    /\ UNCHANGED <<hasRun, chunks, cfile, cseen, cstaged, cfk>>

\* The upload's commit: the file node, and a pending row for an eligible type.
UploadCommit(c) ==
    LET f == cfile[c] IN
    /\ cpc[c] = "save"
    /\ node' = [node EXCEPT ![f] = "live"]
    /\ \/ \E d \in FreshDocs : CreatePending(c, f, d)
       \/ ClientEnds(c) /\ UNCHANGED rows
    /\ UNCHANGED <<bytes, vec, lock, queue, up, abandoned, worker, budgets>>

\* POST /files/{id}/ingest reads the file's ingestion record, if it has one.
IngestRead(c, f) ==
    /\ Arrives(c, f)
    /\ node[f] = "live"
    /\ \/ /\ DocsOf(f) = {} /\ "none" \in RetryFrom
          /\ UNCHANGED <<cdoc, cseen>>
       \/ \E d \in DocsOf(f) :
            /\ status[d] \in RetryFrom
            /\ cdoc' = [cdoc EXCEPT ![c] = d]
            /\ cseen' = [cseen EXCEPT ![c] = status[d]]
    /\ ClientGoes(c, "write")
    /\ UNCHANGED <<tree, rows, vec, lock, queue, up, abandoned, worker,
                   cstaged, cfk, restarts, faults>>

\* No record was found: a new one is inserted, whoever inserted one meanwhile.
\* If the file is gone its foreign key fails.
IngestCreate(c) ==
    LET f == cfile[c] IN
    /\ cpc[c] = "write" /\ cdoc[c] = None
    /\ IF node[f] = "live"
       THEN \E d \in FreshDocs : CreatePending(c, f, d)
       ELSE ClientEnds(c) /\ UNCHANGED rows
    /\ UNCHANGED <<tree, vec, lock, queue, up, abandoned, worker, budgets>>

\* The record is reset to pending, whatever the worker on it is doing: the
\* UPDATE waits for the row lock, and none is sent if the record was read as
\* pending. A deleted row ends the request.
IngestReset(c) ==
    LET d == cdoc[c] IN
    /\ cpc[c] = "write" /\ d # None
    /\ IF status[d] = "none"
       THEN ClientEnds(c) /\ UNCHANGED <<status, abandoned>>
       ELSE /\ cseen[c] # "pending" => lock[d] = None
            /\ status' = [status EXCEPT ![d] = Put(@, cseen[c], "pending")]
            /\ abandoned' = IF cseen[c] = "pending" THEN abandoned ELSE abandoned \ {d}
            /\ ClientGoes(c, "enqueue")
            /\ UNCHANGED <<cfile, cdoc, cseen, cstaged, cfk>>
    /\ UNCHANGED <<tree, fileOf, hasRun, chunks, vec, lock, queue, up, worker, budgets>>

\* The response is sent and its background task submits the document.
Enqueue(c) ==
    /\ cpc[c] = "enqueue"
    /\ queue' = Append(queue, cdoc[c])
    /\ ClientEnds(c)
    /\ UNCHANGED <<tree, rows, vec, lock, up, abandoned, worker, budgets>>

\* A database fault while the response is built (read_node): the background
\* task never runs, the pending row is already committed.
ResponseFault(c) ==
    /\ cpc[c] = "enqueue"
    /\ faults < MaxDbFaults
    /\ faults' = faults + 1
    /\ abandoned' = abandoned \union {cdoc[c]}
    /\ ClientEnds(c)
    /\ UNCHANGED <<tree, rows, vec, lock, queue, up, worker, requests, restarts>>

\* DELETE /files/{id}: what is purged depends on the status read here.
DeleteRead(c, f) ==
    /\ Arrives(c, f)
    /\ node[f] = "live"
    /\ \/ DocsOf(f) = {} /\ ClientGoes(c, "delfiles") /\ UNCHANGED <<cdoc, cseen>>
       \/ \E d \in DocsOf(f) :
            /\ cdoc' = [cdoc EXCEPT ![c] = d]
            /\ cseen' = [cseen EXCEPT ![c] = status[d]]
            /\ ClientGoes(c, IF status[d] = "ready" THEN "delpurge" ELSE "delfiles")
    /\ UNCHANGED <<tree, rows, vec, lock, queue, up, abandoned, worker,
                   cstaged, cfk, restarts, faults>>

\* _purge_vectors: at once on Pinecone, in this transaction on pgvector.
DeletePurge(c) ==
    LET d == cdoc[c] IN
    /\ cpc[c] = "delpurge"
    /\ IF Backend = "pinecone"
       THEN vec' = [vec EXCEPT ![d] = FALSE] /\ UNCHANGED cstaged
       ELSE /\ \A w \in Workers : wdoc[w] = d => wstaged[w] = "keep"
            /\ \A x \in Clients : cdoc[x] = d => ~cstaged[x]
            /\ cstaged' = [cstaged EXCEPT ![c] = TRUE]
            /\ UNCHANGED vec
    /\ ClientGoes(c, "delfiles")
    /\ UNCHANGED <<tree, rows, lock, queue, up, abandoned, worker,
                   cfile, cdoc, cseen, cfk, budgets>>

\* The backend refuses the purge, or the database aborts the transaction: the
\* request ends in an error and its session rolls back.
DeleteAborts(c) ==
    /\ cpc[c] \in {"delpurge", "delrows"}
    /\ ClientEnds(c)
    /\ UNCHANGED <<tree, rows, vec, lock, queue, up, abandoned, worker, budgets>>

\* The stored bytes are removed, then the chunk and event rows seen now.
DeleteFiles(c) ==
    /\ cpc[c] = "delfiles"
    /\ bytes' = [bytes EXCEPT ![cfile[c]] = FALSE]
    /\ ClientGoes(c, "delrows")
    /\ UNCHANGED <<node, rows, vec, lock, queue, up, abandoned, worker,
                   cfile, cdoc, cseen, cstaged, cfk, budgets>>

\* The DELETE of the document row waits for its lock. It fails on the foreign
\* keys of rows committed since, and the DELETE of the node fails on a second
\* document of the file; then everything but the bytes is rolled back.
DeleteRows(c) ==
    LET f == cfile[c]  d == cdoc[c] IN
    /\ cpc[c] = "delrows"
    /\ d # None => lock[d] = None
    /\ IF cfk[c] \/ DocsOf(f) \ {d} # {}
       THEN UNCHANGED <<node, status, hasRun, chunks, vec>>
       ELSE /\ node' = [node EXCEPT ![f] = "gone"]
            /\ status' = [x \in Docs |-> IF x = d THEN "none" ELSE status[x]]
            /\ hasRun' = [x \in Docs |-> IF x = d THEN FALSE ELSE hasRun[x]]
            /\ chunks' = [x \in Docs |-> IF x = d THEN 0 ELSE chunks[x]]
            /\ vec' = [x \in Docs |-> IF x = d /\ cstaged[c] THEN FALSE ELSE vec[x]]
    /\ ClientEnds(c)
    /\ UNCHANGED <<bytes, fileOf, lock, queue, up, abandoned, worker, budgets>>

ClientStep(c) ==
    \/ UploadCommit(c) \/ IngestCreate(c) \/ IngestReset(c) \/ Enqueue(c)
    \/ DeletePurge(c) \/ DeleteAborts(c) \/ DeleteFiles(c) \/ DeleteRows(c)

--------------------------------------------------------------------------------
(* The process: crash, shutdown and the startup recovery *)

\* The process dies: threads, requests, the pool's queue and open transactions
\* are gone, committed rows, stored bytes and Pinecone vectors stay.
Crash ==
    /\ restarts < MaxRestarts
    /\ restarts' = restarts + 1
    /\ up \/ \E w \in Workers : wpc[w] # "idle"
    /\ up' = FALSE
    /\ queue' = <<>>
    /\ lock' = [d \in Docs |-> None]
    /\ wpc' = [w \in Workers |-> "idle"]
    /\ wdoc' = [w \in Workers |-> None]
    /\ wseen' = [w \in Workers |-> "none"]
    /\ wretry' = [w \in Workers |-> FALSE]
    /\ wstaged' = [w \in Workers |-> "keep"]
    /\ cpc' = [c \in Clients |-> "idle"]
    /\ cfile' = [c \in Clients |-> None]
    /\ cdoc' = [c \in Clients |-> None]
    /\ cseen' = [c \in Clients |-> "none"]
    /\ cstaged' = [c \in Clients |-> FALSE]
    /\ cfk' = [c \in Clients |-> FALSE]
    /\ UNCHANGED <<tree, rows, vec, abandoned, requests, faults>>

\* A graceful shutdown, after the last request: stop() cancels what is queued
\* and does not wait for what runs.
Stop ==
    /\ up
    /\ \A c \in Clients : cpc[c] = "idle"
    /\ restarts < MaxRestarts
    /\ restarts' = restarts + 1
    /\ up' = FALSE
    /\ queue' = <<>>
    /\ UNCHANGED <<tree, rows, vec, lock, abandoned, worker, client, requests, faults>>

\* An order of the ids in S, each once (pending_ids sorts by creation time).
Orders(S) == {q \in [1..Cardinality(S) -> S] : \A d \in S : \E i \in DOMAIN q : q[i] = d}

\* Mutant: recovery re-enqueues what is pending but resets nothing.
RecoverPendingOnly ==
    /\ ~up
    /\ \A w \in Workers : wpc[w] = "idle"
    /\ up' = TRUE
    /\ UNCHANGED status
    /\ queue' \in Orders({d \in Docs : status[d] = "pending"})
    /\ abandoned' = {}
    /\ UNCHANGED <<tree, fileOf, hasRun, chunks, vec, lock, worker, client, budgets>>

\* Startup of the next process: recover() resets what was left processing and
\* enqueues everything pending, before the first request.
Recover ==
    /\ ~up
    /\ \A w \in Workers : wpc[w] = "idle"
    /\ up' = TRUE
    /\ status' = [d \in Docs |-> IF status[d] = "processing" THEN "pending" ELSE status[d]]
    /\ queue' \in Orders({d \in Docs : status[d] \in {"pending", "processing"}})
    /\ abandoned' = {}
    /\ UNCHANGED <<tree, fileOf, hasRun, chunks, vec, lock, worker, client, budgets>>

--------------------------------------------------------------------------------
Next ==
    \/ \E w \in Workers : WorkerStep(w) \/ WorkerDbFault(w)
    \/ \E c \in Clients : ClientStep(c) \/ ResponseFault(c)
    \/ \E c \in Clients, f \in Files : UploadSave(c, f) \/ IngestRead(c, f) \/ DeleteRead(c, f)
    \/ Crash \/ Stop \/ Recover

Spec == Init /\ [][Next]_vars

\* Pool threads and requests are scheduled, and the calls they make return
\* (with a result or an exception). Nothing obliges anyone to send a request,
\* to restart the process, or the environment to fail.
Fairness ==
    /\ \A w \in Workers : WF_vars(WorkerStep(w))
    /\ \A c \in Clients : WF_vars(ClientStep(c))

FairSpec == Spec /\ Fairness

--------------------------------------------------------------------------------
(* What holds *)

InQueue(d) == \E i \in DOMAIN queue : queue[i] = d

\* Who will still bring a pending document to a claim.
Carried(d) ==
    \/ InQueue(d)
    \/ \E w \in Workers : wdoc[w] = d /\ wpc[w] = "claim"
    \/ \E c \in Clients : cdoc[c] = d /\ cpc[c] = "enqueue"

\* The workers that will still move d out of processing: one that has not yet
\* re-read the row, or read it as processing (so that its own status write is
\* not skipped by the ORM), or is in the recorder of last resort.
WillSettle(w, d) ==
    /\ wdoc[w] = d
    /\ \/ wpc[w] \in {"load", "begin", "refresh", "lastread", "lastwrite"}
       \/ wpc[w] \in {"purge", "start", "index", "finish"} /\ wseen[w] = "processing"

\* No document is stranded: while the process is up, a pending document is on
\* its way to a worker's claim and a processing one has a worker that will
\* settle it, whatever retries, deletes, crashes and failures happened before
\* (ingestion_queue.py: "a `pending` row is queued work"; the recovery and the
\* recorder of last resort exist for this). The exceptions are the documents
\* whose carrier died of a database fault that no handler covers.
NoStranded ==
    up => \A d \in Docs \ abandoned :
            /\ status[d] = "pending" => Carried(d)
            /\ status[d] = "processing" => \E w \in Workers : WillSettle(w, d)

\* At any time at most one worker is between a document's first pipeline flush
\* and its final commit, even when retries put two workers on the document:
\* the row lock serialises their vector writes and their outcomes.
OneWriter ==
    \A v, w \in Workers :
        /\ v # w /\ wdoc[v] = wdoc[w]
        /\ wpc[v] \in {"index", "finish"}
        => wpc[w] \notin {"index", "finish"}

\* The claim hands a document to exactly one worker (ingestion_queue.py:4-5).
OneWorkerPerDocument ==
    \A v, w \in Workers :
        /\ v # w /\ wdoc[v] = wdoc[w]
        /\ wpc[v] \notin {"idle", "claim", "lastread", "lastwrite"}
        => wpc[w] \in {"idle", "claim", "lastread", "lastwrite"}

\* A document shown as ready has its vectors and exactly one set of chunk rows,
\* however often it was re-ingested, interrupted or half deleted.
ReadyIndexed ==
    \A d \in Docs : status[d] = "ready" => vec[d] /\ chunks[d] = 1

\* Every queued or claimed document is eventually ready, failed or deleted,
\* unless the process goes down or a database fault takes its carrier.
Settles ==
    \A d \in Docs :
        status[d] \in {"pending", "processing"}
            ~> (status[d] \notin {"pending", "processing"} \/ ~up \/ d \in abandoned)

================================================================================
