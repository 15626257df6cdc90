----------------------------- MODULE BackendProofs -----------------------------
(***************************************************************************)
(* Proofs about the backend's services: about DocumentIngestion for every  *)
(* set of documents, files, workers and requests, either vector backend,   *)
(* any set of accepted retries and any bounds; about PipelineExecutor, for *)
(* any graphs; and about MCBackend, where what is proved of each service   *)
(* is shown to hold of all of them.                                        *)
(***************************************************************************)
EXTENDS MCBackend, FiniteSetTheorems, TLAPS

--------------------------------------------------------------------------------
(* Sequences of documents *)

\* A fresh pool's queue.
LEMMA EmptyQueue == <<>> \in Seq(Docs)
OBVIOUS

\* What a pool thread takes from the queue is a submitted id, and the rest of
\* the queue is the queue without its head.
LEMMA DequeueFacts ==
    ASSUME NEW S, NEW q \in Seq(S), q # <<>>
    PROVE  /\ Head(q) \in S
           /\ Tail(q) \in Seq(S)
           /\ \A i \in DOMAIN q : q[i] = Head(q)
                                    \/ \E j \in DOMAIN Tail(q) : Tail(q)[j] = q[i]
<1>1. Head(q) \in S /\ Tail(q) \in Seq(S)
  OBVIOUS
<1>2. ASSUME NEW i \in DOMAIN q
      PROVE  q[i] = Head(q) \/ \E j \in DOMAIN Tail(q) : Tail(q)[j] = q[i]
  <2>1. CASE i = 1
    BY <2>1
  <2>2. CASE i # 1
    <3>1. i \in 1..Len(q) /\ i - 1 \in 1..(Len(q) - 1)
      BY <2>2
    <3>2. DOMAIN Tail(q) = 1..(Len(q) - 1) /\ Tail(q)[i - 1] = q[i]
      BY <3>1
    <3>3. QED
      BY <3>1, <3>2
  <2>3. QED
    BY <2>1, <2>2
<1>3. QED
  BY <1>1, <1>2

\* Submitting an id keeps every id that was queued and adds the new one.
LEMMA EnqueueFacts ==
    ASSUME NEW S, NEW q \in Seq(S), NEW d \in S
    PROVE  /\ Append(q, d) \in Seq(S)
           /\ \E i \in DOMAIN Append(q, d) : Append(q, d)[i] = d
           /\ \A i \in DOMAIN q :
                i \in DOMAIN Append(q, d) /\ Append(q, d)[i] = q[i]
<1>1. /\ Append(q, d) \in Seq(S)
      /\ DOMAIN Append(q, d) = 1..(Len(q) + 1)
      /\ Append(q, d)[Len(q) + 1] = d
  OBVIOUS
<1>2. Len(q) + 1 \in DOMAIN Append(q, d)
  BY <1>1
<1>3. \A i \in DOMAIN q : i \in DOMAIN Append(q, d) /\ Append(q, d)[i] = q[i]
  OBVIOUS
<1>4. QED
  BY <1>1, <1>2, <1>3

\* The order in which recovery enqueues a set of documents is a sequence of
\* documents that contains all of them.
LEMMA OrderFacts ==
    ASSUME NEW S \in SUBSET Docs, NEW q \in Orders(S)
    PROVE  q \in Seq(Docs) /\ \A d \in S : \E i \in DOMAIN q : q[i] = d
<1>1. IsFiniteSet(S)
  BY IdsAssumption, FS_Subset
<1>2. Cardinality(S) \in Nat
  BY <1>1, FS_CardinalityType
<1>3. q \in [1..Cardinality(S) -> S] /\ \A d \in S : \E i \in DOMAIN q : q[i] = d
  BY DEF Orders
<1>4. q \in Seq(Docs)
  BY <1>2, <1>3
<1>5. QED
  BY <1>3, <1>4

--------------------------------------------------------------------------------
(* Type correctness *)

USE DEF tree, rows, worker, client, budgets

\* What a commit makes of a row's status and vectors is of the right kind.
LEMMA CommitFacts ==
    ASSUME StoresType
    PROVE  /\ \A at, before, after \in RowStates : Put(at, before, after) \in RowStates
           /\ \A d \in Docs, s \in {"keep", "purged", "indexed"} : Applied(d, s) \in BOOLEAN
BY DEF StoresType, Put, Applied

\* A worker writes values of the right kind to the stores.
LEMMA WorkerStoresType ==
    ASSUME TypeOK, NEW w \in Workers, WorkerStep(w) \/ WorkerDbFault(w)
    PROVE  StoresType'
<1> USE DEF TypeOK, StoresType, WorkersType, RowStates, Statuses, Settled, WorkerPcs
<1>1. CASE Dequeue(w)
  BY <1>1, DequeueFacts DEF Dequeue
<1>2. CASE Claim(w)
  BY <1>2 DEF Claim, WorkerGoes
<1>3. CASE Load(w)
  BY <1>3 DEF Load, WorkerGoes
<1>4. CASE Begin(w)
  BY <1>4 DEF Begin, WorkerGoes, Put
<1>5. CASE BeginFails(w)
  BY <1>5 DEF BeginFails, WorkerGoes
<1>6. CASE Refresh(w)
  BY <1>6 DEF Refresh, WorkerGoes
<1>7. CASE Purge(w)
  BY <1>7 DEF Purge, WorkerGoes
<1>8. CASE PurgeFails(w)
  BY <1>8 DEF PurgeFails, WorkerGoes
<1>9. CASE Start(w)
  BY <1>9 DEF Start, WorkerGoes
<1>10. CASE Index(w)
  BY <1>10 DEF Index, WorkerGoes
<1>11. CASE Succeed(w)
  BY <1>11, CommitFacts DEF Succeed, PersistChunks, Unlock
<1>12. CASE Fail(w)
  BY <1>12, CommitFacts DEF Fail, RecordFailure, Unlock
<1>13. CASE Poison(w)
  BY <1>13 DEF Poison, WorkerGoes, Unlock, WorkerForgets
<1>14. CASE LastRead(w)
  BY <1>14 DEF LastRead, WorkerGoes, WorkerForgets
<1>15. CASE LastWrite(w)
  BY <1>15 DEF LastWrite, WorkerGoes
<1>16. CASE WorkerDbFault(w)
  BY <1>16 DEF WorkerDbFault, WorkerGoes, WorkerForgets
<1>17. QED
  BY <1>1, <1>2, <1>3, <1>4, <1>5, <1>6, <1>7, <1>8, <1>9, <1>10, <1>11, <1>12, <1>13, <1>14, <1>15, <1>16 DEF WorkerStep

\* A worker keeps a well-formed local state.
LEMMA WorkerWorkersType ==
    ASSUME TypeOK, NEW w \in Workers, WorkerStep(w) \/ WorkerDbFault(w)
    PROVE  WorkersType'
<1> USE DEF TypeOK, StoresType, WorkersType, ProcessType, RowStates, Statuses, Settled, WorkerPcs
<1>1. CASE Dequeue(w)
  BY <1>1, DequeueFacts DEF Dequeue
<1>2. CASE Claim(w)
  <2>1. CASE WorkerGoes(w, "load")
    BY <1>2, <2>1 DEF Claim, WorkerGoes
  <2>2. CASE WorkerGoes(w, "idle")
    BY <1>2, <2>2 DEF Claim, WorkerGoes
  <2>3. QED
    BY <1>2, <2>1, <2>2 DEF Claim
<1>3. CASE Load(w)
  <2>1. CASE WorkerGoes(w, "begin") /\ status[wdoc[w]] # "none"
    <3>1. wdoc[w] \in Docs /\ wpc' = [wpc EXCEPT ![w] = "begin"] /\ wdoc' = wdoc
      BY <1>3, <2>1 DEF Load, WorkerGoes
    <3>2. wseen' \in [Workers -> RowStates]
      BY <1>3, <2>1, <3>1 DEF Load
    <3>3. wretry' \in [Workers -> BOOLEAN]
      <4>1. wretry' = [wretry EXCEPT ![w] = hasRun[wdoc[w]]]
        BY <1>3, <2>1 DEF Load
      <4>2. hasRun[wdoc[w]] \in BOOLEAN
        BY <3>1
      <4>3. QED
        BY <4>1, <4>2, Zenon
    <3>4. QED
      BY <1>3, <3>1, <3>2, <3>3 DEF Load
  <2>2. CASE WorkerGoes(w, "idle") /\ status[wdoc[w]] = "none"
    BY <1>3, <2>2 DEF Load, WorkerGoes
  <2>3. QED
    BY <1>3, <2>1, <2>2 DEF Load
<1>4. CASE Begin(w)
  BY <1>4, ZenonT(60) DEF Begin, WorkerGoes, Put
<1>5. CASE BeginFails(w)
  BY <1>5 DEF BeginFails, WorkerGoes
<1>6. CASE Refresh(w)
  BY <1>6, ZenonT(60) DEF Refresh, WorkerGoes
<1>7. CASE Purge(w)
  BY <1>7 DEF Purge, WorkerGoes
<1>8. CASE PurgeFails(w)
  BY <1>8 DEF PurgeFails, WorkerGoes
<1>9. CASE Start(w)
  BY <1>9 DEF Start, WorkerGoes
<1>10. CASE Index(w)
  BY <1>10 DEF Index, WorkerGoes
<1>11. CASE Succeed(w)
  BY <1>11 DEF Succeed, PersistChunks, WorkerGoes, Put, Applied, ChildrenAdded, Unlock, WorkerForgets
<1>12. CASE Fail(w)
  BY <1>12 DEF Fail, RecordFailure, WorkerGoes, Put, Applied, ChildrenAdded, Unlock, WorkerForgets
<1>13. CASE Poison(w)
  BY <1>13 DEF Poison, WorkerGoes, Unlock, WorkerForgets
<1>14. CASE LastRead(w)
  BY <1>14 DEF LastRead, WorkerGoes, WorkerForgets
<1>15. CASE LastWrite(w)
  BY <1>15 DEF LastWrite, WorkerGoes
<1>16. CASE WorkerDbFault(w)
  BY <1>16 DEF WorkerDbFault, WorkerGoes, WorkerForgets
<1>17. QED
  BY <1>1, <1>2, <1>3, <1>4, <1>5, <1>6, <1>7, <1>8, <1>9, <1>10, <1>11, <1>12, <1>13, <1>14, <1>15, <1>16 DEF WorkerStep

\* A worker does nothing to requests but add to what a delete must check.
LEMMA WorkerClientsType ==
    ASSUME TypeOK, NEW w \in Workers, WorkerStep(w) \/ WorkerDbFault(w)
    PROVE  ClientsType'
<1> USE DEF TypeOK, ClientsType
<1>1. CASE Dequeue(w)
  BY <1>1, DequeueFacts DEF Dequeue
<1>2. CASE Claim(w)
  BY <1>2 DEF Claim, WorkerGoes
<1>3. CASE Load(w)
  BY <1>3 DEF Load, WorkerGoes
<1>4. CASE Begin(w)
  BY <1>4 DEF Begin, WorkerGoes, Put
<1>5. CASE BeginFails(w)
  BY <1>5 DEF BeginFails, WorkerGoes
<1>6. CASE Refresh(w)
  BY <1>6 DEF Refresh, WorkerGoes
<1>7. CASE Purge(w)
  BY <1>7 DEF Purge, WorkerGoes
<1>8. CASE PurgeFails(w)
  BY <1>8 DEF PurgeFails, WorkerGoes
<1>9. CASE Start(w)
  BY <1>9 DEF Start, WorkerGoes
<1>10. CASE Index(w)
  BY <1>10 DEF Index, WorkerGoes
<1>11. CASE Succeed(w)
  BY <1>11 DEF Succeed, PersistChunks, WorkerGoes, Put, Applied, ChildrenAdded, Unlock, WorkerForgets
<1>12. CASE Fail(w)
  BY <1>12 DEF Fail, RecordFailure, WorkerGoes, Put, Applied, ChildrenAdded, Unlock, WorkerForgets
<1>13. CASE Poison(w)
  BY <1>13 DEF Poison, WorkerGoes, Unlock, WorkerForgets
<1>14. CASE LastRead(w)
  BY <1>14 DEF LastRead, WorkerGoes, WorkerForgets
<1>15. CASE LastWrite(w)
  BY <1>15 DEF LastWrite, WorkerGoes
<1>16. CASE WorkerDbFault(w)
  BY <1>16 DEF WorkerDbFault, WorkerGoes, WorkerForgets
<1>17. QED
  BY <1>1, <1>2, <1>3, <1>4, <1>5, <1>6, <1>7, <1>8, <1>9, <1>10, <1>11, <1>12, <1>13, <1>14, <1>15, <1>16 DEF WorkerStep

\* A worker keeps the queue a sequence of documents.
LEMMA WorkerProcessType ==
    ASSUME TypeOK, NEW w \in Workers, WorkerStep(w) \/ WorkerDbFault(w)
    PROVE  ProcessType'
<1> USE DEF TypeOK, ProcessType, WorkersType, WorkerPcs
<1>1. CASE Dequeue(w)
  BY <1>1, DequeueFacts DEF Dequeue
<1>2. CASE Claim(w)
  BY <1>2 DEF Claim, WorkerGoes
<1>3. CASE Load(w)
  BY <1>3 DEF Load, WorkerGoes
<1>4. CASE Begin(w)
  BY <1>4 DEF Begin, WorkerGoes, Put
<1>5. CASE BeginFails(w)
  BY <1>5 DEF BeginFails, WorkerGoes
<1>6. CASE Refresh(w)
  BY <1>6 DEF Refresh, WorkerGoes
<1>7. CASE Purge(w)
  BY <1>7 DEF Purge, WorkerGoes
<1>8. CASE PurgeFails(w)
  BY <1>8 DEF PurgeFails, WorkerGoes
<1>9. CASE Start(w)
  BY <1>9 DEF Start, WorkerGoes
<1>10. CASE Index(w)
  BY <1>10 DEF Index, WorkerGoes
<1>11. CASE Succeed(w)
  BY <1>11 DEF Succeed, PersistChunks, WorkerGoes, Put, Applied, ChildrenAdded, Unlock, WorkerForgets
<1>12. CASE Fail(w)
  BY <1>12 DEF Fail, RecordFailure, WorkerGoes, Put, Applied, ChildrenAdded, Unlock, WorkerForgets
<1>13. CASE Poison(w)
  BY <1>13 DEF Poison, WorkerGoes, Unlock, WorkerForgets
<1>14. CASE LastRead(w)
  BY <1>14 DEF LastRead, WorkerGoes, WorkerForgets
<1>15. CASE LastWrite(w)
  BY <1>15 DEF LastWrite, WorkerGoes
<1>16. CASE WorkerDbFault(w)
  BY <1>16 DEF WorkerDbFault, WorkerGoes, WorkerForgets
<1>17. QED
  BY <1>1, <1>2, <1>3, <1>4, <1>5, <1>6, <1>7, <1>8, <1>9, <1>10, <1>11, <1>12, <1>13, <1>14, <1>15, <1>16 DEF WorkerStep

\* The steps of requests and of the process keep the types.
ClientAction(c) ==
    \/ ClientStep(c) \/ ResponseFault(c)
    \/ \E f \in Files : UploadSave(c, f) \/ IngestRead(c, f) \/ DeleteRead(c, f)

\* A request writes values of the right kind to the stores.
LEMMA ClientStoresType ==
    ASSUME TypeOK, NEW c \in Clients, ClientAction(c)
    PROVE  StoresType'
<1> USE DEF TypeOK, StoresType, ClientsType, RowStates, Statuses, Settled, ClientPcs
<1>1. CASE UploadCommit(c)
  BY <1>1 DEF UploadCommit, CreatePending, FreshDocs, ClientGoes, ClientEnds
<1>2. CASE IngestCreate(c)
  BY <1>2 DEF IngestCreate, CreatePending, FreshDocs, ClientGoes, ClientEnds
<1>3. CASE IngestReset(c)
  BY <1>3 DEF IngestReset, Put, ClientGoes, ClientEnds
<1>4. CASE Enqueue(c)
  BY <1>4, EnqueueFacts DEF Enqueue, ClientEnds
<1>5. CASE DeletePurge(c)
  BY <1>5 DEF DeletePurge, ClientGoes
<1>6. CASE DeleteAborts(c)
  BY <1>6 DEF DeleteAborts, ClientEnds
<1>7. CASE DeleteFiles(c)
  BY <1>7 DEF DeleteFiles, ClientGoes
<1>8. CASE DeleteRows(c)
  <2>1. CASE UNCHANGED <<node, status, hasRun, chunks, vec>>
    BY <1>8, <2>1 DEF DeleteRows
  <2>2. CASE ~UNCHANGED <<node, status, hasRun, chunks, vec>>
    <3> DEFINE d == cdoc[c]
    <3>1. /\ node' = [node EXCEPT ![cfile[c]] = "gone"]
          /\ status' = [x \in Docs |-> IF x = d THEN "none" ELSE status[x]]
          /\ hasRun' = [x \in Docs |-> IF x = d THEN FALSE ELSE hasRun[x]]
          /\ chunks' = [x \in Docs |-> IF x = d THEN 0 ELSE chunks[x]]
          /\ vec' = [x \in Docs |-> IF x = d /\ cstaged[c] THEN FALSE ELSE vec[x]]
          /\ UNCHANGED <<bytes, fileOf, lock>>
      BY <1>8, <2>2, Zenon DEF DeleteRows
    <3>2. /\ node' \in [Files -> {"unborn", "live", "gone"}]
          /\ status' \in [Docs -> RowStates]
          /\ chunks' \in [Docs -> Nat]
      BY <3>1
    <3>3. hasRun' \in [Docs -> BOOLEAN] /\ vec' \in [Docs -> BOOLEAN]
      BY <3>1, Zenon
    <3>4. QED
      BY <3>1, <3>2, <3>3
  <2>3. QED
    BY <2>1, <2>2
<1>9. CASE ResponseFault(c)
  BY <1>9 DEF ResponseFault, ClientEnds
<1>10. CASE \E f \in Files : UploadSave(c, f)
  BY <1>10 DEF UploadSave, Arrives, ClientGoes
<1>11. CASE \E f \in Files : IngestRead(c, f)
  BY <1>11 DEF IngestRead, Arrives, DocsOf, ClientGoes
<1>12. CASE \E f \in Files : DeleteRead(c, f)
  BY <1>12 DEF DeleteRead, Arrives, DocsOf, ClientGoes
<1>13. QED
  BY <1>1, <1>2, <1>3, <1>4, <1>5, <1>6, <1>7, <1>8, <1>9, <1>10, <1>11, <1>12
     DEF ClientAction, ClientStep

\* A request leaves the workers alone.
LEMMA ClientWorkersType ==
    ASSUME TypeOK, NEW c \in Clients, ClientAction(c)
    PROVE  WorkersType'
<1> USE DEF TypeOK, WorkersType
<1>1. CASE UploadCommit(c)
  BY <1>1 DEF UploadCommit, CreatePending, FreshDocs, ClientGoes, ClientEnds
<1>2. CASE IngestCreate(c)
  BY <1>2 DEF IngestCreate, CreatePending, FreshDocs, ClientGoes, ClientEnds
<1>3. CASE IngestReset(c)
  BY <1>3 DEF IngestReset, Put, ClientGoes, ClientEnds
<1>4. CASE Enqueue(c)
  BY <1>4, EnqueueFacts DEF Enqueue, ClientEnds
<1>5. CASE DeletePurge(c)
  BY <1>5 DEF DeletePurge, ClientGoes
<1>6. CASE DeleteAborts(c)
  BY <1>6 DEF DeleteAborts, ClientEnds
<1>7. CASE DeleteFiles(c)
  BY <1>7 DEF DeleteFiles, ClientGoes
<1>8. CASE DeleteRows(c)
  BY <1>8 DEF DeleteRows, ClientEnds
<1>9. CASE ResponseFault(c)
  BY <1>9 DEF ResponseFault, ClientEnds
<1>10. CASE \E f \in Files : UploadSave(c, f)
  BY <1>10 DEF UploadSave, Arrives, ClientGoes
<1>11. CASE \E f \in Files : IngestRead(c, f)
  BY <1>11 DEF IngestRead, Arrives, DocsOf, ClientGoes
<1>12. CASE \E f \in Files : DeleteRead(c, f)
  BY <1>12 DEF DeleteRead, Arrives, DocsOf, ClientGoes
<1>13. QED
  BY <1>1, <1>2, <1>3, <1>4, <1>5, <1>6, <1>7, <1>8, <1>9, <1>10, <1>11, <1>12
     DEF ClientAction, ClientStep

\* A request that ends, and one that has inserted its record, are well formed.
LEMMA EndsType ==
    ASSUME ClientsType, NEW c \in Clients, ClientEnds(c)
    PROVE  ClientsType'
BY DEF ClientsType, ClientEnds, ClientPcs, RowStates

\* A request that creates a document stays well typed.
LEMMA CreateType ==
    ASSUME ClientsType, NEW c \in Clients, cpc[c] # "idle", NEW f, NEW d \in Docs,
           CreatePending(c, f, d)
    PROVE  ClientsType'
BY DEF ClientsType, CreatePending, ClientGoes, ClientPcs

\* A request keeps a well-formed local state.
LEMMA ClientClientsType ==
    ASSUME TypeOK, NEW c \in Clients, ClientAction(c)
    PROVE  ClientsType'
<1> USE DEF TypeOK, StoresType, ClientsType, RowStates, Statuses, Settled, ClientPcs
<1>1. CASE UploadCommit(c)
  BY <1>1, EndsType, CreateType DEF UploadCommit, FreshDocs
<1>2. CASE IngestCreate(c)
  BY <1>2, EndsType, CreateType DEF IngestCreate, FreshDocs
<1>3. CASE IngestReset(c)
  BY <1>3, EndsType DEF IngestReset, ClientGoes
<1>4. CASE Enqueue(c)
  BY <1>4, EnqueueFacts DEF Enqueue, ClientEnds
<1>5. CASE DeletePurge(c)
  BY <1>5 DEF DeletePurge, ClientGoes
<1>6. CASE DeleteAborts(c)
  BY <1>6 DEF DeleteAborts, ClientEnds
<1>7. CASE DeleteFiles(c)
  BY <1>7 DEF DeleteFiles, ClientGoes
<1>8. CASE DeleteRows(c)
  BY <1>8 DEF DeleteRows, ClientEnds
<1>9. CASE ResponseFault(c)
  BY <1>9 DEF ResponseFault, ClientEnds
<1>10. CASE \E f \in Files : UploadSave(c, f)
  BY <1>10 DEF UploadSave, Arrives, ClientGoes
<1>11. CASE \E f \in Files : IngestRead(c, f)
  BY <1>11 DEF IngestRead, Arrives, DocsOf, ClientGoes
<1>12. CASE \E f \in Files : DeleteRead(c, f)
  BY <1>12 DEF DeleteRead, Arrives, DocsOf, ClientGoes
<1>13. QED
  BY <1>1, <1>2, <1>3, <1>4, <1>5, <1>6, <1>7, <1>8, <1>9, <1>10, <1>11, <1>12
     DEF ClientAction, ClientStep

\* A request submits documents only.
LEMMA ClientProcessType ==
    ASSUME TypeOK, NEW c \in Clients, ClientAction(c)
    PROVE  ProcessType'
<1> USE DEF TypeOK, ProcessType, ClientsType, ClientPcs
<1>1. CASE UploadCommit(c)
  BY <1>1 DEF UploadCommit, CreatePending, FreshDocs, ClientGoes, ClientEnds
<1>2. CASE IngestCreate(c)
  BY <1>2 DEF IngestCreate, CreatePending, FreshDocs, ClientGoes, ClientEnds
<1>3. CASE IngestReset(c)
  BY <1>3 DEF IngestReset, Put, ClientGoes, ClientEnds
<1>4. CASE Enqueue(c)
  BY <1>4, EnqueueFacts DEF Enqueue, ClientEnds
<1>5. CASE DeletePurge(c)
  BY <1>5 DEF DeletePurge, ClientGoes
<1>6. CASE DeleteAborts(c)
  BY <1>6 DEF DeleteAborts, ClientEnds
<1>7. CASE DeleteFiles(c)
  BY <1>7 DEF DeleteFiles, ClientGoes
<1>8. CASE DeleteRows(c)
  BY <1>8 DEF DeleteRows, ClientEnds
<1>9. CASE ResponseFault(c)
  BY <1>9 DEF ResponseFault, ClientEnds
<1>10. CASE \E f \in Files : UploadSave(c, f)
  BY <1>10 DEF UploadSave, Arrives, ClientGoes
<1>11. CASE \E f \in Files : IngestRead(c, f)
  BY <1>11 DEF IngestRead, Arrives, DocsOf, ClientGoes
<1>12. CASE \E f \in Files : DeleteRead(c, f)
  BY <1>12 DEF DeleteRead, Arrives, DocsOf, ClientGoes
<1>13. QED
  BY <1>1, <1>2, <1>3, <1>4, <1>5, <1>6, <1>7, <1>8, <1>9, <1>10, <1>11, <1>12
     DEF ClientAction, ClientStep

\* TypeOK is inductive.
LEMMA TypeStep ==
    ASSUME TypeOK, [Next]_vars
    PROVE  TypeOK'
<1>1. CASE UNCHANGED vars
  BY <1>1 DEF TypeOK, StoresType, WorkersType, ClientsType, ProcessType, vars
<1>2. CASE \E w \in Workers : WorkerStep(w) \/ WorkerDbFault(w)
  BY <1>2, WorkerStoresType, WorkerWorkersType, WorkerClientsType, WorkerProcessType
     DEF TypeOK
<1>3. CASE \E c \in Clients : ClientAction(c)
  BY <1>3, ClientStoresType, ClientWorkersType, ClientClientsType, ClientProcessType
     DEF TypeOK
<1>4. CASE Crash
  <2>1. StoresType'
    BY <1>4 DEF Crash, TypeOK, StoresType
  <2>2. WorkersType'
    BY <1>4 DEF Crash, TypeOK, WorkersType, WorkerPcs, RowStates
  <2>3. ClientsType'
    BY <1>4 DEF Crash, TypeOK, ClientsType, ClientPcs, RowStates
  <2>4. ProcessType'
    <3>1. restarts' \in Nat
      BY <1>4 DEF Crash, TypeOK, ProcessType
    <3>2. QED
      BY <1>4, <3>1, EmptyQueue, Zenon DEF Crash, TypeOK, ProcessType
  <2>5. QED
    BY <2>1, <2>2, <2>3, <2>4 DEF TypeOK
<1>5. CASE Stop
  <2>1. restarts' \in Nat
    BY <1>5 DEF Stop, TypeOK, ProcessType
  <2>2. ProcessType'
    BY <1>5, <2>1, EmptyQueue, Zenon DEF Stop, TypeOK, ProcessType
  <2>3. QED
    BY <1>5, <2>2 DEF Stop, TypeOK, StoresType, WorkersType, ClientsType
<1>6. CASE Recover
  <2>1. queue' \in Seq(Docs)
    BY <1>6, OrderFacts DEF Recover
  <2>2. status' \in [Docs -> RowStates]
    BY <1>6 DEF Recover, TypeOK, StoresType, RowStates, Statuses
  <2>3. QED
    BY <1>6, <2>1, <2>2
       DEF Recover, TypeOK, StoresType, WorkersType, ClientsType, ProcessType
<1>7. QED
  BY <1>1, <1>2, <1>3, <1>4, <1>5, <1>6 DEF Next, ClientAction

\* The initial state is well typed.
LEMMA TypeInit == Init => TypeOK
BY DEF Init, TypeOK, StoresType, WorkersType, ClientsType, ProcessType,
       WorkerPcs, ClientPcs, RowStates

\* Every reachable state of the ingestion system is well typed: a busy thread
\* or request always knows its document or file.
THEOREM TypeCorrect == Spec => []TypeOK
<1>1. Init => TypeOK
  BY TypeInit
<1>2. TypeOK /\ [Next]_vars => TypeOK'
  BY TypeStep
<1>3. QED
  BY <1>1, <1>2, PTL DEF Spec

--------------------------------------------------------------------------------
(* The row lock *)

\* A worker between its run's first flush and its last commit holds the row
\* lock of its document.
RowLocks ==
    \A w \in Workers : wpc[w] \in {"index", "finish"} => lock[wdoc[w]] = w

\* Two such workers are on different documents: a lock has one holder.
LEMMA LocksExclude == RowLocks => OneWriter
BY DEF RowLocks, OneWriter

\* RowLocks is inductive: Start takes the lock only when nobody holds it, and a
\* transaction that ends releases its own locks only.
LEMMA LocksStep ==
    ASSUME TypeOK, RowLocks, [Next]_vars
    PROVE  RowLocks'
<1> USE DEF RowLocks
<1>1. CASE UNCHANGED vars
  BY <1>1 DEF vars
<1>2. ASSUME NEW w \in Workers, WorkerStep(w) \/ WorkerDbFault(w)
      PROVE  RowLocks'
  <2> USE DEF TypeOK, StoresType, WorkersType, WorkerGoes
  <2>1. CASE Dequeue(w)
    BY <2>1 DEF Dequeue
  <2>2. CASE Claim(w) \/ Load(w)
    BY <2>2 DEF Claim, Load
  <2>3. CASE Begin(w) \/ BeginFails(w) \/ Refresh(w)
    BY <2>3 DEF Begin, BeginFails, Refresh
  <2>4. CASE Purge(w) \/ PurgeFails(w)
    BY <2>4 DEF Purge, PurgeFails
  <2>5. CASE Start(w)
    BY <2>5, IdsAssumption DEF Start
  <2>6. CASE Index(w)
    BY <2>6 DEF Index
  <2>7. CASE Succeed(w) \/ Fail(w) \/ Poison(w)
    <3>1. /\ Unlock(w)
          /\ WorkerGoes(w, "idle") \/ WorkerGoes(w, "lastread")
      BY <2>7 DEF Succeed, Fail, Poison
    <3>2. QED
      BY <3>1 DEF Unlock
  <2>8. CASE LastRead(w) \/ LastWrite(w) \/ WorkerDbFault(w)
    BY <2>8 DEF LastRead, LastWrite, WorkerDbFault
  <2>9. QED
    BY <1>2, <2>1, <2>2, <2>3, <2>4, <2>5, <2>6, <2>7, <2>8 DEF WorkerStep
<1>3. ASSUME NEW c \in Clients, ClientAction(c)
      PROVE  UNCHANGED <<worker, lock>>
  BY <1>3 DEF ClientAction, ClientStep, UploadCommit, IngestCreate, IngestReset,
              Enqueue, DeletePurge, DeleteAborts, DeleteFiles, DeleteRows,
              ResponseFault, UploadSave, IngestRead, DeleteRead
<1>4. CASE Crash
  BY <1>4 DEF Crash
<1>5. CASE Stop \/ Recover
  BY <1>5 DEF Stop, Recover
<1>6. QED
  BY <1>1, <1>2, <1>3, <1>4, <1>5 DEF Next, ClientAction

\* Whatever retries are accepted, two workers are never writing the vectors and
\* the outcome of one document at the same time.
THEOREM WritersSerialised == Spec => []OneWriter
<1>1. Init => TypeOK /\ RowLocks
  BY TypeInit DEF Init, RowLocks
<1>2. TypeOK /\ RowLocks /\ [Next]_vars => TypeOK' /\ RowLocks'
  BY TypeStep, LocksStep
<1>3. RowLocks => OneWriter
  BY LocksExclude
<1>4. QED
  BY <1>1, <1>2, <1>3, PTL DEF Spec

--------------------------------------------------------------------------------
(* No document is stranded *)

\* NoStranded, of one document.
Served(d) ==
    /\ status[d] = "pending" => Carried(d)
    /\ status[d] = "processing" => \E w \in Workers : WillSettle(w, d)

\* NoStranded, said of each document.
LEMMA NoStrandedIsServed == NoStranded <=> (up => \A d \in Docs \ abandoned : Served(d))
BY DEF NoStranded, Served

\* A step of a worker leaves every other document's carriers and workers alone.
LEMMA OtherDocuments ==
    ASSUME TypeOK, NEW w \in Workers, NEW d \in Docs, Served(d), wdoc[w] # d,
           wdoc' = [wdoc EXCEPT ![w] = wdoc'[w]], wdoc'[w] # d,
           wpc' = [wpc EXCEPT ![w] = wpc'[w]],
           wseen' = [wseen EXCEPT ![w] = wseen'[w]],
           status'[d] = status[d], UNCHANGED <<queue, cpc, cdoc>>
    PROVE  Served(d)'
<1> USE DEF TypeOK, WorkersType
<1>1. Carried(d) => Carried(d)'
  BY DEF Carried, InQueue
<1>2. ASSUME NEW v \in Workers, WillSettle(v, d)
      PROVE  WillSettle(v, d)'
  BY <1>2 DEF WillSettle
<1>3. QED
  BY <1>1, <1>2 DEF Served

\* The carriers of a pending document survive the step of a worker that is not
\* about to claim.
LEMMA CarriersStay ==
    ASSUME TypeOK, NEW w \in Workers, NEW d \in Docs, wpc[w] # "claim", Carried(d),
           wdoc' = [wdoc EXCEPT ![w] = wdoc'[w]],
           wpc' = [wpc EXCEPT ![w] = wpc'[w]],
           UNCHANGED <<queue, cpc, cdoc>>
    PROVE  Carried(d)'
BY DEF TypeOK, WorkersType, Carried, InQueue

\* A worker that will settle d is not disturbed by another worker's step.
LEMMA OthersSettle ==
    ASSUME TypeOK, NEW w \in Workers, NEW v \in Workers, v # w, NEW d \in Docs,
           WillSettle(v, d),
           wdoc' = [wdoc EXCEPT ![w] = wdoc'[w]],
           wpc' = [wpc EXCEPT ![w] = wpc'[w]],
           wseen' = [wseen EXCEPT ![w] = wseen'[w]]
    PROVE  WillSettle(v, d)'
BY DEF TypeOK, WorkersType, WillSettle

\* What a step of worker w can touch: its own local state and its document.
LocalTo(w) ==
    /\ wdoc' = [wdoc EXCEPT ![w] = wdoc'[w]]
    /\ wpc' = [wpc EXCEPT ![w] = wpc'[w]]
    /\ wseen' = [wseen EXCEPT ![w] = wseen'[w]]
    /\ wdoc'[w] \in {wdoc[w], None}
    /\ \A e \in Docs : e # wdoc[w] => status'[e] = status[e]
    /\ UNCHANGED <<queue, cpc, cdoc, up>>

\* A worker writes its own variables and the row of its document.
LEMMA WorkerFrame ==
    ASSUME TypeOK, NEW w \in Workers, WorkerStep(w) \/ WorkerDbFault(w), ~Dequeue(w)
    PROVE  LocalTo(w)
<1> USE DEF TypeOK, StoresType, WorkersType, LocalTo, WorkerGoes
<1>1. CASE Claim(w) \/ Load(w)
  BY <1>1 DEF Claim, Load
<1>2. CASE Begin(w) \/ BeginFails(w) \/ Refresh(w)
  BY <1>2 DEF Begin, BeginFails, Refresh
<1>3. CASE Purge(w) \/ PurgeFails(w) \/ Start(w) \/ Index(w)
  BY <1>3 DEF Purge, PurgeFails, Start, Index
<1>4. CASE Succeed(w)
  BY <1>4 DEF Succeed, PersistChunks, WorkerForgets
<1>5. CASE Fail(w)
  BY <1>5 DEF Fail, RecordFailure, WorkerForgets
<1>6. CASE Poison(w) \/ LastRead(w) \/ LastWrite(w) \/ WorkerDbFault(w)
  BY <1>6 DEF Poison, LastRead, LastWrite, WorkerDbFault, WorkerForgets
<1>7. QED
  BY <1>1, <1>2, <1>3, <1>4, <1>5, <1>6 DEF WorkerStep

\* Taking an id from the queue turns one carrier into another.
LEMMA DequeueServes ==
    ASSUME TypeOK, NEW w \in Workers, Dequeue(w), NEW d \in Docs, Served(d)
    PROVE  Served(d)'
<1> USE DEF TypeOK, WorkersType, ProcessType
<1>1. /\ wpc[w] = "idle" /\ queue # <<>> /\ queue' = Tail(queue)
      /\ wpc' = [wpc EXCEPT ![w] = "claim"]
      /\ wdoc' = [wdoc EXCEPT ![w] = Head(queue)]
      /\ UNCHANGED <<status, wseen, cpc, cdoc>>
  BY DEF Dequeue
<1>2. ASSUME Carried(d) PROVE Carried(d)'
  <2>1. CASE InQueue(d)
    <3>1. d = Head(queue) \/ InQueue(d)'
      BY <1>1, <2>1, DequeueFacts DEF InQueue
    <3>2. QED
      BY <1>1, <3>1 DEF Carried
  <2>2. CASE ~InQueue(d)
    BY <1>1, <1>2, <2>2 DEF Carried
  <2>3. QED
    BY <2>1, <2>2
<1>3. ASSUME NEW v \in Workers, WillSettle(v, d) PROVE WillSettle(v, d)'
  BY <1>1, <1>3 DEF WillSettle
<1>4. QED
  BY <1>1, <1>2, <1>3 DEF Served

\* Every step of a worker keeps its own document served.
LEMMA OwnDocument ==
    ASSUME TypeOK, NEW w \in Workers, WorkerStep(w), ~Dequeue(w),
           NEW d \in Docs, wdoc[w] = d, Served(d)
    PROVE  Served(d)'
<1> SUFFICES /\ status'[d] = "pending" => Carried(d)'
             /\ status'[d] = "processing" => \E v \in Workers : WillSettle(v, d)'
  BY DEF Served
<1> USE DEF TypeOK, StoresType, WorkersType
<1>0. LocalTo(w)
  BY WorkerFrame
<1>a. ASSUME wpc[w] # "claim", status[d] = "pending" PROVE Carried(d)'
  BY <1>0, <1>a, CarriersStay DEF Served, LocalTo
<1>b. ASSUME NEW v \in Workers, v # w, WillSettle(v, d) PROVE WillSettle(v, d)'
  BY <1>0, <1>b, OthersSettle DEF LocalTo
<1> USE DEF WorkerGoes
<1>1. CASE Claim(w)
  <2>1. CASE status[d] = "pending"
    <3>1. status'[d] = "processing" /\ wpc'[w] = "load" /\ wdoc'[w] = d
      BY <1>0, <1>1, <2>1 DEF Claim
    <3>2. QED
      BY <3>1 DEF WillSettle
  <2>2. CASE status[d] # "pending"
    <3>1. status' = status /\ ~WillSettle(w, d)
      BY <1>1, <2>2 DEF Claim, WillSettle
    <3>2. QED
      BY <1>b, <2>2, <3>1 DEF Served
  <2>3. QED
    BY <2>1, <2>2
<1>2. CASE Load(w)
  <2>1. status' = status /\ wpc[w] = "load"
    BY <1>2 DEF Load
  <2>2. status[d] # "none" => wpc'[w] = "begin" /\ wdoc'[w] = d
    BY <1>2 DEF Load
  <2>3. QED
    BY <1>a, <2>1, <2>2 DEF WillSettle
<1>3. CASE Begin(w)
  <2>1. wpc[w] = "begin" /\ status'[d] \in {status[d], "processing"}
    BY <1>0, <1>3 DEF Begin, Put
  <2>2. wpc'[w] \in {"refresh", "lastread"} /\ wdoc'[w] = d
    BY <1>3 DEF Begin
  <2>3. QED
    BY <1>a, <2>1, <2>2 DEF WillSettle
<1>4. CASE BeginFails(w) \/ Poison(w)
  <2>1. status' = status /\ wpc[w] # "claim" /\ wpc'[w] = "lastread" /\ wdoc'[w] = d
    BY <1>4 DEF BeginFails, Poison
  <2>2. QED
    BY <1>a, <2>1 DEF WillSettle
<1>5. CASE Refresh(w)
  <2>1. status' = status /\ wpc[w] = "refresh" /\ wdoc'[w] = d
    BY <1>5 DEF Refresh
  <2>2. \/ wpc'[w] = "lastread"
        \/ wpc'[w] \in {"purge", "start"} /\ wseen'[w] = status[d]
    BY <1>5 DEF Refresh
  <2>3. QED
    BY <1>a, <2>1, <2>2 DEF WillSettle
<1>6. CASE Purge(w) \/ PurgeFails(w) \/ Start(w) \/ Index(w)
  <2>1. /\ status' = status /\ wseen' = wseen /\ wdoc'[w] = d
        /\ wpc[w] \in {"purge", "start", "index"}
        /\ wpc'[w] \in {"start", "index", "finish"}
    BY <1>6 DEF Purge, PurgeFails, Start, Index
  <2>2. WillSettle(w, d) => WillSettle(w, d)'
    BY <2>1 DEF WillSettle
  <2>3. QED
    BY <1>a, <1>b, <2>1, <2>2 DEF Served
<1>7. CASE Succeed(w)
  <2>1. wpc[w] = "finish" /\ status'[d] = Put(status[d], wseen[w], "ready")
    BY <1>0, <1>7 DEF Succeed, PersistChunks
  <2>2. CASE wseen[w] = "ready"
    <3>1. status'[d] = status[d] /\ ~WillSettle(w, d)
      BY <2>1, <2>2 DEF Put, WillSettle
    <3>2. QED
      BY <1>a, <1>b, <2>1, <3>1 DEF Served
  <2>3. CASE wseen[w] # "ready"
    BY <2>1, <2>3 DEF Put
  <2>4. QED
    BY <2>2, <2>3
<1>8. CASE Fail(w)
  <2>1. /\ wpc[w] # "claim" /\ wpc'[w] = "lastread" /\ wdoc'[w] = d
        /\ status'[d] \in {status[d], "failed"}
    BY <1>0, <1>8 DEF Fail, RecordFailure, Put
  <2>2. QED
    BY <1>a, <2>1 DEF WillSettle
<1>9. CASE LastRead(w)
  <2>1. /\ status' = status /\ wpc[w] = "lastread"
        /\ status[d] = "processing" => wpc'[w] = "lastwrite" /\ wdoc'[w] = d
    BY <1>9 DEF LastRead
  <2>2. QED
    BY <1>a, <2>1 DEF WillSettle
<1>10. CASE LastWrite(w)
  <2>1. status'[d] \in {"none", "failed"}
    BY <1>0, <1>10 DEF LastWrite
  <2>2. QED
    BY <2>1
<1>11. QED
  BY <1>1, <1>2, <1>3, <1>4, <1>5, <1>6, <1>7, <1>8, <1>9, <1>10 DEF WorkerStep

\* A request that ends without having submitted a document, or that goes on to
\* its submission, keeps every carrier; one that submits replaces itself.
LEMMA ClientServes ==
    ASSUME TypeOK, NEW c \in Clients, ClientAction(c), NEW d \in Docs \ abandoned',
           d \notin abandoned => Served(d)
    PROVE  Served(d)'
<1> USE DEF TypeOK, StoresType, ClientsType, ProcessType
<1>0. UNCHANGED worker
  BY DEF ClientAction, ClientStep, UploadCommit, IngestCreate, IngestReset,
         Enqueue, DeletePurge, DeleteAborts, DeleteFiles, DeleteRows,
         ResponseFault, UploadSave, IngestRead, DeleteRead
<1>a. ASSUME status'[d] = status[d], Served(d), Carried(d) => Carried(d)'
      PROVE  Served(d)'
  BY <1>0, <1>a DEF Served, WillSettle
<1>b. ASSUME UNCHANGED queue, cpc[c] # "enqueue",
             \A x \in Clients \ {c} : cpc'[x] = cpc[x] /\ cdoc'[x] = cdoc[x]
      PROVE  Carried(d) => Carried(d)'
  BY <1>0, <1>b DEF Carried, InQueue
<1>c. ASSUME NEW f \in Files, NEW e \in Docs, CreatePending(c, f, e), UNCHANGED queue,
             cpc[c] # "enqueue", UNCHANGED abandoned
      PROVE  Served(d)'
  <2>1. CASE d = e
    BY <1>c, <2>1 DEF CreatePending, ClientGoes, Served, Carried
  <2>2. CASE d # e
    BY <1>a, <1>b, <1>c, <2>2 DEF CreatePending, ClientGoes
  <2>3. QED
    BY <2>1, <2>2
<1>1. CASE UploadCommit(c)
  <2>1. CASE \E e \in FreshDocs : CreatePending(c, cfile[c], e)
    BY <1>1, <1>c, <2>1 DEF UploadCommit, FreshDocs
  <2>2. CASE ClientEnds(c) /\ UNCHANGED rows
    BY <1>1, <1>a, <1>b, <2>2 DEF UploadCommit, ClientEnds
  <2>3. QED
    BY <1>1, <2>1, <2>2 DEF UploadCommit
<1>2. CASE IngestCreate(c)
  <2>1. CASE \E e \in FreshDocs : CreatePending(c, cfile[c], e)
    BY <1>2, <1>c, <2>1 DEF IngestCreate, FreshDocs
  <2>2. CASE ClientEnds(c) /\ UNCHANGED rows
    BY <1>2, <1>a, <1>b, <2>2 DEF IngestCreate, ClientEnds
  <2>3. QED
    BY <1>2, <2>1, <2>2 DEF IngestCreate
<1>3. CASE IngestReset(c)
  <2>1. CASE status[cdoc[c]] = "none"
    BY <1>3, <1>a, <1>b, <2>1 DEF IngestReset, ClientEnds
  <2>2. CASE status[cdoc[c]] # "none" /\ d # cdoc[c]
    BY <1>3, <1>a, <1>b, <2>2 DEF IngestReset, ClientGoes
  <2>3. CASE status[cdoc[c]] # "none" /\ d = cdoc[c]
    <3>1. cpc'[c] = "enqueue" /\ cdoc'[c] = d
      BY <1>3, <2>3 DEF IngestReset, ClientGoes
    <3>2. Carried(d)'
      BY <3>1 DEF Carried
    <3>3. CASE cseen[c] = "pending"
      BY <1>3, <1>a, <2>3, <3>2, <3>3 DEF IngestReset, Put
    <3>4. CASE cseen[c] # "pending"
      BY <1>3, <2>3, <3>2, <3>4 DEF IngestReset, Put, Served
    <3>5. QED
      BY <3>3, <3>4
  <2>4. QED
    BY <2>1, <2>2, <2>3
<1>4. CASE Enqueue(c)
  <2>1. ASSUME Carried(d) PROVE Carried(d)'
    <3>1. InQueue(d) => InQueue(d)'
      BY <1>4, EnqueueFacts DEF Enqueue, InQueue
    <3>2. cdoc[c] = d => InQueue(d)'
      BY <1>4, EnqueueFacts DEF Enqueue, InQueue
    <3>3. \A x \in Clients \ {c} : cpc'[x] = cpc[x] /\ cdoc'[x] = cdoc[x]
      BY <1>4 DEF Enqueue, ClientEnds
    <3>4. QED
      BY <1>0, <2>1, <3>1, <3>2, <3>3 DEF Carried
  <2>2. QED
    BY <1>4, <1>a, <2>1 DEF Enqueue
<1>5. CASE DeletePurge(c) \/ DeleteAborts(c) \/ DeleteFiles(c)
  BY <1>5, <1>a, <1>b DEF DeletePurge, DeleteAborts, DeleteFiles, ClientGoes, ClientEnds
<1>6. CASE DeleteRows(c)
  <2>1. Carried(d) => Carried(d)'
    BY <1>6, <1>b DEF DeleteRows, ClientEnds
  <2>2. d \notin abandoned /\ d \in Docs
    BY <1>6 DEF DeleteRows
  <2>3. \/ status' = status
        \/ status' = [x \in Docs |-> IF x = cdoc[c] THEN "none" ELSE status[x]]
    BY <1>6, Zenon DEF DeleteRows
  <2>4. status'[d] \in {status[d], "none"}
    BY <2>2, <2>3
  <2>5. QED
    BY <1>a, <2>1, <2>2, <2>4 DEF Served
<1>7. CASE ResponseFault(c)
  <2>1. d # cdoc[c] /\ d \notin abandoned
    BY <1>7 DEF ResponseFault
  <2>2. Carried(d) => Carried(d)'
    BY <1>0, <1>7, <2>1 DEF ResponseFault, ClientEnds, Carried, InQueue
  <2>3. QED
    BY <1>7, <1>a, <2>1, <2>2 DEF ResponseFault
<1>8. ASSUME NEW f \in Files, UploadSave(c, f) \/ IngestRead(c, f) \/ DeleteRead(c, f)
      PROVE  Served(d)'
  <2>1. UNCHANGED <<status, queue, abandoned>> /\ cpc[c] = "idle"
    BY <1>8 DEF UploadSave, IngestRead, DeleteRead, Arrives
  <2>2. \A x \in Clients \ {c} : cpc'[x] = cpc[x] /\ cdoc'[x] = cdoc[x]
    BY <1>8 DEF UploadSave, IngestRead, DeleteRead, Arrives, ClientGoes
  <2>3. QED
    BY <1>a, <1>b, <2>1, <2>2
<1>9. QED
  BY <1>1, <1>2, <1>3, <1>4, <1>5, <1>6, <1>7, <1>8 DEF ClientAction, ClientStep

\* NoStranded is inductive (given the types). Only a database fault takes a
\* carrier away without putting another in its place, and recovery enqueues
\* every document that is pending or was left processing.
LEMMA NoStrandedStep ==
    ASSUME TypeOK, NoStranded, [Next]_vars
    PROVE  NoStranded'
<1> SUFFICES ASSUME up', NEW d \in Docs, d \notin abandoned'
             PROVE  Served(d)'
  BY NoStrandedIsServed DEF NoStranded, Served
<1>1. up /\ d \notin abandoned => Served(d)
  BY NoStrandedIsServed
<1>2. CASE UNCHANGED vars
  BY <1>1, <1>2 DEF vars, Served, Carried, InQueue, WillSettle
<1>3. ASSUME NEW w \in Workers, WorkerStep(w)
      PROVE  Served(d)'
  <2>1. UNCHANGED <<up, abandoned>>
    BY <1>3 DEF WorkerStep, Dequeue, Claim, Load, Begin, BeginFails, Refresh, Purge,
                PurgeFails, Start, Index, Succeed, Fail, Poison, LastRead, LastWrite
  <2>2. Served(d)
    BY <1>1, <2>1
  <2>3. CASE Dequeue(w)
    BY <2>2, <2>3, DequeueServes
  <2>4. CASE ~Dequeue(w) /\ wdoc[w] = d
    BY <1>3, <2>2, <2>4, OwnDocument
  <2>5. CASE ~Dequeue(w) /\ wdoc[w] # d
    <3>1. LocalTo(w)
      BY <1>3, <2>5, WorkerFrame
    <3>2. wdoc'[w] # d /\ status'[d] = status[d]
      BY <2>5, <3>1, IdsAssumption DEF LocalTo
    <3>3. QED
      BY <2>2, <2>5, <3>1, <3>2, OtherDocuments DEF LocalTo
  <2>6. QED
    BY <2>3, <2>4, <2>5
<1>4. ASSUME NEW w \in Workers, WorkerDbFault(w)
      PROVE  Served(d)'
  <2>1. d \notin abandoned /\ wdoc[w] # d /\ up /\ ~Dequeue(w)
    BY <1>4 DEF WorkerDbFault, Dequeue
  <2>2. LocalTo(w)
    BY <1>4, <2>1, WorkerFrame
  <2>3. wdoc'[w] # d /\ status'[d] = status[d]
    BY <2>1, <2>2, IdsAssumption DEF LocalTo
  <2>4. QED
    BY <1>1, <2>1, <2>2, <2>3, OtherDocuments DEF LocalTo
<1>5. ASSUME NEW c \in Clients, ClientAction(c)
      PROVE  Served(d)'
  <2>1. up
    BY <1>5 DEF ClientAction, ClientStep, UploadCommit, IngestCreate, IngestReset,
                Enqueue, DeletePurge, DeleteAborts, DeleteFiles, DeleteRows,
                ResponseFault, UploadSave, IngestRead, DeleteRead
  <2>2. QED
    BY <1>1, <1>5, <2>1, ClientServes
<1>6. CASE Crash \/ Stop
  BY <1>6 DEF Crash, Stop
<1>7. CASE Recover
  <2> DEFINE P == {e \in Docs : status[e] \in {"pending", "processing"}}
  <2>1. queue' \in Orders(P) /\ P \in SUBSET Docs
    BY <1>7 DEF Recover
  <2>2. \A e \in P : \E i \in DOMAIN queue' : queue'[i] = e
    BY <2>1, OrderFacts
  <2>3. status'[d] # "processing" /\ (status'[d] = "pending" => d \in P)
    BY <1>7 DEF Recover, TypeOK, StoresType
  <2>4. QED
    BY <2>2, <2>3 DEF Served, Carried, InQueue
<1>8. QED
  BY <1>2, <1>3, <1>4, <1>5, <1>6, <1>7 DEF Next, ClientAction

\* While the process is up, every pending document is on its way to a claim and
\* every processing one has a worker that will settle it, for any number of
\* documents, workers and requests, any retries and any interleaving with
\* deletes, crashes and restarts; a document is lost to the queue only through
\* a database fault outside the handlers.
THEOREM NothingStranded == Spec => []NoStranded
<1>1. Init => TypeOK /\ NoStranded
  BY TypeInit DEF Init, NoStranded
<1>2. TypeOK /\ NoStranded /\ [Next]_vars => TypeOK' /\ NoStranded'
  BY TypeStep, NoStrandedStep
<1>3. QED
  BY <1>1, <1>2, PTL DEF Spec
--------------------------------------------------------------------------------
(* One worker for a document, and what ready means *)

\* Requests retry a document that nobody works on: an absent one, a queued one
\* (which is left as it is), or, if requests do not overlap, a ready one.
RestedRetries ==
    /\ RetryFrom \subseteq {"none", "pending", "ready"}
    /\ "ready" \in RetryFrom => \A b, c \in Clients : b = c

\* Worker w has claimed its document and is not through with it.
Holds(w) == wpc[w] \notin {"idle", "claim"}

Known(d) == fileOf[d] # None

\* An id is passed on only once it has had a row.
OnlyKnown ==
    /\ \A d \in Docs : status[d] # "none" => Known(d)
    /\ \A i \in DOMAIN queue : Known(queue[i])
    /\ \A w \in Workers : wpc[w] # "idle" => Known(wdoc[w])
    /\ \A c \in Clients : cdoc[c] # None => Known(cdoc[c])

\* A document that is held stays processing until its holder says otherwise, or
\* is deleted; so nobody claims it.
OneHolder ==
    \A w \in Workers : Holds(w) =>
        /\ \/ status[wdoc[w]] \in {"processing", "none"}
           \/ wpc[w] = "lastread" /\ status[wdoc[w]] = "failed"
        /\ wpc[w] \in {"index", "finish"} => status[wdoc[w]] # "none"
        /\ wpc[w] \notin {"load", "lastread", "lastwrite"} => wseen[w] = "processing"
        /\ \A v \in Workers : Holds(v) /\ wdoc[v] = wdoc[w] => v = w

\* A document that is about to be reset was ready and is not held.
ResetsRest ==
    \A c \in Clients :
        /\ cpc[c] = "idle" => cdoc[c] = None
        /\ cpc[c] = "write" /\ cdoc[c] # None =>
             \/ cseen[c] = "pending"
             \/ /\ "ready" \in RetryFrom /\ cseen[c] = "ready"
                /\ status[cdoc[c]] \in {"ready", "none"}

HoldInv == OnlyKnown /\ OneHolder /\ ResetsRest

\* The holder has removed the chunks of the last attempt, and is done with the
\* vectors before it finishes.
IndexedAlone ==
    \A w \in Workers :
        /\ wpc[w] \in {"refresh", "purge", "start", "index", "finish"} => chunks[wdoc[w]] = 0
        /\ wpc[w] = "finish" => wstaged[w] = "indexed"

\* Every element of a queue without its head was in the queue.
LEMMA TailMembers ==
    ASSUME NEW S, NEW q \in Seq(S), q # <<>>, NEW j \in DOMAIN Tail(q)
    PROVE  \E i \in DOMAIN q : q[i] = Tail(q)[j]
<1>1. j \in 1 .. Len(q) - 1 /\ Tail(q)[j] = q[j + 1] /\ j + 1 \in DOMAIN q
  OBVIOUS
<1>2. QED
  BY <1>1

\* A step of a worker that has something to do: what it does with its document,
\* and when it has hold of it.
LEMMA HolderMoves ==
    ASSUME TypeOK, OneHolder, NEW w \in Workers, WorkerStep(w) \/ WorkerDbFault(w),
           ~Dequeue(w)
    PROVE  /\ Holds(w)' =>
                /\ wdoc'[w] = wdoc[w]
                /\ Holds(w) \/ status[wdoc[w]] = "pending"
           /\ Holds(w) \/ status[wdoc[w]] = "pending" \/ status' = status
           /\ status[wdoc[w]] \in {"ready", "none"} => status'[wdoc[w]] = status[wdoc[w]]
           /\ Holds(w)' =>
                /\ \/ status'[wdoc[w]] \in {"processing", "none"}
                   \/ wpc'[w] = "lastread" /\ status'[wdoc[w]] = "failed"
                /\ wpc'[w] \in {"index", "finish"} => status'[wdoc[w]] # "none"
                /\ wpc'[w] \notin {"load", "lastread", "lastwrite"} => wseen'[w] = "processing"
<1> USE DEF TypeOK, StoresType, WorkersType, WorkerGoes, Holds, OneHolder, Put
<1>1. CASE Claim(w)
  BY <1>1 DEF Claim
<1>2. CASE Load(w)
  BY <1>2 DEF Load
<1>3. CASE Begin(w)
  BY <1>3 DEF Begin
<1>4. CASE BeginFails(w)
  BY <1>4 DEF BeginFails
<1>5. CASE Refresh(w)
  BY <1>5 DEF Refresh
<1>6. CASE Purge(w) \/ PurgeFails(w)
  BY <1>6 DEF Purge, PurgeFails
<1>7. CASE Start(w)
  BY <1>7 DEF Start
<1>8. CASE Index(w)
  BY <1>8 DEF Index
<1>9. CASE Succeed(w)
  BY <1>9 DEF Succeed, PersistChunks, WorkerForgets
<1>10. CASE Fail(w)
  BY <1>10 DEF Fail, RecordFailure, WorkerForgets
<1>11. CASE Poison(w)
  BY <1>11 DEF Poison, WorkerForgets
<1>12. CASE LastRead(w)
  BY <1>12 DEF LastRead, WorkerForgets
<1>13. CASE LastWrite(w)
  BY <1>13 DEF LastWrite
<1>14. CASE WorkerDbFault(w)
  BY <1>14 DEF WorkerDbFault, WorkerForgets
<1>15. QED
  BY <1>1, <1>2, <1>3, <1>4, <1>5, <1>6, <1>7, <1>8, <1>9, <1>10, <1>11, <1>12,
     <1>13, <1>14 DEF WorkerStep

\* A worker has nothing to say about files and what requests have read.
LEMMA WorkerLeaves ==
    ASSUME NEW w \in Workers, WorkerStep(w) \/ WorkerDbFault(w)
    PROVE  UNCHANGED <<fileOf, cpc, cdoc, cseen>>
BY DEF WorkerStep, WorkerDbFault, Dequeue, Claim, Load, Begin, BeginFails, Refresh, Purge,
       PurgeFails, Start, Index, Succeed, Fail, Poison, LastRead, LastWrite

\* What a request does to a document: it leaves it alone, deletes it when nobody
\* has it locked, or makes it pending if it had no row or was ready.
LEMMA ClientMoves ==
    ASSUME TypeOK, OnlyKnown, ResetsRest, NEW c \in Clients, ClientAction(c)
    PROVE  /\ UNCHANGED worker
           /\ \A d \in Docs : Known(d) => Known(d)'
           /\ \A d \in Docs :
                \/ status'[d] = status[d] /\ chunks'[d] = chunks[d]
                \/ status'[d] = "none" /\ chunks'[d] = 0 /\ lock[d] = None
                \/ /\ status'[d] = "pending" /\ chunks'[d] = chunks[d]
                   /\ \/ ~Known(d) /\ Known(d)'
                      \/ /\ status[d] \in {"pending", "ready"} /\ Known(d)
                         /\ cpc[c] = "write"
<1> USE DEF TypeOK, StoresType, ClientsType, OnlyKnown, Known
<1>0. UNCHANGED worker
  BY DEF ClientAction, ClientStep, UploadCommit, IngestCreate, IngestReset,
         Enqueue, DeletePurge, DeleteAborts, DeleteFiles, DeleteRows,
         ResponseFault, UploadSave, IngestRead, DeleteRead
<1>a. CASE UNCHANGED <<status, fileOf, chunks>>
  BY <1>0, <1>a
<1>b. ASSUME cpc[c] # "idle", NEW e \in FreshDocs, CreatePending(c, cfile[c], e)
      PROVE  /\ \A d \in Docs : Known(d) => Known(d)'
             /\ \A d \in Docs :
                  \/ status'[d] = status[d] /\ chunks'[d] = chunks[d]
                  \/ /\ status'[d] = "pending" /\ chunks'[d] = chunks[d]
                     /\ ~Known(d) /\ Known(d)'
  BY <1>b, IdsAssumption DEF CreatePending, FreshDocs
<1>1. CASE UploadCommit(c) \/ IngestCreate(c)
  BY <1>0, <1>1, <1>a, <1>b DEF UploadCommit, IngestCreate
<1>2. CASE IngestReset(c)
  <2>1. CASE status[cdoc[c]] = "none"
    BY <1>2, <1>a, <2>1 DEF IngestReset
  <2>2. CASE status[cdoc[c]] # "none" /\ cseen[c] = "pending"
    BY <1>2, <1>a, <2>2 DEF IngestReset, Put
  <2>3. CASE status[cdoc[c]] # "none" /\ cseen[c] # "pending"
    <3>1. status[cdoc[c]] = "ready" /\ cpc[c] = "write" /\ Known(cdoc[c]) /\ cdoc[c] \in Docs
      BY <1>2, <2>3 DEF IngestReset, ResetsRest
    <3>2. status' = [status EXCEPT ![cdoc[c]] = "pending"] /\ UNCHANGED <<fileOf, chunks>>
      BY <1>2, <2>3 DEF IngestReset, Put
    <3>3. QED
      BY <1>0, <3>1, <3>2
  <2>4. QED
    BY <2>1, <2>2, <2>3
<1>3. CASE DeleteRows(c)
  <2>1. CASE UNCHANGED <<status, chunks>>
    BY <1>3, <1>a, <2>1 DEF DeleteRows
  <2>2. CASE /\ status' = [x \in Docs |-> IF x = cdoc[c] THEN "none" ELSE status[x]]
             /\ chunks' = [x \in Docs |-> IF x = cdoc[c] THEN 0 ELSE chunks[x]]
    BY <1>0, <1>3, <2>2, IdsAssumption DEF DeleteRows
  <2>3. QED
    BY <1>3, <2>1, <2>2, Zenon DEF DeleteRows
<1>4. CASE Enqueue(c) \/ DeletePurge(c) \/ DeleteAborts(c) \/ DeleteFiles(c) \/ ResponseFault(c)
  BY <1>4, <1>a DEF Enqueue, DeletePurge, DeleteAborts, DeleteFiles, ResponseFault
<1>5. ASSUME NEW f \in Files, UploadSave(c, f) \/ IngestRead(c, f) \/ DeleteRead(c, f)
      PROVE  UNCHANGED <<status, fileOf, chunks>>
  BY <1>5 DEF UploadSave, IngestRead, DeleteRead
<1>6. QED
  BY <1>1, <1>2, <1>3, <1>4, <1>5, <1>a DEF ClientAction, ClientStep

\* OneHolder is inductive: a worker gets hold of a document only by its claim of
\* a pending one, and a held document is not pending.
LEMMA HolderStep ==
    ASSUME RestedRetries, TypeOK, RowLocks, HoldInv, [Next]_vars
    PROVE  OneHolder'
<1> USE DEF TypeOK, StoresType, WorkersType, HoldInv
<1>1. CASE UNCHANGED vars
  BY <1>1 DEF vars, OneHolder, Holds
<1>2. ASSUME NEW w \in Workers, WorkerStep(w) \/ WorkerDbFault(w), ~Dequeue(w)
      PROVE  OneHolder'
  <2>1. LocalTo(w)
    BY <1>2, WorkerFrame
  <2>2. /\ Holds(w)' =>
                /\ wdoc'[w] = wdoc[w]
                /\ Holds(w) \/ status[wdoc[w]] = "pending"
        /\ Holds(w) \/ status[wdoc[w]] = "pending" \/ status' = status
        /\ Holds(w)' =>
                /\ \/ status'[wdoc[w]] \in {"processing", "none"}
                   \/ wpc'[w] = "lastread" /\ status'[wdoc[w]] = "failed"
                /\ wpc'[w] \in {"index", "finish"} => status'[wdoc[w]] # "none"
                /\ wpc'[w] \notin {"load", "lastread", "lastwrite"} => wseen'[w] = "processing"
    BY <1>2, HolderMoves
  <2>3. ASSUME NEW v \in Workers, v # w, Holds(v)'
        PROVE  /\ Holds(v) /\ wdoc'[v] = wdoc[v] /\ wdoc[v] \in Docs
               /\ wpc'[v] = wpc[v] /\ wseen'[v] = wseen[v]
               /\ status'[wdoc[v]] = status[wdoc[v]]
               /\ Holds(w)' => wdoc'[w] # wdoc'[v]
    <3>1. Holds(v) /\ wdoc'[v] = wdoc[v] /\ wpc'[v] = wpc[v] /\ wseen'[v] = wseen[v]
      BY <2>1, <2>3 DEF LocalTo, Holds
    <3>2. wdoc[v] \in Docs /\ status[wdoc[v]] # "pending"
      BY <3>1 DEF Holds, OneHolder
    <3>3. CASE wdoc[v] # wdoc[w]
      BY <2>1, <2>2, <3>1, <3>2, <3>3 DEF LocalTo
    <3>4. CASE wdoc[v] = wdoc[w]
      <4>1. ~Holds(w)
        BY <2>3, <3>1, <3>4 DEF OneHolder
      <4>2. QED
        BY <2>2, <3>1, <3>2, <3>4, <4>1
    <3>5. QED
      BY <3>3, <3>4
  <2>4. QED
    BY <2>2, <2>3 DEF OneHolder
<1>3. ASSUME NEW w \in Workers, Dequeue(w)
      PROVE  OneHolder'
  BY <1>3 DEF Dequeue, OneHolder, Holds
<1>4. ASSUME NEW c \in Clients, ClientAction(c)
      PROVE  OneHolder'
  <2>1. ASSUME NEW w \in Workers, Holds(w)
        PROVE  /\ status'[wdoc[w]] \in {status[wdoc[w]], "none"}
               /\ wpc[w] \in {"index", "finish"} => status'[wdoc[w]] # "none"
    <3>1. /\ wdoc[w] \in Docs /\ Known(wdoc[w])
          /\ status[wdoc[w]] \notin {"pending", "ready"}
          /\ wpc[w] \in {"index", "finish"} => status[wdoc[w]] # "none"
      BY <2>1 DEF OneHolder, Holds, OnlyKnown
    <3>2. wpc[w] \in {"index", "finish"} => lock[wdoc[w]] # None
      BY <3>1, IdsAssumption DEF RowLocks
    <3>3. QED
      BY <1>4, <3>1, <3>2, ClientMoves
  <2>2. UNCHANGED worker
    BY <1>4, ClientMoves
  <2>3. QED
    BY <2>1, <2>2 DEF OneHolder, Holds
<1>5. CASE Crash
  BY <1>5 DEF Crash, OneHolder, Holds
<1>6. CASE Stop \/ Recover
  BY <1>6 DEF Stop, Recover, OneHolder, Holds
<1>7. QED
  BY <1>1, <1>2, <1>3, <1>4, <1>5, <1>6 DEF Next, ClientAction

\* Whose id is passed on had a row: ids reach the queue from rows.
LEMMA KnownStep ==
    ASSUME TypeOK, OnlyKnown, ResetsRest, [Next]_vars
    PROVE  OnlyKnown'
<1> USE DEF TypeOK, StoresType, WorkersType, ClientsType, ProcessType
<1>1. CASE UNCHANGED vars
  BY <1>1 DEF vars, OnlyKnown, Known
<1>2. ASSUME NEW w \in Workers, WorkerStep(w) \/ WorkerDbFault(w), ~Dequeue(w)
      PROVE  OnlyKnown'
  <2>1. LocalTo(w) /\ UNCHANGED <<fileOf, cpc, cdoc>>
    BY <1>2, WorkerFrame, WorkerLeaves
  <2>2. wpc[w] # "idle"
    BY <1>2 DEF WorkerStep, WorkerDbFault, Claim, Load, Begin, BeginFails, Refresh, Purge,
                PurgeFails, Start, Index, Succeed, Fail, Poison, LastRead, LastWrite
  <2>3. Known(wdoc[w]) /\ TypeOK'
    BY <1>2, <2>2, TypeStep DEF OnlyKnown, Next
  <2>4. ASSUME NEW d \in Docs, status'[d] # "none" PROVE Known(d)'
    BY <2>1, <2>3, <2>4 DEF OnlyKnown, Known, LocalTo
  <2>5. ASSUME NEW v \in Workers, wpc'[v] # "idle" PROVE Known(wdoc[v])'
    <3>1. wdoc'[v] = wdoc[v] /\ wpc[v] # "idle"
      BY <2>1, <2>2, <2>3, <2>5, IdsAssumption DEF LocalTo
    <3>2. QED
      BY <2>1, <3>1 DEF OnlyKnown, Known
  <2>6. QED
    BY <2>1, <2>4, <2>5 DEF OnlyKnown, Known, LocalTo
<1>3. ASSUME NEW w \in Workers, Dequeue(w)
      PROVE  OnlyKnown'
  <2>1. /\ queue # <<>> /\ queue' = Tail(queue)
        /\ wpc' = [wpc EXCEPT ![w] = "claim"]
        /\ wdoc' = [wdoc EXCEPT ![w] = Head(queue)]
        /\ UNCHANGED <<status, fileOf, cdoc>>
    BY <1>3 DEF Dequeue
  <2>2. \A j \in DOMAIN queue' : \E i \in DOMAIN queue : queue[i] = queue'[j]
    BY <2>1, TailMembers
  <2>3. \E i \in DOMAIN queue : queue[i] = Head(queue)
    BY <2>1
  <2>4. QED
    BY <2>1, <2>2, <2>3 DEF OnlyKnown, Known
<1>4. ASSUME NEW c \in Clients, ClientAction(c)
      PROVE  OnlyKnown'
  <2>1. /\ UNCHANGED worker
        /\ \A d \in Docs : Known(d) => Known(d)'
        /\ \A d \in Docs : status'[d] # "none" => Known(d)'
    BY <1>4, ClientMoves DEF OnlyKnown
  <2>2. ASSUME NEW x \in Clients, cdoc'[x] # None PROVE Known(cdoc[x])'
    <3>1. CASE UploadCommit(c) \/ IngestCreate(c)
      <4>1. CASE \E e \in FreshDocs : CreatePending(c, cfile[c], e)
        <5>1. PICK e \in FreshDocs : CreatePending(c, cfile[c], e)
          BY <4>1
        <5>2. e \in Docs /\ cdoc' = [cdoc EXCEPT ![c] = e] /\ status'[e] = "pending"
          BY <5>1 DEF FreshDocs, CreatePending
        <5>3. Known(e)'
          BY <2>1, <5>2
        <5>4. CASE x = c
          <6>1. cdoc'[x] = e
            BY <5>2, <5>4
          <6>2. QED
            BY <5>3, <6>1 DEF Known
        <5>5. CASE x # c
          <6>1. cdoc'[x] = cdoc[x] /\ Known(cdoc[x]) /\ cdoc[x] \in Docs
            BY <2>2, <5>2, <5>5 DEF OnlyKnown
          <6>2. QED
            BY <2>1, <6>1 DEF Known
        <5>6. QED
          BY <5>4, <5>5
      <4>2. CASE ClientEnds(c) /\ UNCHANGED rows
        BY <2>2, <4>2 DEF ClientEnds, OnlyKnown, Known
      <4>3. QED
        BY <3>1, <4>1, <4>2 DEF UploadCommit, IngestCreate
    <3>2. CASE \E f \in Files : IngestRead(c, f) \/ DeleteRead(c, f)
      BY <2>2, <3>2 DEF IngestRead, DeleteRead, DocsOf, OnlyKnown, Known
    <3>3. CASE cdoc'[x] = cdoc[x]
      <4>1. Known(cdoc[x]) /\ cdoc[x] \in Docs
        BY <2>2, <3>3 DEF OnlyKnown
      <4>2. QED
        BY <2>1, <3>3, <4>1 DEF Known
    <3>4. QED
      BY <1>4, <2>2, <3>1, <3>2, <3>3 DEF ClientAction, ClientStep, IngestReset, Enqueue,
           DeletePurge, DeleteAborts, DeleteFiles, DeleteRows, ResponseFault, UploadSave,
           ClientEnds
  <2>3. ASSUME NEW i \in DOMAIN queue' PROVE Known(queue[i])'
    <3>1. CASE queue' = queue
      <4>1. Known(queue[i]) /\ queue[i] \in Docs
        BY <2>3, <3>1 DEF OnlyKnown
      <4>2. QED
        BY <2>1, <3>1, <4>1 DEF Known
    <3>2. CASE Enqueue(c)
      <4>1. queue' = Append(queue, cdoc[c]) /\ cdoc[c] \in Docs /\ UNCHANGED fileOf
        BY <3>2 DEF Enqueue
      <4>2. queue'[i] = cdoc[c] \/ (i \in DOMAIN queue /\ queue'[i] = queue[i])
        <5>1. i \in 1 .. Len(queue) + 1
          BY <2>3, <4>1
        <5>2. QED
          BY <4>1, <5>1
      <4>3. QED
        BY <4>1, <4>2, IdsAssumption DEF OnlyKnown, Known
    <3>3. QED
      BY <1>4, <3>1, <3>2 DEF ClientAction, ClientStep, UploadCommit, IngestCreate,
           IngestReset, DeletePurge, DeleteAborts, DeleteFiles, DeleteRows,
           ResponseFault, UploadSave, IngestRead, DeleteRead
  <2>4. QED
    BY <2>1, <2>2, <2>3 DEF OnlyKnown
<1>5. CASE Crash
  BY <1>5 DEF Crash, OnlyKnown, Known
<1>6. CASE Stop
  BY <1>6 DEF Stop, OnlyKnown, Known
<1>7. CASE Recover
  <2>1. \A i \in DOMAIN queue' : queue'[i] \in {d \in Docs : status[d] \in {"pending", "processing"}}
    BY <1>7 DEF Recover, Orders
  <2>2. \A d \in Docs : status'[d] # "none" => status[d] # "none"
    BY <1>7 DEF Recover
  <2>3. QED
    BY <1>7, <2>1, <2>2 DEF Recover, OnlyKnown, Known
<1>8. QED
  BY <1>1, <1>2, <1>3, <1>4, <1>5, <1>6, <1>7 DEF Next, ClientAction

\* A document read as ready is still ready, or deleted, when the request that
\* read it resets it: no other request is there to retry it.
LEMMA RestsStep ==
    ASSUME RestedRetries, TypeOK, HoldInv, [Next]_vars
    PROVE  ResetsRest'
<1> USE DEF TypeOK, StoresType, ClientsType, HoldInv
<1>1. CASE UNCHANGED vars
  BY <1>1 DEF vars, ResetsRest
<1>2. ASSUME NEW w \in Workers, WorkerStep(w) \/ WorkerDbFault(w)
      PROVE  ResetsRest'
  <2>1. UNCHANGED <<cpc, cdoc, cseen>>
    BY <1>2, WorkerLeaves
  <2>2. ASSUME NEW d \in Docs, status[d] \in {"ready", "none"} PROVE status'[d] = status[d]
    <3>1. CASE Dequeue(w)
      BY <3>1 DEF Dequeue
    <3>2. CASE ~Dequeue(w)
      BY <1>2, <2>2, <3>2, WorkerFrame, HolderMoves DEF LocalTo
    <3>3. QED
      BY <3>1, <3>2
  <2>3. QED
    BY <2>1, <2>2 DEF ResetsRest
<1>3. ASSUME NEW c \in Clients, ClientAction(c)
      PROVE  ResetsRest'
  <2>0. ASSUME NEW x \in Clients, cpc'[x] = "idle" PROVE cdoc'[x] = None
    <3>1. CASE ClientEnds(c)
      BY <2>0, <3>1 DEF ClientEnds, ResetsRest
    <3>2. ASSUME NEW pc \in ClientPcs \ {"idle"}, ClientGoes(c, pc),
                 \A y \in Clients \ {c} : cdoc'[y] = cdoc[y]
          PROVE  cdoc'[x] = None
      BY <2>0, <3>2 DEF ClientGoes, ResetsRest
    <3>3. QED
      BY <1>3, <3>1, <3>2 DEF ClientAction, ClientStep, UploadCommit, IngestCreate,
           IngestReset, Enqueue, DeletePurge, DeleteAborts, DeleteFiles, DeleteRows,
           CreatePending, ResponseFault, UploadSave, IngestRead, DeleteRead, ClientPcs, Arrives
  <2> SUFFICES ASSUME NEW x \in Clients, cpc'[x] = "write", cdoc'[x] # None,
                      cseen'[x] # "pending"
               PROVE  /\ "ready" \in RetryFrom /\ cseen'[x] = "ready"
                      /\ status'[cdoc'[x]] \in {"ready", "none"}
    BY <2>0 DEF ResetsRest
  <2>1. CASE x = c
    <3>1. \E f \in Files : IngestRead(c, f)
      BY <1>3, <2>1 DEF ClientAction, ClientStep, UploadCommit, IngestCreate, IngestReset,
           Enqueue, DeletePurge, DeleteAborts, DeleteFiles, DeleteRows, CreatePending,
           ResponseFault, UploadSave, DeleteRead, ClientEnds, ClientGoes
    <3>2. PICK f \in Files : IngestRead(c, f)
      BY <3>1
    <3>3. CASE UNCHANGED cdoc
      BY <2>1, <3>2, <3>3 DEF IngestRead, Arrives, ResetsRest
    <3>4. ASSUME NEW d \in DocsOf(f), status[d] \in RetryFrom,
                 cdoc' = [cdoc EXCEPT ![c] = d],
                 cseen' = [cseen EXCEPT ![c] = status[d]]
          PROVE  /\ "ready" \in RetryFrom /\ cseen'[x] = "ready"
                 /\ status'[cdoc'[x]] \in {"ready", "none"}
      BY <2>1, <3>2, <3>4 DEF IngestRead, DocsOf, RestedRetries
    <3>5. QED
      BY <3>2, <3>3, <3>4 DEF IngestRead
  <2>2. CASE x # c
    <3>1. cpc'[x] = cpc[x] /\ cdoc'[x] = cdoc[x] /\ cseen'[x] = cseen[x]
      BY <1>3, <2>2, ZenonT(60) DEF ClientAction, ClientStep, UploadCommit, IngestCreate, IngestReset,
           Enqueue, DeletePurge, DeleteAborts, DeleteFiles, DeleteRows, CreatePending,
           ResponseFault, UploadSave, IngestRead, DeleteRead, ClientEnds, ClientGoes, Arrives
    <3>2. "ready" \in RetryFrom
      BY <3>1 DEF ResetsRest
    <3>3. QED
      BY <2>2, <3>2 DEF RestedRetries
  <2>3. QED
    BY <2>1, <2>2
<1>4. CASE Crash
  BY <1>4 DEF Crash, ResetsRest
<1>5. CASE Stop
  BY <1>5 DEF Stop, ResetsRest
<1>6. CASE Recover
  <2>1. \A d \in Docs : status[d] \in {"ready", "none"} => status'[d] = status[d]
    BY <1>6 DEF Recover
  <2>2. UNCHANGED <<cpc, cdoc, cseen>>
    BY <1>6 DEF Recover
  <2>3. QED
    BY <2>1, <2>2 DEF ResetsRest
<1>7. QED
  BY <1>1, <1>2, <1>3, <1>4, <1>5, <1>6 DEF Next, ClientAction

\* A step of a worker changes the chunks and the vectors only of the document it
\* holds. It removes the chunks of the last attempt first, indexes before it
\* finishes, and finishes with one set of chunks.
LEMMA HolderIndexes ==
    ASSUME Backend = "pgvector", TypeOK, RowLocks, OneHolder, IndexedAlone, ReadyIndexed,
           NEW w \in Workers, WorkerStep(w) \/ WorkerDbFault(w), ~Dequeue(w)
    PROVE  /\ \A d \in Docs : d # wdoc[w] \/ ~Holds(w) =>
                /\ chunks'[d] = chunks[d]
                /\ vec'[d] = vec[d]
           /\ wpc'[w] \in {"refresh", "purge", "start", "index", "finish"} =>
                chunks'[wdoc[w]] = 0
           /\ wpc'[w] = "finish" => wstaged'[w] = "indexed"
           /\ \A v \in Workers \ {w} : wstaged'[v] = wstaged[v]
           /\ status'[wdoc[w]] = "ready" => vec'[wdoc[w]] /\ chunks'[wdoc[w]] = 1
<1> USE DEF TypeOK, StoresType, WorkersType, WorkerGoes, Holds, OneHolder, Put, IndexedAlone,
            ReadyIndexed
<1>1. CASE Claim(w)
  BY <1>1 DEF Claim
<1>2. CASE Load(w)
  BY <1>2 DEF Load
<1>3. CASE Begin(w)
  BY <1>3 DEF Begin
<1>4. CASE BeginFails(w)
  BY <1>4 DEF BeginFails
<1>5. CASE Refresh(w)
  BY <1>5 DEF Refresh
<1>6. CASE Purge(w)
  BY <1>6 DEF Purge
<1>7. CASE PurgeFails(w)
  BY <1>7 DEF PurgeFails
<1>8. CASE Start(w)
  BY <1>8 DEF Start
<1>9. CASE Index(w)
  BY <1>9 DEF Index
<1>10. CASE Succeed(w)
  <2>1. /\ wpc'[w] = "idle" /\ Holds(w) /\ wdoc[w] \in Docs
        /\ chunks[wdoc[w]] = 0 /\ wstaged[w] = "indexed"
    BY <1>10 DEF Succeed
  <2>2. /\ chunks' = [chunks EXCEPT ![wdoc[w]] = @ + 1]
        /\ vec' = [vec EXCEPT ![wdoc[w]] = Applied(wdoc[w], "indexed")]
        /\ wstaged' = [wstaged EXCEPT ![w] = "keep"]
    BY <1>10, <2>1 DEF Succeed, PersistChunks, WorkerForgets
  <2>3. Applied(wdoc[w], "indexed") = TRUE
    BY DEF Applied
  <2>4. chunks'[wdoc[w]] = 1 /\ vec'[wdoc[w]] = TRUE
    BY <2>1, <2>2, <2>3
  <2>5. ASSUME NEW e \in Docs, e # wdoc[w] PROVE chunks'[e] = chunks[e] /\ vec'[e] = vec[e]
    BY <2>2, <2>5
  <2>6. \A v \in Workers \ {w} : wstaged'[v] = wstaged[v]
    BY <2>2
  <2>7. vec'[wdoc[w]] /\ chunks'[wdoc[w]] = 1
    BY <2>4, Zenon
  <2>8. QED
    BY <2>1, <2>5, <2>6, <2>7, Zenon
<1>11. CASE Fail(w)
  <2>1. /\ wpc'[w] = "lastread" /\ Holds(w) /\ wdoc[w] \in Docs /\ UNCHANGED chunks
        /\ status'[wdoc[w]] = "failed"
    BY <1>11 DEF Fail, RecordFailure
  <2>2. /\ vec' = [vec EXCEPT ![wdoc[w]] = Applied(wdoc[w], wstaged[w])]
        /\ wstaged' = [wstaged EXCEPT ![w] = "keep"]
    BY <1>11, <2>1 DEF Fail, WorkerForgets
  <2>3. ASSUME NEW e \in Docs, e # wdoc[w] PROVE chunks'[e] = chunks[e] /\ vec'[e] = vec[e]
    BY <2>1, <2>2, <2>3
  <2>4. \A v \in Workers \ {w} : wstaged'[v] = wstaged[v]
    BY <2>2
  <2>5. QED
    BY <2>1, <2>3, <2>4
<1>12. CASE Poison(w)
  BY <1>12 DEF Poison, WorkerForgets
<1>13. CASE LastRead(w)
  BY <1>13 DEF LastRead, WorkerForgets
<1>14. CASE LastWrite(w)
  BY <1>14 DEF LastWrite
<1>15. CASE WorkerDbFault(w)
  BY <1>15 DEF WorkerDbFault, WorkerForgets
<1>16. QED
  BY <1>1, <1>2, <1>3, <1>4, <1>5, <1>6, <1>7, <1>8, <1>9, <1>10, <1>11, <1>12,
     <1>13, <1>14, <1>15 DEF WorkerStep

\* No request makes a document ready, and one that touches the vectors of a
\* ready document deletes the document with them.
LEMMA ClientVectors ==
    ASSUME Backend = "pgvector", TypeOK, NEW c \in Clients, ClientAction(c),
           NEW d \in Docs, status'[d] = "ready"
    PROVE  status[d] = "ready" /\ chunks'[d] = chunks[d] /\ vec'[d] = vec[d]
<1> USE DEF TypeOK, StoresType
<1>1. CASE UNCHANGED <<status, chunks, vec>>
  BY <1>1
<1>2. ASSUME NEW e \in Docs, status' = [status EXCEPT ![e] = "pending"],
             UNCHANGED <<chunks, vec>>
      PROVE  status[d] = "ready" /\ chunks'[d] = chunks[d] /\ vec'[d] = vec[d]
  BY <1>2
<1>3. CASE UploadCommit(c) \/ IngestCreate(c)
  BY <1>1, <1>2, <1>3 DEF UploadCommit, IngestCreate, CreatePending, FreshDocs
<1>4. CASE IngestReset(c)
  BY <1>1, <1>2, <1>4 DEF IngestReset, Put, ClientsType
<1>5. CASE DeleteRows(c)
  BY <1>1, <1>5, ZenonT(60) DEF DeleteRows
<1>6. CASE DeletePurge(c)
  BY <1>1, <1>6 DEF DeletePurge
<1>7. QED
  BY <1>1, <1>3, <1>4, <1>5, <1>6 DEF ClientAction, ClientStep, Enqueue,
     DeleteAborts, DeleteFiles, ResponseFault, UploadSave, IngestRead, DeleteRead

\* What is ready stays indexed, and the holder of a document has its chunks to
\* itself.
LEMMA IndexedStep ==
    ASSUME RestedRetries, Backend = "pgvector", TypeOK, RowLocks, HoldInv,
           IndexedAlone, ReadyIndexed, [Next]_vars
    PROVE  IndexedAlone' /\ ReadyIndexed'
<1> USE DEF TypeOK, StoresType, WorkersType, HoldInv
<1>1. CASE UNCHANGED vars
  BY <1>1 DEF vars, IndexedAlone, ReadyIndexed
<1>2. ASSUME NEW w \in Workers, WorkerStep(w) \/ WorkerDbFault(w), ~Dequeue(w)
      PROVE  IndexedAlone' /\ ReadyIndexed'
  <2>1. LocalTo(w)
    BY <1>2, WorkerFrame
  <2>2. /\ \A d \in Docs : d # wdoc[w] \/ ~Holds(w) =>
             /\ chunks'[d] = chunks[d]
             /\ vec'[d] = vec[d]
        /\ wpc'[w] \in {"refresh", "purge", "start", "index", "finish"} =>
             chunks'[wdoc[w]] = 0
        /\ wpc'[w] = "finish" => wstaged'[w] = "indexed"
        /\ \A v \in Workers \ {w} : wstaged'[v] = wstaged[v]
        /\ status'[wdoc[w]] = "ready" => vec'[wdoc[w]] /\ chunks'[wdoc[w]] = 1
    BY <1>2, HolderIndexes
  <2>3. ReadyIndexed'
    BY <2>1, <2>2 DEF ReadyIndexed, LocalTo
  <2>4. wpc'[w] \in {"refresh", "purge", "start", "index", "finish"} => wdoc'[w] = wdoc[w]
    BY <1>2, HolderMoves DEF Holds
  <2>5. ASSUME NEW v \in Workers, v # w
        PROVE  /\ wpc'[v] \in {"refresh", "purge", "start", "index", "finish"} =>
                    chunks'[wdoc'[v]] = 0
               /\ wpc'[v] = "finish" => wstaged'[v] = "indexed"
    <3>1. wdoc'[v] = wdoc[v] /\ wpc'[v] = wpc[v] /\ wstaged'[v] = wstaged[v]
      BY <2>1, <2>2, <2>5 DEF LocalTo
    <3>2. Holds(v) /\ Holds(w) => wdoc[v] # wdoc[w]
      BY <2>5 DEF OneHolder
    <3>3. wpc[v] \in {"refresh", "purge", "start", "index", "finish"} =>
            Holds(v) /\ wdoc[v] \in Docs
      BY DEF Holds
    <3>4. QED
      BY <2>2, <3>1, <3>2, <3>3 DEF IndexedAlone
  <2>6. QED
    BY <2>2, <2>3, <2>4, <2>5 DEF IndexedAlone
<1>3. ASSUME NEW w \in Workers, Dequeue(w)
      PROVE  IndexedAlone' /\ ReadyIndexed'
  BY <1>3 DEF Dequeue, IndexedAlone, ReadyIndexed
<1>4. ASSUME NEW c \in Clients, ClientAction(c)
      PROVE  IndexedAlone' /\ ReadyIndexed'
  <2>1. ReadyIndexed'
    BY <1>4, ClientVectors DEF ReadyIndexed
  <2>2. UNCHANGED worker
    BY <1>4, ClientMoves
  <2>3. \A d \in Docs : chunks'[d] \in {chunks[d], 0}
    BY <1>4, ClientMoves
  <2>4. QED
    BY <2>1, <2>2, <2>3 DEF IndexedAlone
<1>5. CASE Crash
  BY <1>5 DEF Crash, IndexedAlone, ReadyIndexed
<1>6. CASE Stop
  BY <1>6 DEF Stop, IndexedAlone, ReadyIndexed
<1>7. CASE Recover
  <2>1. \A d \in Docs : status'[d] = "ready" => status[d] = "ready"
    BY <1>7 DEF Recover
  <2>2. QED
    BY <1>7, <2>1 DEF Recover, IndexedAlone, ReadyIndexed
<1>8. QED
  BY <1>1, <1>2, <1>3, <1>4, <1>5, <1>6, <1>7 DEF Next, ClientAction

\* What OneWorkerPerDocument needs.
WorkInv == TypeOK /\ RowLocks /\ HoldInv

\* It holds of an empty library.
LEMMA WorkStart == Init => WorkInv
<1> SUFFICES ASSUME Init PROVE WorkInv
  OBVIOUS
<1>1. TypeOK
  BY TypeInit
<1>2. RowLocks /\ OneHolder
  BY DEF Init, RowLocks, OneHolder, Holds
<1>3. OnlyKnown /\ ResetsRest
  BY DEF Init, OnlyKnown, ResetsRest
<1>4. QED
  BY <1>1, <1>2, <1>3 DEF WorkInv, HoldInv

\* Every step keeps it, when requests retry nothing that is being worked on.
LEMMA WorkStep ==
    ASSUME RestedRetries, WorkInv, [Next]_vars
    PROVE  WorkInv'
BY TypeStep, LocksStep, KnownStep, HolderStep, RestsStep DEF WorkInv, HoldInv

\* Who works on a document holds it.
LEMMA HoldersWorkAlone == WorkInv => OneWorkerPerDocument
BY DEF WorkInv, HoldInv, OneHolder, Holds, OneWorkerPerDocument

\* If requests retry no document that is being worked on, the claim hands a
\* document to one worker at a time, for any number of documents, workers and
\* requests and through any crashes and restarts (ingestion_queue.py:4-5).
THEOREM OneWorkerEach == RestedRetries => (Spec => []OneWorkerPerDocument)
<1> SUFFICES ASSUME RestedRetries PROVE Spec => []OneWorkerPerDocument
  OBVIOUS
<1>1. Init => WorkInv
  BY WorkStart
<1>2. WorkInv /\ [Next]_vars => WorkInv'
  BY WorkStep
<1>3. WorkInv => OneWorkerPerDocument
  BY HoldersWorkAlone
<1>4. QED
  BY <1>1, <1>2, <1>3, PTL DEF Spec

\* What ReadyIndexed needs.
WholeInv == WorkInv /\ IndexedAlone /\ ReadyIndexed

\* It holds of an empty library.
LEMMA WholeStart == Init => WholeInv
BY WorkStart DEF Init, WholeInv, IndexedAlone, ReadyIndexed

\* Every step keeps it.
LEMMA WholeStep ==
    ASSUME RestedRetries, Backend = "pgvector", WholeInv, [Next]_vars
    PROVE  WholeInv'
BY WorkStep, IndexedStep DEF WholeInv, WorkInv

\* Under the same retries, and with the vectors in the session's own database, a
\* document shown as ready has its vectors and one set of chunk rows, whatever
\* was re-ingested, interrupted, refused or half deleted before.
THEOREM ReadyIsIndexed ==
    RestedRetries /\ Backend = "pgvector" => (Spec => []ReadyIndexed)
<1> SUFFICES ASSUME RestedRetries, Backend = "pgvector" PROVE Spec => []ReadyIndexed
  OBVIOUS
<1>1. Init => WholeInv
  BY WholeStart
<1>2. WholeInv /\ [Next]_vars => WholeInv'
  BY WholeStep
<1>3. WholeInv => ReadyIndexed
  BY DEF WholeInv
<1>4. QED
  BY <1>1, <1>2, <1>3, PTL DEF Spec

--------------------------------------------------------------------------------
(* The pipeline executor: the wiring. *)

\* A finite set of steps, each of which is fed from the set, has a cycle: the
\* least such set.
LEMMA FedFromWithin ==
    ASSUME Exec!PortsAssumption, NEW P \in SUBSET Nodes, P # {},
           \A n \in P : \E i \in DOMAIN edges : edges[i].target = n /\ edges[i].source \in P
    PROVE  Exec!HasCycle(edges)
<1> DEFINE Fed(M) == \A n \in M : \E i \in DOMAIN edges : edges[i].target = n /\ edges[i].source \in M
           F == {M \in SUBSET Nodes : M # {} /\ Fed(M)}
           R == Exec!StrictSubsetOrdering(Nodes)
           S == Exec!FiniteSubsetsOf(Nodes)
<1>1. Exec!IsWellFoundedOn(R, S)
  BY Exec!FS_StrictSubsetOrderingWellFounded
<1>2. F \subseteq S
  BY Exec!FS_Subset DEF Exec!PortsAssumption, Exec!FiniteSubsetsOf
<1>3. F # {}
  OBVIOUS
<1>4. \A K, M \in SUBSET Nodes : K \subseteq M /\ K # M => <<K, M>> \in R
  BY DEF Exec!StrictSubsetOrdering
<1>5. PICK M \in F : \A K \in F : ~(<<K, M>> \in R)
  <2> HIDE DEF F, R, S
  <2>1. QED
    BY <1>1, <1>2, <1>3, Exec!WFMin
<1>6. ASSUME NEW n \in M PROVE \E i \in DOMAIN edges : edges[i].source = n /\ edges[i].target \in M
  <2>1. SUFFICES ASSUME \A i \in DOMAIN edges : edges[i].source = n => edges[i].target \notin M
                 PROVE  FALSE
    OBVIOUS
  <2> DEFINE K == M \ {n}
  <2>2. Fed(K)
    BY <2>1
  <2>3. K # {}
    BY <2>1
  <2>4. K \in F
    BY <2>2, <2>3
  <2>5. K \subseteq M /\ K # M /\ K \in SUBSET Nodes /\ M \in SUBSET Nodes
    OBVIOUS
  <2> HIDE DEF F, K, R
  <2>6. QED
    BY <1>4, <1>5, <2>4, <2>5
<1>7. M \in (SUBSET Nodes) \ {{}}
  OBVIOUS
<1>8. QED
  BY <1>6, <1>7 DEF Exec!HasCycle

\* What the proofs use of the wiring.
Wired ==
    /\ edges \in Seq([id : Nat, source : Nodes, out : STRING, target : Nodes, port : STRING])
    /\ \A i \in DOMAIN edges : edges[i].port \in Ins[edges[i].target] /\ edges[i].target \in Nodes
                               /\ edges[i].source \in Nodes
    /\ \A i, j \in DOMAIN edges : Exec!Key(edges[i]) = Exec!Key(edges[j]) => i = j
    /\ \A i, j \in DOMAIN edges :
          edges[i].target = edges[j].target /\ edges[i].port \notin Required[edges[i].target] => i = j
    /\ \A n \in Nodes : Ins[n] = {} \/ \E i \in DOMAIN edges : edges[i].target = n

LEMMA WiredIs ==
    ASSUME Exec!WiringAssumption, Exec!TypeOK
    PROVE  Wired
<1>1. edges \in Definitions
  BY DEF Exec!TypeOK
<1>2. edges \in Seq([id : Nat, source : Nodes, out : STRING, target : Nodes, port : STRING])
  BY <1>1 DEF Exec!WiringAssumption
<1>3. \A i \in DOMAIN edges : edges[i].target \in Nodes /\ edges[i].source \in Nodes
  <2> SUFFICES ASSUME NEW i \in DOMAIN edges
               PROVE  edges[i].target \in Nodes /\ edges[i].source \in Nodes
    OBVIOUS
  <2>a. i \in 1 .. Len(edges)
    BY <1>2, SMT
  <2>1. edges[i] \in [id : Nat, source : Nodes, out : STRING, target : Nodes, port : STRING]
    BY <1>2, <2>a, Exec!ElementOfSeq, Zenon
  <2>2. QED
    BY <2>1
<1>4. /\ \A i \in DOMAIN edges : edges[i].port \in Ins[edges[i].target]
      /\ \A i, j \in DOMAIN edges : Exec!Key(edges[i]) = Exec!Key(edges[j]) => i = j
      /\ \A i, j \in DOMAIN edges :
           edges[i].target = edges[j].target /\ edges[i].port \notin Required[edges[i].target] => i = j
      /\ \A n \in Nodes : Ins[n] = {} \/ \E i \in DOMAIN edges : edges[i].target = n
  BY <1>1, Zenon DEF Exec!WiringAssumption
<1>5. QED
  BY <1>2, <1>3, <1>4, Zenon DEF Wired

\* The edges into a port are finitely many, and Nth counts through any of them.
LEMMA PortEdges ==
    ASSUME Wired, NEW n, NEW p, NEW I \in SUBSET Exec!IntoPort(n, p)
    PROVE  /\ Exec!IsFiniteSet(I) /\ Exec!Cardinality(I) \in Nat
           /\ Exec!Cardinality(I) <= Exec!Cardinality(Exec!IntoPort(n, p))
           /\ Exec!Cardinality(I) = Exec!Cardinality(Exec!IntoPort(n, p)) => I = Exec!IntoPort(n, p)
           /\ Exec!Cardinality(I) = 0 <=> I = {}
           /\ \A k \in 1 .. Exec!Cardinality(I) : Exec!Nth(I, k) \in I
<1>1. DOMAIN edges = 1 .. Len(edges) /\ Len(edges) \in Nat
  BY DEF Wired
<1>2. Exec!IsFiniteSet(DOMAIN edges) /\ DOMAIN edges \in SUBSET Nat
  BY <1>1, Exec!FS_Interval
<1>3. Exec!IntoPort(n, p) \in SUBSET DOMAIN edges
  BY DEF Exec!IntoPort
<1>4. Exec!IsFiniteSet(Exec!IntoPort(n, p))
  BY <1>2, <1>3, Exec!FS_Subset
<1>5. Exec!IsFiniteSet(I) /\ Exec!Cardinality(I) \in Nat /\ I \in SUBSET Nat
  BY <1>2, <1>3, <1>4, Exec!FS_Subset, Exec!FS_CardinalityType
<1>6. /\ Exec!Cardinality(I) <= Exec!Cardinality(Exec!IntoPort(n, p))
      /\ Exec!Cardinality(I) = Exec!Cardinality(Exec!IntoPort(n, p)) => I = Exec!IntoPort(n, p)
  BY <1>4, Exec!FS_Subset
<1>7. Exec!Cardinality(I) = 0 <=> I = {}
  BY <1>5, Exec!FS_EmptySet
<1>8. \A k \in 1 .. Exec!Cardinality(I) : Exec!Nth(I, k) \in I
  BY <1>5, Exec!NthHasRank
<1>9. QED
  BY <1>5, <1>6, <1>7, <1>8

\* The inputs of a port are what it is owed.
LEMMA InputsAreOwed ==
    ASSUME Wired, Exec!DeliveredFacts, NEW n \in Nodes, NEW p \in Ins[n]
    PROVE  /\ inputs[n][p] = Exec!Owed(n, p)
           /\ Len(inputs[n][p]) = Exec!Cardinality(Exec!Owing(n, p)) /\ Len(inputs[n][p]) \in Nat
           /\ inputs[n][p] = << >> <=> Exec!Owing(n, p) = {}
           /\ Exec!Owing(n, p) \in SUBSET Exec!IntoPort(n, p)
<1> DEFINE here == {i \in Exec!IntoPort(n, p) : Exec!Key(edges[i]) \in DOMAIN delivered}
           N == Exec!Cardinality(Exec!Owing(n, p))
<1>1. here = Exec!Owing(n, p) /\ Exec!Owing(n, p) \in SUBSET Exec!IntoPort(n, p)
  BY DEF Exec!Owing, Exec!IntoPort, Exec!DeliveredFacts
<1>2. N \in Nat /\ \A k \in 1 .. N : Exec!Nth(Exec!Owing(n, p), k) \in Exec!Owing(n, p)
  BY <1>1, PortEdges
<1>a. inputs[n][p] = Exec!Arrived(delivered, n, p)
  BY Zenon DEF Exec!DeliveredFacts
<1>b. Exec!Arrived(delivered, n, p) = [k \in 1 .. Exec!Cardinality(here) |-> delivered[Exec!Key(edges[Exec!Nth(here, k)])]]
  BY Zenon DEF Exec!Arrived
<1>3. inputs[n][p] = [k \in 1 .. N |-> delivered[Exec!Key(edges[Exec!Nth(Exec!Owing(n, p), k)])]]
  <2> HIDE DEF here
  <2>1. QED
    BY <1>1, <1>a, <1>b, Zenon
<1>4. Exec!Owed(n, p) = [k \in 1 .. N |-> Exec!Value(edges[Exec!Nth(Exec!Owing(n, p), k)])]
  BY DEF Exec!Owed, Exec!Owing
<1>5. \A i \in Exec!Owing(n, p) : delivered[Exec!Key(edges[i])] = Exec!Value(edges[i])
  BY DEF Exec!Owing, Exec!IntoPort, Exec!DeliveredFacts
<1>6. inputs[n][p] = Exec!Owed(n, p)
  BY <1>2, <1>3, <1>4, <1>5
<1> HIDE DEF N
<1>7. inputs[n][p] = << >> <=> N = 0
  BY <1>2, <1>3
<1>8. Len(inputs[n][p]) = N
  BY <1>2, <1>3
<1>9. QED
  BY <1>1, <1>2, <1>6, <1>7, <1>8, PortEdges DEF N


\* All inputs are what is owed: a step as well as a state may need it.
InputsOwed == \A n \in Nodes : \A p \in Ins[n] : inputs[n][p] = Exec!Owed(n, p)

LEMMA AllOwed == Wired /\ Exec!DeliveredFacts => InputsOwed
BY InputsAreOwed DEF InputsOwed

--------------------------------------------------------------------------------
\* A step that is ready was given all it will ever be given.
LEMMA ReadyIsSettled ==
    ASSUME Exec!PortsAssumption, Wired, Exec!Valid(edges), Exec!DeliveredFacts, Exec!FaninFacts,
           NEW n \in Nodes, Exec!Ready(n)
    PROVE  Exec!Undeliverable(n) /\ Exec!Runnable(n)
<1>1. Many[n] \subseteq Required[n] /\ Required[n] \subseteq Ins[n]
  BY DEF Exec!PortsAssumption
<1>2. \A p \in Ins[n] : /\ inputs[n][p] = Exec!Owed(n, p)
                        /\ Len(inputs[n][p]) = Exec!Cardinality(Exec!Owing(n, p))
                        /\ inputs[n][p] = << >> <=> Exec!Owing(n, p) = {}
                        /\ Exec!Cardinality(Exec!Owing(n, p)) \in Nat
                        /\ Exec!Cardinality(Exec!Owing(n, p)) = 0 <=> Exec!Owing(n, p) = {}
  BY InputsAreOwed, PortEdges
<1>3. ASSUME NEW p \in Required[n] PROVE Exec!Owing(n, p) # {}
  <2>1. CASE p \in Many[n]
    <3>1. fanin[n][p] \in Nat
      BY <1>1 DEF Exec!FaninFacts
    <3>2. Len(inputs[n][p]) >= fanin[n][p] /\ fanin[n][p] > 0
      BY <2>1 DEF Exec!Ready
    <3>3. QED
      BY <1>1, <1>2, <3>1, <3>2
  <2>2. CASE p \notin Many[n]
    BY <1>1, <1>2, <2>2 DEF Exec!Ready
  <2>3. QED
    BY <2>1, <2>2
<1>4. Ins[n] # {} => \E p \in Ins[n] : Exec!Owing(n, p) # {}
  BY <1>2 DEF Exec!Ready, Exec!HasInputs
<1>5. Exec!Runnable(n)
  BY <1>1, <1>2, <1>3, <1>4 DEF Exec!Runnable
<1>6. ASSUME NEW i \in DOMAIN edges, edges[i].target = n, ~Exec!Undeliverable(n)
      PROVE  Exec!Emitted(edges[i])
  <2> DEFINE p == edges[i].port
  <2>1. p \in Ins[n] /\ i \in Exec!IntoPort(n, p)
    BY <1>6 DEF Wired, Exec!IntoPort
  <2>2. CASE p \in Many[n]
    <3>1. fanin[n][p] = Exec!Cardinality(Exec!IntoPort(n, p))
      BY <1>6, <2>1 DEF Exec!FaninFacts
    <3>2. Exec!Owing(n, p) \in SUBSET Exec!IntoPort(n, p)
      BY DEF Exec!Owing
    <3>3. Len(inputs[n][p]) >= fanin[n][p]
      BY <2>2 DEF Exec!Ready
    <3>4. Exec!Cardinality(Exec!IntoPort(n, p)) \in Nat
      BY <2>1, <3>1 DEF Exec!FaninFacts
    <3>5. Exec!Owing(n, p) = Exec!IntoPort(n, p)
      BY <1>2, <2>1, <3>1, <3>2, <3>3, <3>4, PortEdges
    <3>6. QED
      BY <2>1, <3>5 DEF Exec!Owing
  <2>3. CASE p \in Required[n] \ Many[n]
    <3>1. PICK j \in Exec!Owing(n, p) : TRUE
      BY <1>3, <2>3
    <3>2. j \in DOMAIN edges /\ edges[j].target = n /\ edges[j].port = p /\ Exec!Emitted(edges[j])
      BY DEF Exec!Owing, Exec!IntoPort
    <3>3. j = i
      BY <1>6, <2>3, <3>2 DEF Exec!Valid, Exec!PortFanin
    <3>4. QED
      BY <3>2, <3>3
  <2>4. CASE p \notin Required[n]
    <3>1. PICK q \in Ins[n] : Exec!Owing(n, q) # {}
      BY <1>4, <2>1
    <3>2. PICK j \in Exec!Owing(n, q) : TRUE
      BY <3>1
    <3>3. j \in DOMAIN edges /\ edges[j].target = n /\ Exec!Emitted(edges[j])
      BY DEF Exec!Owing, Exec!IntoPort
    <3>4. j = i
      BY <1>6, <2>4, <3>3 DEF Wired
    <3>5. QED
      BY <3>3, <3>4
  <2>5. QED
    BY <2>2, <2>3, <2>4
<1>7. Exec!Undeliverable(n)
  BY <1>6 DEF Exec!Undeliverable, Exec!Into, Exec!Emitted, Exec!SettledNodes
<1>8. QED
  BY <1>5, <1>7

\* An edge that carries an emitted value delivers that value.
LEMMA LatestIs ==
    ASSUME Wired, NEW I \in SUBSET DOMAIN edges, NEW i \in I
    PROVE  Exec!Latest(I, Exec!Key(edges[i])) = Exec!Value(edges[i])
<1> DEFINE J == {j \in I : Exec!Key(edges[j]) = Exec!Key(edges[i])}
<1>1. J = {i}
  BY DEF Wired
<1>2. i <= i
  BY DEF Wired
<1>3. (CHOOSE j \in J : \A k \in J : k <= j) = i
  BY <1>1, <1>2
<1>4. Exec!Latest(I, Exec!Key(edges[i])) = Exec!Value(edges[CHOOSE j \in J : \A k \in J : k <= j])
  BY Zenon DEF Exec!Latest
<1>5. QED
  BY <1>3, <1>4

\* What a step's run changes: its own values are emitted and delivered.
LEMMA RunDelivers ==
    ASSUME Wired, Exec!TypeOK, Exec!DeliveredFacts, Exec!LoopFacts, NEW n \in Nodes, Exec!RunNode(n)
    PROVE  /\ Exec!DeliveredFacts' /\ edges' = edges /\ n \in pending
           /\ n \notin Exec!SettledNodes /\ Exec!SettledNodes' = Exec!SettledNodes \cup {n}
           /\ \A i \in DOMAIN edges :
                edges[i].source # n => (Exec!Emitted(edges[i])' <=> Exec!Emitted(edges[i]))
<1>1. PICK emitted \in Emissions[n] :
        /\ outputs' = [m \in Exec!Ran \cup {n} |-> IF m = n THEN emitted ELSE outputs[m]]
        /\ Exec!Propagate(n, emitted)
  BY DEF Exec!RunNode
<1> DEFINE I == Exec!Carried(n, emitted)
<1>2. edges' = edges /\ n \in pending /\ dead' = dead
  BY DEF Exec!RunNode, Exec!LoopFacts
<1>3. n \notin Exec!SettledNodes /\ Exec!Ran' = Exec!Ran \cup {n} /\ Exec!SettledNodes' = Exec!SettledNodes \cup {n}
  BY <1>1, <1>2 DEF Exec!TypeOK, Exec!SettledNodes, Exec!Ran
<1>4. \A i \in DOMAIN edges : Exec!Emitted(edges[i])' <=> Exec!Emitted(edges[i]) \/ i \in I
  BY <1>1, <1>2, <1>3 DEF Exec!Emitted, Exec!Carried, Exec!SettledNodes, Exec!Ran
<1>5. I \in SUBSET DOMAIN edges /\ \A i \in I : edges[i].source = n
  BY DEF Exec!Carried
<1>6. delivered' = Exec!DeliveredBy(I)
  BY <1>1 DEF Exec!Propagate
<1>7. inputs' = [m \in Nodes |-> [p \in Ins[m] |->
         IF I \cap Exec!IntoPort(m, p) # {} THEN Exec!Arrived(delivered', m, p) ELSE inputs[m][p]]]
  BY <1>1 DEF Exec!Propagate
<1> HIDE DEF I
<1>8. \A i \in DOMAIN edges : Exec!Key(edges[i]) \in {Exec!Key(edges[j]) : j \in I} <=> i \in I
  BY <1>5 DEF Wired
<1>9. \A i \in DOMAIN edges : Exec!Key(edges[i]) \in DOMAIN delivered' <=> Exec!Emitted(edges[i])'
  BY <1>4, <1>6, <1>8 DEF Exec!DeliveredBy, Exec!DeliveredFacts
<1>10. ASSUME NEW i \in DOMAIN edges, Exec!Emitted(edges[i])'
       PROVE  delivered'[Exec!Key(edges[i])] = Exec!Value(edges[i])
  <2>1. CASE i \in I
    <3>1. Exec!Key(edges[i]) \in {Exec!Key(edges[j]) : j \in I}
      BY <2>1
    <3>2. delivered'[Exec!Key(edges[i])] = Exec!Latest(I, Exec!Key(edges[i]))
      BY <1>6, <3>1 DEF Exec!DeliveredBy
    <3>3. QED
      BY <1>5, <2>1, <3>2, LatestIs
  <2>2. CASE i \notin I
    <3>1. Exec!Emitted(edges[i])
      BY <1>4, <1>10, <2>2
    <3>2. Exec!Key(edges[i]) \in DOMAIN delivered /\ delivered[Exec!Key(edges[i])] = Exec!Value(edges[i])
      BY <3>1 DEF Exec!DeliveredFacts
    <3>3. delivered'[Exec!Key(edges[i])] = delivered[Exec!Key(edges[i])]
      BY <1>6, <1>8, <2>2, <3>2 DEF Exec!DeliveredBy
    <3>4. QED
      BY <3>2, <3>3
  <2>3. QED
    BY <2>1, <2>2
<1>11. ASSUME NEW m \in Nodes, NEW p \in Ins[m] PROVE inputs'[m][p] = Exec!Arrived(delivered, m, p)'
  <2>1. Exec!Arrived(delivered, m, p)' = Exec!Arrived(delivered', m, p)
    BY <1>2 DEF Exec!Arrived, Exec!IntoPort
  <2>2. CASE I \cap Exec!IntoPort(m, p) # {}
    BY <1>7, <2>1, <2>2
  <2>3. CASE I \cap Exec!IntoPort(m, p) = {}
    <3> DEFINE Here(d) == {i \in Exec!IntoPort(m, p) : Exec!Key(edges[i]) \in DOMAIN d}
               W(d, H) == [k \in 1 .. Exec!Cardinality(H) |-> d[Exec!Key(edges[Exec!Nth(H, k)])]]
    <3>1. \A i \in Exec!IntoPort(m, p) : i \in DOMAIN edges /\ i \notin I
      BY <2>3 DEF Exec!IntoPort
    <3>2. \A i \in Exec!IntoPort(m, p) :
            /\ Exec!Key(edges[i]) \in DOMAIN delivered' <=> Exec!Key(edges[i]) \in DOMAIN delivered
            /\ Exec!Key(edges[i]) \in DOMAIN delivered
                 => delivered'[Exec!Key(edges[i])] = delivered[Exec!Key(edges[i])]
      BY <1>6, <1>8, <3>1 DEF Exec!DeliveredBy
    <3>3. Here(delivered') = Here(delivered)
      BY <3>2
    <3>4. \A d : Exec!Arrived(d, m, p) = W(d, Here(d))
      BY DEF Exec!Arrived
    <3>5. \A k \in 1 .. Exec!Cardinality(Here(delivered)) : Exec!Nth(Here(delivered), k) \in Here(delivered)
      <4>1. Here(delivered) \in SUBSET Exec!IntoPort(m, p)
        OBVIOUS
      <4>2. QED
        BY <4>1, PortEdges
    <3>6. W(delivered', Here(delivered)) = W(delivered, Here(delivered))
      BY <3>2, <3>5
    <3>7. inputs'[m][p] = Exec!Arrived(delivered, m, p)
      BY <1>7, <2>3 DEF Exec!DeliveredFacts
    <3> HIDE DEF Here, W
    <3>8. QED
      BY <2>1, <3>3, <3>4, <3>6, <3>7
  <2>4. QED
    BY <2>2, <2>3
<1>12. Exec!DeliveredFacts'
  BY <1>2, <1>9, <1>10, <1>11 DEF Exec!DeliveredFacts
<1>13. QED
  BY <1>2, <1>3, <1>4, <1>5, <1>12

\* A run leaves alone the steps that everything has been settled for.
LEMMA InputsStay ==
    ASSUME Wired, Exec!TypeOK, Exec!DeliveredFacts, Exec!LoopFacts, NEW n \in Nodes, Exec!RunNode(n),
           NEW m \in Nodes, Exec!Undeliverable(m)
    PROVE  /\ Exec!Undeliverable(m)' /\ (Exec!HasInputs(m)' <=> Exec!HasInputs(m))
           /\ Exec!Runnable(m)' <=> Exec!Runnable(m)
           /\ \A p \in Ins[m] : inputs'[m][p] = inputs[m][p]
<1>1. /\ Exec!DeliveredFacts' /\ edges' = edges /\ n \notin Exec!SettledNodes
      /\ Exec!SettledNodes' = Exec!SettledNodes \cup {n}
      /\ \A i \in DOMAIN edges : edges[i].source # n => (Exec!Emitted(edges[i])' <=> Exec!Emitted(edges[i]))
  BY RunDelivers
<1>2. Wired'
  BY <1>1 DEF Wired
<1>3. \A i \in DOMAIN edges : edges[i].target = m => edges[i].source \in Exec!SettledNodes
  BY DEF Exec!Undeliverable, Exec!Into
<1>4. \A p : Exec!IntoPort(m, p)' = Exec!IntoPort(m, p)
  BY <1>1 DEF Exec!IntoPort
<1>5. ASSUME NEW p PROVE Exec!Owing(m, p)' = Exec!Owing(m, p)
  <2>1. \A i \in Exec!IntoPort(m, p) : Exec!Emitted(edges[i])' <=> Exec!Emitted(edges[i])
    BY <1>1, <1>3 DEF Exec!IntoPort
  <2>2. QED
    BY <1>1, <1>4, <2>1 DEF Exec!Owing
<1>6. \A p : Exec!Owed(m, p)' = Exec!Owed(m, p)
  <2> DEFINE W(O) == [k \in 1 .. Exec!Cardinality(O) |-> Exec!Value(edges[Exec!Nth(O, k)])]
  <2>1. \A p : Exec!Owed(m, p) = W(Exec!Owing(m, p))
    BY DEF Exec!Owed, Exec!Owing
  <2>2. \A p : Exec!Owed(m, p)' = W(Exec!Owing(m, p)')
    BY <1>1 DEF Exec!Owed, Exec!Owing
  <2>3. QED
    <3> SUFFICES ASSUME NEW p PROVE Exec!Owed(m, p)' = Exec!Owed(m, p)
      OBVIOUS
    <3>1. Exec!Owing(m, p)' = Exec!Owing(m, p)
      BY <1>5
    <3> HIDE DEF W
    <3>2. QED
      BY <2>1, <2>2, <3>1, Zenon
<1>7. \A p \in Ins[m] : inputs'[m][p] = inputs[m][p]
  <2>1. InputsOwed
    BY AllOwed
  <2>2. (Wired /\ Exec!DeliveredFacts => InputsOwed)'
    BY AllOwed, PTL
  <2>3. InputsOwed'
    BY <1>1, <1>2, <2>2
  <2>4. QED
    BY <1>6, <2>1, <2>3 DEF InputsOwed
<1>8. Exec!Undeliverable(m)'
  BY <1>1 DEF Exec!Undeliverable, Exec!Into
<1>9. Exec!HasInputs(m)' <=> Exec!HasInputs(m)
  BY <1>7 DEF Exec!HasInputs
<1>10. Exec!Runnable(m)' <=> Exec!Runnable(m)
  BY <1>6 DEF Exec!Runnable
<1>11. QED
  BY <1>7, <1>8, <1>9, <1>10

--------------------------------------------------------------------------------
(* The steps of the loops themselves. *)

LoopStep ==
    \/ Exec!Validate \/ Exec!ScanEnds \/ Exec!SettleEnds \/ UNCHANGED Exec!vars
    \/ \E n \in Nodes : Exec!NodeRaises(n) \/ Exec!SkipNode(n)

\* What the loops do not touch says the same after their step.
LEMMA DataStays ==
    ASSUME LoopStep
    PROVE  /\ Exec!DeliveredFacts' <=> Exec!DeliveredFacts
           /\ Exec!FaninFacts' <=> Exec!FaninFacts
           /\ Exec!SettledNodes' = Exec!SettledNodes /\ Exec!Ran' = Exec!Ran
           /\ Exec!Valid(edges)' <=> Exec!Valid(edges)
           /\ \A m \in Nodes : /\ Exec!Undeliverable(m)' <=> Exec!Undeliverable(m)
                               /\ Exec!HasInputs(m)' <=> Exec!HasInputs(m)
                               /\ Exec!Ready(m)' <=> Exec!Ready(m)
                               /\ Exec!Runnable(m)' <=> Exec!Runnable(m)
                               /\ Exec!Into(m)' = Exec!Into(m) /\ Exec!Shrunk(m)' = Exec!Shrunk(m)
           /\ \A m, p : Exec!Owed(m, p)' = Exec!Owed(m, p)
<1>1. /\ edges' = edges /\ dead' = dead /\ outputs' = outputs /\ inputs' = inputs
      /\ delivered' = delivered /\ fanin' = fanin /\ seen' = seen
  BY DEF LoopStep, Exec!Validate, Exec!NodeRaises, Exec!SkipNode, Exec!ScanEnds, Exec!SettleEnds, Exec!vars
<1>2. Exec!SettledNodes' = Exec!SettledNodes /\ Exec!Ran' = Exec!Ran
  BY <1>1 DEF Exec!SettledNodes, Exec!Ran
<1>3. \A m, p : Exec!IntoPort(m, p)' = Exec!IntoPort(m, p) /\ Exec!Arrived(delivered, m, p)' = Exec!Arrived(delivered, m, p)
  BY <1>1 DEF Exec!Arrived, Exec!IntoPort
<1>4. \A e : Exec!Emitted(e)' <=> Exec!Emitted(e)
  BY <1>1 DEF Exec!Emitted, Exec!Ran
<1>5. \A m, p : Exec!Owed(m, p)' = Exec!Owed(m, p)
  BY <1>1 DEF Exec!Owed, Exec!IntoPort, Exec!Emitted, Exec!Ran
<1>6. \A m \in Nodes : Exec!Into(m)' = Exec!Into(m) /\ (Exec!Undeliverable(m)' <=> Exec!Undeliverable(m))
  BY <1>1 DEF Exec!Into, Exec!Undeliverable, Exec!SettledNodes, Exec!Ran
<1>7. \A m \in Nodes : /\ Exec!HasInputs(m)' <=> Exec!HasInputs(m)
                       /\ Exec!Ready(m)' <=> Exec!Ready(m)
                       /\ Exec!Shrunk(m)' = Exec!Shrunk(m)
  BY <1>1 DEF Exec!HasInputs, Exec!Ready, Exec!Shrunk
<1>8. \A m \in Nodes : Exec!Runnable(m)' <=> Exec!Runnable(m)
  BY <1>5 DEF Exec!Runnable
<1>9. Exec!Valid(edges)' <=> Exec!Valid(edges)
  BY <1>1 DEF Exec!Valid, Exec!PortFanin, Exec!RequiredInputs, Exec!HasCycle
<1>10. Exec!DeliveredFacts' <=> Exec!DeliveredFacts
  BY <1>1, <1>3, <1>4 DEF Exec!DeliveredFacts
<1>11. Exec!FaninFacts' <=> Exec!FaninFacts
  BY <1>1, <1>3, <1>6 DEF Exec!FaninFacts
<1>12. QED
  BY <1>2, <1>5, <1>6, <1>7, <1>8, <1>9, <1>10, <1>11

\* A step that takes no input is ready.
LEMMA WaitersTakeInput ==
    ASSUME Exec!PortsAssumption, NEW n \in Nodes, ~Exec!Ready(n)
    PROVE  Ins[n] # {}
BY DEF Exec!PortsAssumption, Exec!Ready

\* A settling that changed nothing leaves a step that was given some input and
\* lacks a required one: else the waiting steps would wait for each other.
LEMMA StallOf ==
    ASSUME Exec!PortsAssumption, Wired, Exec!TypeOK, Exec!DeliveredFacts, Exec!FaninFacts, Exec!NodeFacts, Exec!LoopFacts,
           executorPc = "settle", todo = {}, ~progressed, pending # {}
    PROVE  \E n \in pending : Exec!HasInputs(n) /\ \E p \in Required[n] : Exec!Owed(n, p) = << >>
<1>1. \A n \in pending : /\ Ins[n] # {} /\ ~Exec!Ready(n)
                         /\ \/ ~Exec!Undeliverable(n)
                            \/ (Exec!HasInputs(n) \/ Exec!Into(n) = {}) /\ Exec!Shrunk(n) = fanin[n]
  BY DEF Exec!LoopFacts
<1>2. pending \in SUBSET Nodes /\ Nodes = pending \cup Exec!SettledNodes
  BY DEF Exec!TypeOK, Exec!NodeFacts
<1>3. PICK n \in pending : Exec!Undeliverable(n)
  <2>1. SUFFICES ASSUME \A n \in pending : ~Exec!Undeliverable(n) PROVE FALSE
    OBVIOUS
  <2>2. \A n \in pending : \E i \in DOMAIN edges : edges[i].target = n /\ edges[i].source \notin Exec!SettledNodes
    BY <2>1 DEF Exec!Undeliverable, Exec!Into
  <2>3. \A n \in pending : \E i \in DOMAIN edges : edges[i].target = n /\ edges[i].source \in pending
    BY <1>2, <2>2 DEF Wired
  <2>4. Exec!HasCycle(edges)
    BY <1>2, <2>3, FedFromWithin
  <2>5. QED
    BY <2>4 DEF Exec!LoopFacts, Exec!Valid
<1>4. Exec!Into(n) # {}
  <2>1. PICK i \in DOMAIN edges : edges[i].target = n
    BY <1>1, <1>2 DEF Wired
  <2>2. QED
    BY <2>1 DEF Exec!Into
<1>5. Exec!HasInputs(n) /\ Exec!Shrunk(n) = fanin[n]
  BY <1>1, <1>3, <1>4
<1>6. Many[n] \subseteq Required[n] /\ Required[n] \subseteq Ins[n] /\ n \in Nodes
  BY <1>2 DEF Exec!PortsAssumption
<1>7. \A p \in Ins[n] : /\ inputs[n][p] = Exec!Owed(n, p)
                        /\ Len(inputs[n][p]) \in Nat
                        /\ Len(inputs[n][p]) = 0 => inputs[n][p] = << >>
  <2> SUFFICES ASSUME NEW p \in Ins[n]
               PROVE  /\ inputs[n][p] = Exec!Owed(n, p) /\ Len(inputs[n][p]) \in Nat
                      /\ Len(inputs[n][p]) = 0 => inputs[n][p] = << >>
    OBVIOUS
  <2>1. QED
    BY <1>6, InputsAreOwed, PortEdges
<1>8. ASSUME NEW p \in Many[n], ~(Len(inputs[n][p]) >= fanin[n][p] /\ fanin[n][p] > 0)
      PROVE  inputs[n][p] = << >>
  <2>1. SUFFICES ASSUME inputs[n][p] # << >> PROVE FALSE
    OBVIOUS
  <2>2. Len(inputs[n][p]) = fanin[n][p]
    BY <1>5, <1>6, <2>1 DEF Exec!Shrunk
  <2>3. QED
    BY <1>6, <1>7, <1>8, <2>1, <2>2
<1>9. \E p \in Required[n] : inputs[n][p] = << >>
  BY <1>1, <1>5, <1>6, <1>8 DEF Exec!Ready
<1>10. QED
  BY <1>5, <1>6, <1>7, <1>9

\* The loops keep what is known of the steps.
LEMMA LoopsKeepNodes ==
    ASSUME Exec!TypeOK, Exec!NodeFacts, LoopStep
    PROVE  Exec!TypeOK' /\ Exec!NodeFacts'
<1>1. /\ edges' = edges /\ dead' = dead /\ outputs' = outputs /\ inputs' = inputs
      /\ fanin' = fanin /\ seen' = seen
  BY DEF LoopStep, Exec!Validate, Exec!NodeRaises, Exec!SkipNode, Exec!ScanEnds, Exec!SettleEnds, Exec!vars
<1>2. /\ executorPc' \in Exec!Ended \cup {"validate", "scan", "settle"}
      /\ todo' \subseteq Nodes /\ progressed' \in BOOLEAN
      /\ pending' = pending \/ (pending' = {} /\ executorPc' = "completed")
      /\ executorPc = "completed" => executorPc' = "completed"
  <2> USE DEF Exec!TypeOK, Exec!Ended
  <2>1. CASE Exec!Validate
    BY <2>1 DEF Exec!Validate
  <2>2. CASE \E n \in Nodes : Exec!NodeRaises(n)
    BY <2>2 DEF Exec!NodeRaises
  <2>3. CASE \E n \in Nodes : Exec!SkipNode(n)
    BY <2>3 DEF Exec!SkipNode
  <2>4. CASE Exec!ScanEnds
    BY <2>4 DEF Exec!ScanEnds
  <2>5. CASE Exec!SettleEnds
    BY <2>5 DEF Exec!SettleEnds
  <2>6. CASE UNCHANGED Exec!vars
    BY <2>6 DEF Exec!vars
  <2>7. QED
    BY <2>1, <2>2, <2>3, <2>4, <2>5, <2>6 DEF LoopStep
<1>3. Exec!SettledNodes' = Exec!SettledNodes /\ Exec!Ran' = Exec!Ran
  BY DataStays
<1>4. Exec!TypeOK'
  BY <1>1, <1>2, <1>3 DEF Exec!TypeOK
<1>5. \A m \in Nodes : /\ Exec!Undeliverable(m)' <=> Exec!Undeliverable(m)
                       /\ Exec!HasInputs(m)' <=> Exec!HasInputs(m)
                       /\ Exec!Runnable(m)' <=> Exec!Runnable(m)
  BY DataStays
<1>6. Exec!Ran \subseteq Nodes /\ dead \subseteq Nodes
  BY DEF Exec!TypeOK
<1>7. QED
  BY <1>1, <1>2, <1>3, <1>4, <1>5, <1>6 DEF Exec!NodeFacts

\* The loops keep count of what they have been over.
LEMMA LoopsKeepCount ==
    ASSUME Exec!PortsAssumption, Exec!TypeOK, Exec!LoopFacts, LoopStep
    PROVE  Exec!LoopFacts'
<1>1. \A m \in Nodes : /\ Exec!Undeliverable(m)' <=> Exec!Undeliverable(m)
                       /\ Exec!HasInputs(m)' <=> Exec!HasInputs(m)
                       /\ Exec!Ready(m)' <=> Exec!Ready(m)
                       /\ Exec!Into(m)' = Exec!Into(m) /\ Exec!Shrunk(m)' = Exec!Shrunk(m)
  BY DataStays
<1>2. (Exec!Valid(edges)' <=> Exec!Valid(edges)) /\ pending \subseteq Nodes
  BY DataStays DEF Exec!TypeOK
<1>3. CASE Exec!Validate
  BY <1>2, <1>3 DEF Exec!Validate, Exec!LoopFacts
<1>4. CASE \E n \in Nodes : Exec!NodeRaises(n)
  BY <1>4 DEF Exec!NodeRaises, Exec!LoopFacts
<1>5. CASE \E n \in Nodes : Exec!SkipNode(n)
  BY <1>1, <1>2, <1>5, WaitersTakeInput DEF Exec!SkipNode, Exec!LoopFacts
<1>6. CASE Exec!ScanEnds
  BY <1>1, <1>2, <1>6 DEF Exec!ScanEnds, Exec!LoopFacts
<1>7. CASE Exec!SettleEnds
  BY <1>1, <1>2, <1>7 DEF Exec!SettleEnds, Exec!LoopFacts
<1>8. CASE UNCHANGED Exec!vars
  BY <1>1, <1>2, <1>8 DEF Exec!vars, Exec!LoopFacts
<1>9. QED
  BY <1>3, <1>4, <1>5, <1>6, <1>7, <1>8 DEF LoopStep

\* A run that ends in the loops has the outcome that the graph fixes.
LEMMA LoopsEnd ==
    ASSUME Exec!PortsAssumption, Wired, Exec!ExecInv, LoopStep
    PROVE  Exec!OutcomeFixed' /\ Exec!StallIsReal'
<1>1. Exec!TypeOK /\ Exec!DeliveredFacts /\ Exec!FaninFacts /\ Exec!NodeFacts /\ Exec!LoopFacts /\ Exec!OutcomeFixed /\ Exec!StallIsReal
  BY DEF Exec!ExecInv
<1>2. /\ Exec!Ran' = Exec!Ran /\ \A m \in Nodes : Exec!HasInputs(m)' <=> Exec!HasInputs(m)
      /\ \A m \in Nodes : Exec!Runnable(m)' <=> Exec!Runnable(m)
      /\ \A m, p : Exec!Owed(m, p)' = Exec!Owed(m, p)
  BY DataStays
<1>3. \A m \in Nodes : Ins[m] # {} /\ ~Exec!HasInputs(m) => ~Exec!Runnable(m)
  BY <1>1, AllOwed DEF Exec!Runnable, Exec!HasInputs, InputsOwed
<1>4. ASSUME executorPc # "completed", \A m \in pending : Ins[m] # {} /\ ~Exec!HasInputs(m)
      PROVE  Exec!Ran = {m \in Nodes : Exec!Runnable(m)}
  <2>1. Nodes = pending \cup Exec!SettledNodes /\ Exec!Ran \subseteq Nodes
    BY <1>1, <1>4 DEF Exec!NodeFacts, Exec!TypeOK
  <2>2. \A m \in Exec!Ran : Exec!Runnable(m)
    BY <1>1 DEF Exec!NodeFacts
  <2>3. \A m \in dead : Ins[m] # {} /\ ~Exec!HasInputs(m)
    BY <1>1 DEF Exec!NodeFacts
  <2>4. \A m \in Nodes : Exec!Runnable(m) => m \in Exec!Ran
    BY <1>3, <1>4, <2>1, <2>3 DEF Exec!SettledNodes
  <2>5. QED
    BY <2>1, <2>2, <2>4
<1>5. ASSUME executorPc # "completed", executorPc' = "completed"
      PROVE  \A m \in pending : Ins[m] # {} /\ ~Exec!HasInputs(m)
  <2>1. CASE Exec!ScanEnds
    BY <2>1, <1>5 DEF Exec!ScanEnds
  <2>2. CASE Exec!SettleEnds
    BY <2>2, <1>1, <1>5 DEF Exec!SettleEnds, Exec!LoopFacts
  <2>3. ~Exec!Validate /\ ~UNCHANGED Exec!vars /\ ~(\E n \in Nodes : Exec!NodeRaises(n) \/ Exec!SkipNode(n))
    BY <1>5 DEF Exec!Validate, Exec!NodeRaises, Exec!SkipNode, Exec!vars
  <2>4. QED
    BY <2>1, <2>2, <2>3 DEF LoopStep
<1>6. Exec!OutcomeFixed'
  <2>1. SUFFICES ASSUME executorPc' = "completed" PROVE Exec!Ran = {m \in Nodes : Exec!Runnable(m)}
    BY <1>2 DEF Exec!OutcomeFixed
  <2>2. CASE executorPc = "completed"
    BY <1>1, <2>2 DEF Exec!OutcomeFixed
  <2>3. CASE executorPc # "completed"
    BY <1>4, <1>5, <2>1, <2>3
  <2>4. QED
    BY <2>2, <2>3
<1>7. Exec!StallIsReal'
  <2>1. SUFFICES ASSUME executorPc' = "stalled"
                 PROVE  \E m \in pending' : Exec!HasInputs(m)' /\ \E p \in Required[m] : Exec!Owed(m, p)' = << >>
    BY DEF Exec!StallIsReal
  <2>2. pending' = pending
    BY <2>1 DEF LoopStep, Exec!Validate, Exec!NodeRaises, Exec!SkipNode, Exec!ScanEnds, Exec!SettleEnds, Exec!vars
  <2>3. CASE executorPc = "stalled"
    BY <1>1, <1>2, <2>2, <2>3 DEF Exec!StallIsReal, Exec!TypeOK
  <2>4. CASE executorPc # "stalled"
    <3>1. Exec!SettleEnds
      BY <2>1, <2>4 DEF LoopStep, Exec!Validate, Exec!NodeRaises, Exec!SkipNode, Exec!ScanEnds, Exec!vars
    <3>2. executorPc = "settle" /\ todo = {} /\ ~progressed /\ pending # {}
      BY <2>1, <3>1 DEF Exec!SettleEnds
    <3>3. PICK m \in pending : Exec!HasInputs(m) /\ \E p \in Required[m] : Exec!Owed(m, p) = << >>
      BY <1>1, <3>2, StallOf
    <3>4. m \in Nodes
      BY <1>1 DEF Exec!TypeOK
    <3>5. QED
      BY <1>2, <2>2, <3>3, <3>4
  <2>5. QED
    BY <2>3, <2>4
<1>8. QED
  BY <1>6, <1>7
--------------------------------------------------------------------------------
(* Running a step. *)

\* A run keeps what is known of the steps: it was ready, so it has all it will
\* be given, and the others that have run or are dead are given nothing more.
LEMMA RunKeepsNodes ==
    ASSUME Exec!PortsAssumption, Wired, Exec!TypeOK, Exec!DeliveredFacts, Exec!FaninFacts, Exec!NodeFacts, Exec!LoopFacts,
           NEW n \in Nodes, Exec!RunNode(n)
    PROVE  Exec!NodeFacts'
<1>1. /\ Exec!SettledNodes' = Exec!SettledNodes \cup {n} /\ dead' = dead /\ pending' = pending \ {n}
      /\ n \notin Exec!SettledNodes /\ executorPc = "scan" /\ executorPc' = executorPc
      /\ seen' = [m \in Exec!Ran \cup {n} |-> IF m = n THEN inputs[n] ELSE seen[m]]
  BY RunDelivers DEF Exec!RunNode
<1>2. Exec!Ran' = Exec!Ran \cup {n}
  BY DEF Exec!RunNode, Exec!Ran
<1>3. Exec!Undeliverable(n) /\ Exec!Runnable(n)
  BY <1>1, ReadyIsSettled DEF Exec!RunNode, Exec!LoopFacts
<1>4. \A m \in Nodes : Exec!Undeliverable(m) =>
        /\ Exec!Undeliverable(m)' /\ (Exec!HasInputs(m)' <=> Exec!HasInputs(m)) /\ (Exec!Runnable(m)' <=> Exec!Runnable(m))
        /\ \A p \in Ins[m] : inputs'[m][p] = inputs[m][p]
  BY InputsStay
<1>5. Exec!Ran \subseteq Nodes /\ dead \subseteq Nodes
  BY DEF Exec!TypeOK
<1>6. \A m \in dead : Exec!Undeliverable(m)' /\ Ins[m] # {} /\ ~Exec!HasInputs(m)'
  BY <1>4, <1>5 DEF Exec!NodeFacts
<1>7. ASSUME NEW m \in Exec!Ran \cup {n}
      PROVE  Exec!Undeliverable(m)' /\ Exec!Runnable(m)' /\ \A p \in Ins[m] : seen'[m][p] = inputs'[m][p]
  <2>1. CASE m = n
    BY <1>1, <1>3, <1>4, <2>1
  <2>2. CASE m # n
    BY <1>1, <1>4, <1>5, <1>7, <2>2 DEF Exec!NodeFacts
  <2>3. QED
    BY <2>1, <2>2
<1>8. executorPc' # "completed" => Nodes = pending' \cup Exec!SettledNodes'
  BY <1>1 DEF Exec!NodeFacts
<1>9. QED
  BY <1>1, <1>2, <1>6, <1>7, <1>8 DEF Exec!NodeFacts

\* The rest of the invariant when a step runs.
LEMMA RunKeepsRest ==
    ASSUME Wired, Exec!TypeOK, Exec!DeliveredFacts, Exec!FaninFacts, Exec!LoopFacts, NEW n \in Nodes, Exec!RunNode(n)
    PROVE  Exec!TypeOK' /\ Exec!FaninFacts' /\ Exec!LoopFacts' /\ Exec!OutcomeFixed' /\ Exec!StallIsReal'
<1>1. /\ edges' = edges /\ executorPc = "scan" /\ executorPc' = executorPc /\ dead' = dead /\ fanin' = fanin
      /\ pending' = pending \ {n} /\ todo' = todo \ {n} /\ progressed' = TRUE
  BY DEF Exec!RunNode
<1>2. n \notin Exec!SettledNodes /\ Exec!SettledNodes' = Exec!SettledNodes \cup {n}
  BY RunDelivers
<1>3. PICK emitted \in Emissions[n] :
        /\ outputs' = [m \in Exec!Ran \cup {n} |-> IF m = n THEN emitted ELSE outputs[m]]
        /\ Exec!Propagate(n, emitted)
  BY DEF Exec!RunNode
<1>4. Exec!Ran' = Exec!Ran \cup {n} /\ \A m \in Exec!Ran' : outputs'[m] \in Emissions[m]
  BY <1>3 DEF Exec!Ran, Exec!TypeOK
<1>5. \A m \in Nodes : DOMAIN inputs'[m] = Ins[m] /\ DOMAIN fanin'[m] = Ins[m]
  BY <1>1, <1>3 DEF Exec!Propagate, Exec!TypeOK
<1>6. Exec!TypeOK'
  BY <1>1, <1>2, <1>4, <1>5 DEF Exec!TypeOK, Exec!SettledNodes
<1>7. \A m \in Nodes : Exec!Undeliverable(m) => Exec!Undeliverable(m)'
  BY <1>1, <1>2 DEF Exec!Undeliverable, Exec!Into
<1>8. \A m, p : Exec!IntoPort(m, p)' = Exec!IntoPort(m, p)
  BY <1>1 DEF Exec!IntoPort
<1>9. Exec!FaninFacts'
  BY <1>1, <1>7, <1>8 DEF Exec!FaninFacts
<1>10. Exec!Valid(edges)' <=> Exec!Valid(edges)
  BY <1>1 DEF Exec!Valid, Exec!PortFanin, Exec!RequiredInputs, Exec!HasCycle
<1>11. Exec!LoopFacts'
  BY <1>1, <1>10 DEF Exec!LoopFacts
<1>12. QED
  BY <1>1, <1>6, <1>9, <1>11 DEF Exec!OutcomeFixed, Exec!StallIsReal
--------------------------------------------------------------------------------
(* Settling a step. *)

\* Either nothing changes, or the settling is marked as one that changed
\* something.
LEMMA SettleMarks ==
    ASSUME Exec!TypeOK, Exec!FaninFacts, NEW n \in Nodes, Exec!SettleNode(n)
    PROVE  \/ progressed'
           \/ /\ ~progressed /\ pending' = pending /\ dead' = dead
              /\ \A m \in Nodes : fanin'[m] = fanin[m]
              /\ ~Exec!Undeliverable(n) \/ ((Exec!HasInputs(n) \/ Exec!Into(n) = {}) /\ Exec!Shrunk(n) = fanin[n])
<1> USE DEF Exec!TypeOK, Exec!FaninFacts
<1>1. CASE /\ Exec!Undeliverable(n) /\ ~Exec!HasInputs(n) /\ Exec!Into(n) # {}
           /\ progressed' = TRUE
  BY <1>1
<1>2. CASE /\ Exec!Undeliverable(n) /\ (Exec!HasInputs(n) \/ Exec!Into(n) = {})
           /\ fanin' = [fanin EXCEPT ![n] = Exec!Shrunk(n)]
           /\ progressed' = (progressed \/ Exec!Shrunk(n) # fanin[n])
           /\ UNCHANGED <<pending, dead>>
  <2>1. CASE progressed \/ Exec!Shrunk(n) # fanin[n]
    BY <1>2, <2>1
  <2>2. CASE ~progressed /\ Exec!Shrunk(n) = fanin[n]
    <3>1. \A m \in Nodes : fanin'[m] = fanin[m]
      BY <1>2, <2>2
    <3>2. QED
      BY <1>2, <2>2, <3>1
  <2>3. QED
    BY <2>1, <2>2
<1>3. CASE ~Exec!Undeliverable(n) /\ UNCHANGED <<progressed, pending, dead, fanin>>
  BY <1>3
<1>4. QED
  BY <1>1, <1>2, <1>3 DEF Exec!SettleNode

\* What settling leaves alone, and that nothing becomes deliverable again.
LEMMA SettleStays ==
    ASSUME NEW n \in Nodes, Exec!SettleNode(n)
    PROVE  /\ Exec!DeliveredFacts' <=> Exec!DeliveredFacts
           /\ Exec!Ran' = Exec!Ran /\ Exec!SettledNodes \subseteq Exec!SettledNodes'
           /\ Exec!Valid(edges)' <=> Exec!Valid(edges)
           /\ \A m \in Nodes : /\ Exec!Undeliverable(m) => Exec!Undeliverable(m)'
                               /\ Exec!HasInputs(m)' <=> Exec!HasInputs(m)
                               /\ Exec!Runnable(m)' <=> Exec!Runnable(m)
                               /\ Exec!Into(m)' = Exec!Into(m)
           /\ \A m, p : Exec!IntoPort(m, p)' = Exec!IntoPort(m, p)
<1>1. /\ edges' = edges /\ outputs' = outputs /\ inputs' = inputs
      /\ delivered' = delivered /\ seen' = seen /\ dead \subseteq dead'
  BY DEF Exec!SettleNode
<1>2. Exec!SettledNodes \subseteq Exec!SettledNodes' /\ Exec!Ran' = Exec!Ran
  BY <1>1 DEF Exec!SettledNodes, Exec!Ran
<1>3. \A m, p : Exec!IntoPort(m, p)' = Exec!IntoPort(m, p) /\ Exec!Arrived(delivered, m, p)' = Exec!Arrived(delivered, m, p)
  BY <1>1 DEF Exec!Arrived, Exec!IntoPort
<1>4. \A e : Exec!Emitted(e)' <=> Exec!Emitted(e)
  BY <1>1 DEF Exec!Emitted, Exec!Ran
<1>5. \A m, p : Exec!Owed(m, p)' = Exec!Owed(m, p)
  BY <1>1 DEF Exec!Owed, Exec!IntoPort, Exec!Emitted, Exec!Ran
<1>6. \A m \in Nodes : Exec!Into(m)' = Exec!Into(m)
  BY <1>1 DEF Exec!Into
<1>7. \A m \in Nodes : Exec!Undeliverable(m) => Exec!Undeliverable(m)'
  BY <1>2, <1>6 DEF Exec!Undeliverable
<1>8. \A m \in Nodes : (Exec!HasInputs(m)' <=> Exec!HasInputs(m)) /\ (Exec!Runnable(m)' <=> Exec!Runnable(m))
  BY <1>1, <1>5 DEF Exec!HasInputs, Exec!Runnable
<1>9. Exec!Valid(edges)' <=> Exec!Valid(edges)
  BY <1>1 DEF Exec!Valid, Exec!PortFanin, Exec!RequiredInputs, Exec!HasCycle
<1>10. Exec!DeliveredFacts' <=> Exec!DeliveredFacts
  BY <1>1, <1>3, <1>4 DEF Exec!DeliveredFacts
<1>11. QED
  BY <1>2, <1>3, <1>6, <1>7, <1>8, <1>9, <1>10

\* Settling keeps what is known of the steps.
LEMMA SettleKeepsNodes ==
    ASSUME Wired, Exec!TypeOK, Exec!DeliveredFacts, Exec!FaninFacts, Exec!NodeFacts, Exec!LoopFacts,
           NEW n \in Nodes, Exec!SettleNode(n)
    PROVE  Exec!TypeOK' /\ Exec!FaninFacts' /\ Exec!NodeFacts'
<1>1. /\ edges' = edges /\ outputs' = outputs /\ inputs' = inputs /\ seen' = seen
      /\ executorPc = "settle" /\ executorPc' = executorPc /\ n \in todo /\ todo' = todo \ {n}
  BY DEF Exec!SettleNode
<1>2. /\ Exec!Ran' = Exec!Ran /\ Exec!SettledNodes \subseteq Exec!SettledNodes'
      /\ \A m \in Nodes : /\ Exec!Undeliverable(m) => Exec!Undeliverable(m)'
                          /\ Exec!HasInputs(m)' <=> Exec!HasInputs(m)
                          /\ Exec!Runnable(m)' <=> Exec!Runnable(m)
      /\ \A m, p : Exec!IntoPort(m, p)' = Exec!IntoPort(m, p)
  BY SettleStays
<1>3. n \in pending /\ n \notin Exec!SettledNodes
  BY <1>1 DEF Exec!LoopFacts, Exec!TypeOK
<1>4. \/ /\ Exec!Undeliverable(n) /\ ~Exec!HasInputs(n) /\ Exec!Into(n) # {}
         /\ pending' = pending \ {n} /\ dead' = dead \cup {n}
      \/ pending' = pending /\ dead' = dead
  BY DEF Exec!SettleNode
<1>5. \/ fanin' = fanin
      \/ Exec!Undeliverable(n) /\ fanin' = [fanin EXCEPT ![n] = Exec!Shrunk(n)]
  BY DEF Exec!SettleNode
<1>6. progressed' \in BOOLEAN
  BY DEF Exec!SettleNode, Exec!TypeOK
<1>7. Ins[n] # {} \/ Exec!Into(n) = {}
  BY DEF Exec!Into, Wired
<1>8. Exec!Shrunk(n) = [p \in Ins[n] |-> Exec!Shrunk(n)[p]] /\ \A p \in Ins[n] : Exec!Shrunk(n)[p] \in Nat
  <2>1. \A p \in Ins[n] : Len(inputs[n][p]) \in Nat
    BY InputsAreOwed
  <2>2. QED
    BY <2>1 DEF Exec!Shrunk, Exec!FaninFacts
<1>9. DOMAIN fanin' = Nodes /\ \A m \in Nodes : DOMAIN fanin'[m] = Ins[m]
  BY <1>5, <1>8 DEF Exec!FaninFacts, Exec!TypeOK
<1>10. Exec!FaninFacts'
  <2>1. ASSUME NEW m \in Nodes, NEW p \in Ins[m]
        PROVE  fanin'[m][p] \in Nat /\ (fanin'[m][p] = Exec!Cardinality(Exec!IntoPort(m, p)) \/ Exec!Undeliverable(m)')
    <3>1. CASE fanin'[m] = fanin[m]
      BY <1>2, <3>1 DEF Exec!FaninFacts
    <3>2. CASE m = n /\ Exec!Undeliverable(n) /\ fanin'[n] = Exec!Shrunk(n)
      BY <1>2, <1>8, <3>2
    <3>3. QED
      BY <1>5, <3>1, <3>2 DEF Exec!FaninFacts
  <2>2. QED
    BY <1>2, <1>9, <2>1 DEF Exec!FaninFacts
<1>11. Exec!TypeOK'
  BY <1>1, <1>2, <1>3, <1>4, <1>6, <1>9 DEF Exec!TypeOK, Exec!SettledNodes
<1>12. Exec!NodeFacts'
  <2>1. Nodes = pending' \cup Exec!SettledNodes'
    BY <1>1, <1>2, <1>3, <1>4 DEF Exec!NodeFacts, Exec!SettledNodes
  <2>2. \A m \in Exec!Ran : Exec!Undeliverable(m)' /\ Exec!Runnable(m)' /\ \A p \in Ins[m] : seen'[m][p] = inputs'[m][p]
    BY <1>1, <1>2 DEF Exec!NodeFacts, Exec!TypeOK
  <2>3. \A m \in dead' : Exec!Undeliverable(m)' /\ Ins[m] # {} /\ ~Exec!HasInputs(m)'
    BY <1>2, <1>4, <1>7 DEF Exec!NodeFacts, Exec!TypeOK
  <2>4. QED
    BY <1>2, <2>1, <2>2, <2>3 DEF Exec!NodeFacts
<1>13. QED
  BY <1>10, <1>11, <1>12

\* Settling keeps count of what it has been over.
LEMMA SettleKeepsCount ==
    ASSUME Exec!TypeOK, Exec!FaninFacts, Exec!LoopFacts, NEW n \in Nodes, Exec!SettleNode(n)
    PROVE  Exec!LoopFacts'
<1>1. /\ executorPc = "settle" /\ executorPc' = executorPc /\ n \in todo /\ todo' = todo \ {n} /\ inputs' = inputs
      /\ pending' \subseteq pending /\ pending \ {n} \subseteq pending'
      /\ outputs' = outputs /\ edges' = edges
  BY DEF Exec!SettleNode
<1>2. Exec!Valid(edges)' /\ todo' \subseteq pending' /\ \A m \in pending' : Ins[m] # {}
  BY <1>1, SettleStays DEF Exec!LoopFacts
<1>3. CASE progressed'
  BY <1>1, <1>2, <1>3 DEF Exec!LoopFacts
<1>4. CASE ~progressed'
  <2>1. /\ ~progressed /\ pending' = pending /\ dead' = dead
        /\ \A m \in Nodes : fanin'[m] = fanin[m]
        /\ ~Exec!Undeliverable(n) \/ ((Exec!HasInputs(n) \/ Exec!Into(n) = {}) /\ Exec!Shrunk(n) = fanin[n])
    BY <1>4, SettleMarks
  <2>2. \A m \in Nodes : /\ Exec!Undeliverable(m)' <=> Exec!Undeliverable(m)
                         /\ Exec!HasInputs(m)' <=> Exec!HasInputs(m)
                         /\ Exec!Into(m)' = Exec!Into(m)
    BY <1>1, <2>1 DEF Exec!Undeliverable, Exec!Into, Exec!SettledNodes, Exec!Ran, Exec!HasInputs
  <2>3. \A m \in Nodes : (Exec!Ready(m)' <=> Exec!Ready(m)) /\ Exec!Shrunk(m)' = Exec!Shrunk(m)
    BY <1>1, <2>1 DEF Exec!Ready, Exec!HasInputs, Exec!Shrunk
  <2>4. pending \subseteq Nodes
    BY DEF Exec!TypeOK
  <2>5. \A m \in pending' : ~Exec!Ready(m)'
    BY <1>1, <2>1, <2>3, <2>4 DEF Exec!LoopFacts
  <2>6. \A m \in pending' \ todo' :
          ~Exec!Undeliverable(m)' \/ ((Exec!HasInputs(m)' \/ Exec!Into(m)' = {}) /\ Exec!Shrunk(m)' = fanin'[m])
    BY <1>1, <2>1, <2>2, <2>3, <2>4 DEF Exec!LoopFacts
  <2>7. QED
    BY <1>1, <1>2, <2>5, <2>6 DEF Exec!LoopFacts
<1>5. QED
  BY <1>3, <1>4

--------------------------------------------------------------------------------
(* The theorem. *)

\* Nothing is emitted before the run.
LEMMA ExecStart ==
    ASSUME Exec!PortsAssumption, Exec!WiringAssumption, Exec!Init
    PROVE  Exec!ExecInv
<1>1. edges \in Definitions /\ executorPc = "validate" /\ todo = {} /\ progressed = FALSE
      /\ pending = Nodes /\ dead = {} /\ DOMAIN outputs = {} /\ DOMAIN delivered = {}
      /\ inputs = Exec!NoInputs
      /\ fanin = [n \in Nodes |-> [p \in Ins[n] |-> Exec!Cardinality(Exec!IntoPort(n, p))]]
  BY DEF Exec!Init
<1>2. Exec!TypeOK
  BY <1>1 DEF Exec!TypeOK, Exec!Ran, Exec!SettledNodes, Exec!NoInputs
<1>3. Wired
  BY <1>2, WiredIs
<1>4. \A n, p : Exec!Cardinality(Exec!IntoPort(n, p)) \in Nat
  BY <1>3, PortEdges
<1>5. ASSUME NEW n \in Nodes, NEW p \in Ins[n] PROVE inputs[n][p] = Exec!Arrived(delivered, n, p)
  <2> DEFINE here == {i \in Exec!IntoPort(n, p) : Exec!Key(edges[i]) \in DOMAIN delivered}
  <2>1. here = {}
    BY <1>1
  <2>2. Exec!Cardinality(here) = 0
    BY <2>1, Exec!FS_EmptySet
  <2>3. Exec!Arrived(delivered, n, p) = [k \in 1 .. Exec!Cardinality(here) |-> delivered[Exec!Key(edges[Exec!Nth(here, k)])]]
    BY Zenon DEF Exec!Arrived
  <2> HIDE DEF here
  <2>4. Exec!Arrived(delivered, n, p) = << >>
    BY <2>2, <2>3
  <2>5. QED
    BY <1>1, <2>4 DEF Exec!NoInputs
<1>6. Exec!DeliveredFacts
  BY <1>1, <1>5 DEF Exec!DeliveredFacts, Exec!Emitted, Exec!Ran
<1>7. Exec!FaninFacts
  BY <1>1, <1>4 DEF Exec!FaninFacts
<1>8. Exec!NodeFacts
  BY <1>1 DEF Exec!NodeFacts, Exec!SettledNodes, Exec!Ran
<1>9. Exec!LoopFacts /\ Exec!OutcomeFixed /\ Exec!StallIsReal
  BY <1>1 DEF Exec!LoopFacts, Exec!OutcomeFixed, Exec!StallIsReal
<1>10. QED
  BY <1>2, <1>6, <1>7, <1>8, <1>9 DEF Exec!ExecInv

\* Every step keeps the invariant.
LEMMA ExecStep ==
    ASSUME Exec!PortsAssumption, Exec!WiringAssumption, Exec!ExecInv, [Exec!Next]_(Exec!vars)
    PROVE  Exec!ExecInv'
<1>1. Exec!TypeOK /\ Exec!DeliveredFacts /\ Exec!FaninFacts /\ Exec!NodeFacts /\ Exec!LoopFacts
  BY DEF Exec!ExecInv
<1>2. Wired
  BY <1>1, WiredIs
<1>4. ASSUME LoopStep PROVE Exec!ExecInv'
  BY <1>1, <1>2, <1>4, DataStays, LoopsKeepNodes, LoopsKeepCount, LoopsEnd DEF Exec!ExecInv
<1>5. ASSUME NEW n \in Nodes, Exec!RunNode(n) PROVE Exec!ExecInv'
  BY <1>1, <1>2, <1>5, RunDelivers, RunKeepsNodes, RunKeepsRest DEF Exec!ExecInv
<1>6. ASSUME NEW n \in Nodes, Exec!SettleNode(n) PROVE Exec!ExecInv'
  <2>1. Exec!DeliveredFacts' /\ Exec!TypeOK' /\ Exec!FaninFacts' /\ Exec!NodeFacts' /\ Exec!LoopFacts'
    BY <1>1, <1>2, <1>6, SettleStays, SettleKeepsNodes, SettleKeepsCount
  <2>2. executorPc' = "settle"
    BY <1>6 DEF Exec!SettleNode
  <2>3. QED
    BY <2>1, <2>2 DEF Exec!ExecInv, Exec!OutcomeFixed, Exec!StallIsReal
<1>7. QED
  BY <1>4, <1>5, <1>6 DEF Exec!Next, Exec!ExecuteStep, Exec!Returned, LoopStep

\* What the runs check follows.
LEMMA ExecGives ==
    ASSUME Exec!WiringAssumption, Exec!ExecInv
    PROVE  Exec!TypeOK /\ Exec!CompleteInputs /\ Exec!OutcomeFixed /\ Exec!StallIsReal
<1>1. Exec!TypeOK /\ Exec!DeliveredFacts /\ Exec!NodeFacts /\ Exec!OutcomeFixed /\ Exec!StallIsReal
  BY DEF Exec!ExecInv
<1>2. Wired
  BY <1>1, WiredIs
<1>3. InputsOwed
  BY <1>1, <1>2, AllOwed
<1>4. Exec!CompleteInputs
  BY <1>1, <1>3 DEF Exec!CompleteInputs, Exec!NodeFacts, Exec!TypeOK, InputsOwed, Exec!Undeliverable
<1>5. QED
  BY <1>1, <1>4

--------------------------------------------------------------------------------
\* The services share no state: a step of one leaves the others' invariants alone,
\* and each invariant is preserved by its own service's steps.
LEMMA PageStays == [MCNext]_MCVars => page' = page
BY DEF MCNext, MCVars, InValues, InResources, InExecutor, InEvaluation

\* A step on the page of the value cache is one of the value cache.
LEMMA ValuesMove ==
    ASSUME page = "values", [MCNext]_MCVars
    PROVE  [Values!Next]_(Values!vars)
<1>1. CASE MCNext
  BY <1>1 DEF MCNext, InValues, InResources, InExecutor, InEvaluation
<1>2. CASE UNCHANGED MCVars
  BY <1>2 DEF MCVars, valuesVars, Values!vars
<1>3. QED
  BY <1>1, <1>2

\* A step on the page of the resource cache is one of the resource cache.
LEMMA ResourcesMove ==
    ASSUME page = "resources", [MCNext]_MCVars
    PROVE  [Resources!Next]_(Resources!vars)
<1>1. CASE MCNext
  BY <1>1 DEF MCNext, InValues, InResources, InExecutor, InEvaluation
<1>2. CASE UNCHANGED MCVars
  BY <1>2 DEF MCVars, resourcesVars, Resources!vars
<1>3. QED
  BY <1>1, <1>2

\* A step on the page of the sessions is one of the sessions.
LEMMA SessionsMove ==
    ASSUME page = "sessions", [MCNext]_MCVars
    PROVE  [Sessions!Next]_(Sessions!vars)
<1>1. CASE MCNext
  BY <1>1 DEF MCNext, InValues, InResources, InExecutor, InEvaluation
<1>2. CASE UNCHANGED MCVars
  BY <1>2 DEF MCVars, sessionsVars, Sessions!vars
<1>3. QED
  BY <1>1, <1>2

\* A new row is numbered after all others, so no two accounts are equally old.
LEMMA RowsGrow ==
    ASSUME People!AccountsAssumption, People!TypeOK, NEW u \in Ids, u \notin People!Rows,
           \A v \in Ids : born[v] <= People!Cardinality(People!Rows),
           born' = [born EXCEPT ![u] = 1 + People!Cardinality(People!Rows)]
    PROVE  /\ born' \in [Ids -> Nat] /\ People!Rows' = People!Rows \cup {u}
           /\ \A v \in Ids : born'[v] <= People!Cardinality(People!Rows')
           /\ \A v, w \in Ids : born'[v] = born'[w] /\ born'[v] > 0 => v = w
           /\ \A v \in Ids : born[v] > 0 => born'[v] = born[v]
<1>1. People!IsFiniteSet(People!Rows) /\ People!Cardinality(People!Rows) \in Nat
  BY People!FS_Subset, People!FS_CardinalityType DEF People!AccountsAssumption, People!Rows
<1>2. born' \in [Ids -> Nat] /\ born'[u] = 1 + People!Cardinality(People!Rows)
      /\ \A v \in Ids \ {u} : born'[v] = born[v]
  BY <1>1 DEF People!TypeOK
<1>3. People!Rows' = People!Rows \cup {u}
  <2>1. 1 + People!Cardinality(People!Rows) > 0
    BY <1>1
  <2>2. \A v \in Ids : v \in People!Rows' <=> v \in People!Rows \cup {u}
    BY <1>2, <2>1 DEF People!Rows
  <2>3. People!Rows \subseteq Ids /\ People!Rows' \subseteq Ids
    BY DEF People!Rows
  <2>4. QED
    BY <2>2, <2>3
<1>4. People!Cardinality(People!Rows') = People!Cardinality(People!Rows) + 1
  BY <1>1, <1>3, People!FS_AddElement
<1>5. \A v \in Ids : born[v] \in Nat
  BY DEF People!TypeOK
<1>6. \A v \in Ids : born'[v] <= People!Cardinality(People!Rows')
  BY <1>1, <1>2, <1>4, <1>5
<1>7. \A v, w \in Ids : born'[v] = born'[w] /\ born'[v] > 0 => v = w
  BY <1>1, <1>2, <1>5 DEF People!TypeOK
<1>8. \A v \in Ids : born[v] > 0 => born'[v] = born[v]
  BY <1>2 DEF People!Rows
<1>9. QED
  BY <1>2, <1>3, <1>6, <1>7, <1>8

\* The oldest account is one of them: as many different ages as rows, none
\* above their number, include 1.
LEMMA EarliestIsARow ==
    ASSUME People!AccountsAssumption, People!TypeOK, People!Rows # {}, \A u \in Ids : born[u] <= People!Cardinality(People!Rows)
    PROVE  People!Earliest(People!Rows) \in People!Rows
<1> DEFINE n == People!Cardinality(People!Rows)
           age == [u \in People!Rows |-> born[u]]
<1>1. People!IsFiniteSet(People!Rows) /\ n \in Nat
  BY People!FS_Subset, People!FS_CardinalityType DEF People!AccountsAssumption, People!Rows
<1>2. \A u \in People!Rows : born[u] \in 1..n
  BY <1>1 DEF People!TypeOK, People!Rows
<1>3. n # 0
  BY <1>1, People!FS_EmptySet
<1>4. People!IsFiniteSet(1..n) /\ People!Cardinality(1..n) = n
  BY <1>1, <1>3, People!FS_Interval
<1>5. age \in People!Injection(People!Rows, 1..n)
  BY <1>2 DEF People!Injection, People!IsInjective, People!TypeOK, People!Rows
<1>6. age \in People!Surjection(People!Rows, 1..n)
  BY <1>4, <1>5, People!FS_Injection
<1>7. PICK u \in People!Rows : age[u] = 1
  <2>1. 1 \in 1..n
    BY <1>1, <1>3
  <2> HIDE DEF n, age
  <2>2. QED
    BY <1>6, <2>1 DEF People!Surjection
<1>8. \A v \in People!Rows : born[u] <= born[v]
  BY <1>2, <1>7
<1>9. QED
  BY <1>8 DEF People!Earliest

\* More than one active administrator: one beside any account.
LEMMA AnotherAdmin ==
    ASSUME People!AccountsAssumption, NEW u, People!Cardinality(People!ActiveAdmins) > 1
    PROVE  \E v \in People!ActiveAdmins : v # u
<1>1. People!IsFiniteSet(People!ActiveAdmins) /\ People!Cardinality(People!ActiveAdmins) \in Nat
  BY People!FS_Subset, People!FS_CardinalityType DEF People!AccountsAssumption, People!ActiveAdmins, People!Admins, People!Rows
<1>2. CASE People!ActiveAdmins \subseteq {u}
  <2>1. People!Cardinality(People!ActiveAdmins) <= People!Cardinality({u}) /\ People!Cardinality({u}) = 1
    BY <1>2, People!FS_Subset, People!FS_Singleton
  <2>2. QED
    BY <1>1, <2>1
<1>3. QED
  BY <1>2
\* The steps of a request that write no row.
LEMMA RequestMoves ==
    ASSUME People!AccountsInv, NEW r \in AccountRequests, NEW q \in People!RequestType, peopleReq' = [peopleReq EXCEPT ![r] = q],
           UNCHANGED <<born, role, peopleActive, peopleUp, starts>>, made' \in 0 .. AccountCalls,
           People!RegistrationHolds(q), People!UpdateHolds(q), peopleUp \/ q.phase = "idle",
           q.phase \in {"admitted", "loaded", "allowed"} => r \in AdminClients,
           q.phase \in {"loaded", "allowed"} => born[q.target] > 0
    PROVE  People!AccountsInv'
<1>1. /\ peopleReq' \in [AccountRequests -> People!RequestType] /\ peopleReq'[r] = q
      /\ \A s \in AccountRequests \ {r} : peopleReq'[s] = peopleReq[s]
  BY DEF People!AccountsInv, People!TypeOK
<1>2. People!TypeOK'
  BY <1>1 DEF People!AccountsInv, People!TypeOK
<1>3. People!Rows' = People!Rows /\ People!ActiveAdmins' = People!ActiveAdmins
  BY DEF People!Rows, People!ActiveAdmins, People!Admins
<1>4. ASSUME NEW s \in AccountRequests
      PROVE  /\ People!RegistrationHolds(peopleReq[s])' /\ People!UpdateHolds(peopleReq[s])'
             /\ peopleReq'[s].phase \in {"admitted", "loaded", "allowed"} => s \in AdminClients
  <2>1. CASE s = r
    BY <1>1, <1>3, <2>1 DEF People!RegistrationHolds, People!UpdateHolds, People!Endangers, People!Demotes, People!Deactivates
  <2>2. CASE s # r
    BY <1>1, <1>3, <2>2 DEF People!AccountsInv, People!RegistrationHolds, People!UpdateHolds, People!Endangers, People!Demotes, People!Deactivates
  <2>3. QED
    BY <2>1, <2>2
<1>5. People!ServerHolds'
  BY <1>1, <1>3 DEF People!AccountsInv, People!ServerHolds
<1>6. QED
  BY <1>2, <1>3, <1>4, <1>5 DEF People!AccountsInv

\* A request that has ended has nothing to keep.
LEMMA NoRequestHolds ==
    /\ People!NoRequest \in People!RequestType /\ People!NoRequest.phase = "idle"
    /\ People!RegistrationHolds(People!NoRequest) /\ People!UpdateHolds(People!NoRequest)
BY DEF People!NoRequest, People!RequestType, People!NoPayload, People!Payloads, People!Roles, People!RegistrationHolds, People!UpdateHolds

\* Registering an account keeps the invariant.
LEMMA RegisterKeeps ==
    ASSUME People!AccountsAssumption, People!AccountsInv, NEW r \in AccountRequests, People!RegisterStep(r)
    PROVE  People!AccountsInv'
<1>1. /\ peopleReq \in [AccountRequests -> People!RequestType] /\ peopleReq[r] \in People!RequestType
      /\ People!RegistrationHolds(peopleReq[r]) /\ made \in 0 .. AccountCalls
      /\ peopleReq[r].phase = "idle" \/ peopleUp
  BY DEF People!AccountsInv, People!TypeOK, People!ServerHolds
<1>2. ASSUME NEW u \in Ids, People!RegisterChecks(r, u) PROVE People!AccountsInv'
  <2> DEFINE q == [People!NoRequest EXCEPT !.phase = "emailFree", !.target = u]
  <2>1. q \in People!RequestType /\ q.phase = "emailFree" /\ q.target = u
    BY DEF People!NoRequest, People!RequestType, People!NoPayload, People!Payloads, People!Roles
  <2>2. /\ peopleReq' = [peopleReq EXCEPT ![r] = q] /\ UNCHANGED <<born, role, peopleActive, peopleUp, starts>> /\ peopleUp
        /\ made < AccountCalls /\ made' = made + 1
    BY <1>2 DEF People!RegisterChecks, People!Begins
  <2>3. made' \in 0 .. AccountCalls
    BY <1>1, <2>2, PeopleBounds DEF People!AccountsAssumption
  <2> HIDE DEF q
  <2>4. People!RegistrationHolds(q) /\ People!UpdateHolds(q)
    BY <2>1 DEF People!RegistrationHolds, People!UpdateHolds
  <2>5. QED
    BY <2>1, <2>2, <2>3, <2>4, RequestMoves
<1>3. CASE People!RegisterDecides(r)
  <2> DEFINE q == [peopleReq[r] EXCEPT !.phase = "decided", !.role = IF People!Rows = {} THEN "admin" ELSE "user"]
  <2>1. /\ q \in People!RequestType /\ q.phase = "decided" /\ q.target = peopleReq[r].target
        /\ q.role = "user" => People!Rows # {}
    BY <1>1 DEF People!RequestType, People!Roles
  <2>2. /\ peopleReq' = [peopleReq EXCEPT ![r] = q] /\ UNCHANGED <<born, role, peopleActive, made, peopleUp, starts>>
        /\ peopleReq[r].phase = "emailFree"
    BY <1>1, <1>3 DEF People!RegisterDecides
  <2> HIDE DEF q
  <2>3. People!RegistrationHolds(q) /\ People!UpdateHolds(q)
    BY <1>1, <2>1, <2>2 DEF People!RegistrationHolds, People!UpdateHolds
  <2>4. QED
    BY <1>1, <2>1, <2>2, <2>3, RequestMoves
<1>4. CASE People!RegisterCommits(r)
  <2> DEFINE u == peopleReq[r].target
  <2>1. /\ u \in Ids /\ peopleReq[r].phase = "decided" /\ peopleUp /\ peopleReq[r].role \in People!Roles
        /\ peopleReq[r].role = "user" => People!Rows # {}
    BY <1>1, <1>4 DEF People!RegisterCommits, People!RegistrationHolds, People!RequestType, People!Roles
  <2>2. peopleReq' = [peopleReq EXCEPT ![r] = People!NoRequest] /\ UNCHANGED <<made, peopleUp, starts>>
    BY <1>4 DEF People!RegisterCommits, People!Ends
  <2>3. CASE UNCHANGED <<born, role, peopleActive>>
    BY <1>1, <2>2, <2>3, NoRequestHolds, RequestMoves
  <2>4. CASE /\ u \notin People!Rows /\ born' = [born EXCEPT ![u] = 1 + People!Cardinality(People!Rows)]
             /\ role' = [role EXCEPT ![u] = peopleReq[r].role] /\ peopleActive' = [peopleActive EXCEPT ![u] = TRUE]
    <3>1. /\ born' \in [Ids -> Nat] /\ People!Rows' = People!Rows \cup {u}
          /\ \A v \in Ids : born'[v] <= People!Cardinality(People!Rows')
          /\ \A v, w \in Ids : born'[v] = born'[w] /\ born'[v] > 0 => v = w
          /\ \A v \in Ids : born[v] > 0 => born'[v] = born[v]
      BY <2>1, <2>4, RowsGrow DEF People!AccountsInv
    <3>2. /\ role' \in [Ids -> People!Roles] /\ role'[u] = peopleReq[r].role
          /\ peopleActive' \in [Ids -> BOOLEAN] /\ peopleActive'[u]
          /\ \A v \in Ids \ {u} : role'[v] = role[v] /\ peopleActive'[v] = peopleActive[v]
      BY <2>1, <2>4 DEF People!AccountsInv, People!TypeOK
    <3>3. /\ peopleReq' \in [AccountRequests -> People!RequestType] /\ peopleReq'[r].phase = "idle"
          /\ \A s \in AccountRequests \ {r} : peopleReq'[s] = peopleReq[s]
      BY <1>1, <2>2, NoRequestHolds
    <3>4. \A v \in Ids : born[v] > 0 => v # u /\ role'[v] = role[v] /\ peopleActive'[v] = peopleActive[v]
      BY <2>4, <3>2 DEF People!Rows
    <3>5. People!ActiveAdmins \subseteq People!ActiveAdmins' /\ People!Rows \subseteq People!Rows' /\ u \in People!Rows'
      BY <3>1, <3>4 DEF People!ActiveAdmins, People!Admins, People!Rows
    <3>6. People!TypeOK'
      <4>1. ASSUME NEW s \in AccountRequests, peopleReq'[s].phase \in {"loaded", "allowed"}
            PROVE  born'[peopleReq'[s].target] > 0
        <5>1. s # r /\ peopleReq'[s] = peopleReq[s]
          BY <3>3, <4>1
        <5>2. peopleReq[s].target \in Ids /\ born[peopleReq[s].target] > 0
          BY <4>1, <5>1 DEF People!AccountsInv, People!TypeOK, People!UpdateHolds
        <5>3. QED
          BY <3>1, <5>1, <5>2
      <4>2. QED
        BY <2>2, <3>1, <3>2, <3>3, <4>1 DEF People!AccountsInv, People!TypeOK
    <3>7. ASSUME NEW s \in AccountRequests
          PROVE  /\ People!RegistrationHolds(peopleReq[s])' /\ People!UpdateHolds(peopleReq[s])'
                 /\ peopleReq'[s].phase \in {"admitted", "loaded", "allowed"} => s \in AdminClients
      <4>1. CASE s = r
        BY <3>3, <4>1 DEF People!RegistrationHolds, People!UpdateHolds
      <4>2. CASE s # r
        <5>1. peopleReq'[s] = peopleReq[s] /\ People!RegistrationHolds(peopleReq[s]) /\ People!UpdateHolds(peopleReq[s])
          BY <3>3, <4>2 DEF People!AccountsInv
        <5>2. People!RegistrationHolds(peopleReq[s])'
          BY <3>5, <5>1 DEF People!RegistrationHolds
        <5>3. peopleReq[s].phase \in {"loaded", "allowed"} => born[peopleReq[s].target] > 0
          BY DEF People!AccountsInv, People!TypeOK
        <5>4. People!UpdateHolds(peopleReq[s])'
          BY <3>1, <3>4, <3>5, <5>1, <5>3 DEF People!UpdateHolds, People!Endangers, People!Demotes, People!Deactivates
        <5>5. QED
          BY <5>1, <5>2, <5>4 DEF People!AccountsInv
      <4>3. QED
        BY <4>1, <4>2
    <3>8. People!ServerHolds'
      <4>1. starts # 0 /\ (People!Rows # {} => People!ActiveAdmins # {})
        BY <2>1 DEF People!AccountsInv, People!ServerHolds, People!TypeOK
      <4>2. CASE peopleReq[r].role = "user"
        BY <2>1, <2>2, <3>5, <4>1, <4>2 DEF People!ServerHolds
      <4>3. CASE peopleReq[r].role = "admin"
        <5>1. u \in People!ActiveAdmins'
          BY <3>2, <3>5, <4>3 DEF People!ActiveAdmins, People!Admins
        <5>2. QED
          BY <2>1, <2>2, <4>1, <5>1 DEF People!ServerHolds
      <4>4. QED
        BY <2>1, <4>2, <4>3 DEF People!Roles
    <3>9. QED
      BY <3>1, <3>6, <3>7, <3>8 DEF People!AccountsInv
  <2>5. QED
    BY <1>4, <2>3, <2>4 DEF People!RegisterCommits
<1>5. QED
  BY <1>2, <1>3, <1>4 DEF People!RegisterStep

\* Writing a change: what it was decided on is what the row holds.
LEMMA CommitKeeps ==
    ASSUME People!SerialAdmins, People!AccountsInv, NEW r \in AccountRequests, People!Commit(r)
    PROVE  People!AccountsInv'
<1> DEFINE q == peopleReq[r]
           u == q.target
<1>1. /\ q \in People!RequestType /\ q.phase = "allowed" /\ u \in Ids /\ born[u] > 0 /\ peopleUp
      /\ q.role = role[u] /\ q.active = peopleActive[u] /\ r \in AdminClients
      /\ q.payload \in People!Payloads
      /\ People!Endangers(q) => \E v \in People!ActiveAdmins : v # u
  BY DEF People!Commit, People!AccountsInv, People!TypeOK, People!UpdateHolds, People!ServerHolds, People!RequestType
<1>2. /\ peopleReq' = [peopleReq EXCEPT ![r] = People!NoRequest] /\ UNCHANGED <<born, made, peopleUp, starts>>
      /\ role' = IF q.payload.role \in {"keep", q.role} THEN role
                 ELSE [role EXCEPT ![u] = q.payload.role]
      /\ peopleActive' = IF q.payload.active = "keep" \/ (q.payload.active = "yes") = q.active THEN peopleActive
                   ELSE [peopleActive EXCEPT ![u] = (q.payload.active = "yes")]
  BY DEF People!Commit, People!Ends
<1> HIDE DEF q
<1>3. /\ peopleReq' \in [AccountRequests -> People!RequestType] /\ peopleReq'[r].phase = "idle"
      /\ \A s \in AccountRequests \ {r} : peopleReq'[s] = peopleReq[s]
  BY <1>2, NoRequestHolds DEF People!AccountsInv, People!TypeOK
<1>4. /\ role' \in [Ids -> People!Roles] /\ \A v \in Ids \ {u} : role'[v] = role[v]
      /\ role'[u] = IF q.payload.role = "keep" THEN role[u] ELSE q.payload.role
  BY <1>1, <1>2 DEF People!AccountsInv, People!TypeOK, People!Payloads, People!Roles
<1>5. /\ peopleActive' \in [Ids -> BOOLEAN] /\ \A v \in Ids \ {u} : peopleActive'[v] = peopleActive[v]
      /\ q.payload.active = "keep" => peopleActive'[u] = peopleActive[u]
      /\ q.payload.active = "yes" => peopleActive'[u]
  <2>1. CASE q.payload.active = "keep" \/ (q.payload.active = "yes") = q.active
    BY <1>1, <1>2, <2>1 DEF People!AccountsInv, People!TypeOK
  <2>2. CASE ~(q.payload.active = "keep" \/ (q.payload.active = "yes") = q.active)
    BY <1>1, <1>2, <2>2 DEF People!AccountsInv, People!TypeOK
  <2>3. QED
    BY <2>1, <2>2
<1>6. People!Rows' = People!Rows /\ People!TypeOK'
  BY <1>2, <1>3, <1>4, <1>5 DEF People!AccountsInv, People!TypeOK, People!Rows
<1>7. \A s \in AccountRequests \ {r} : peopleReq[s].phase \notin {"admitted", "loaded", "allowed"}
  BY <1>1 DEF People!AccountsInv, People!SerialAdmins
<1>8. ASSUME NEW s \in AccountRequests
      PROVE  /\ People!RegistrationHolds(peopleReq[s])' /\ People!UpdateHolds(peopleReq[s])'
             /\ peopleReq'[s].phase \in {"admitted", "loaded", "allowed"} => s \in AdminClients
  <2>1. CASE s = r
    BY <1>3, <2>1 DEF People!RegistrationHolds, People!UpdateHolds
  <2>2. CASE s # r
    BY <1>3, <1>6, <1>7, <2>2 DEF People!AccountsInv, People!RegistrationHolds, People!UpdateHolds
  <2>3. QED
    BY <2>1, <2>2
<1>9. People!ActiveAdmins' # {}
  <2>1. People!ActiveAdmins # {} /\ u \in People!Rows
    BY <1>1 DEF People!AccountsInv, People!ServerHolds, People!Rows, People!TypeOK
  <2>2. \A v \in People!ActiveAdmins : v # u => v \in People!ActiveAdmins'
    BY <1>4, <1>5, <1>6 DEF People!ActiveAdmins, People!Admins, People!Rows
  <2>3. CASE \E v \in People!ActiveAdmins : v # u
    BY <2>2, <2>3
  <2>4. CASE People!ActiveAdmins = {u}
    <3>1. role[u] = "admin" /\ peopleActive[u] /\ ~People!Endangers(q)
      BY <1>1, <2>4 DEF People!ActiveAdmins, People!Admins
    <3>2. q.payload.role # "user" /\ q.payload.active # "no"
      BY <1>1, <3>1 DEF People!Endangers, People!Demotes, People!Deactivates
    <3>3. role'[u] = "admin" /\ peopleActive'[u]
      BY <1>1, <1>4, <1>5, <3>1, <3>2 DEF People!Payloads, People!Roles
    <3>4. QED
      BY <1>6, <2>1, <3>3 DEF People!ActiveAdmins, People!Admins
  <2>5. QED
    BY <2>1, <2>3, <2>4
<1>10. People!ServerHolds'
  BY <1>1, <1>2, <1>9 DEF People!AccountsInv, People!ServerHolds
<1>11. QED
  BY <1>2, <1>6, <1>8, <1>10 DEF People!AccountsInv

\* So does an admin update, when updates do not overlap: its guard still counts
\* the administrators it read.
LEMMA UpdateKeeps ==
    ASSUME People!AccountsAssumption, People!SerialAdmins, People!AccountsInv, NEW r \in AccountRequests, People!UpdateStep(r)
    PROVE  People!AccountsInv'
<1>1. /\ peopleReq \in [AccountRequests -> People!RequestType] /\ peopleReq[r] \in People!RequestType
      /\ People!RegistrationHolds(peopleReq[r]) /\ People!UpdateHolds(peopleReq[r]) /\ made \in 0 .. AccountCalls
      /\ peopleReq[r].phase = "idle" \/ peopleUp
      /\ peopleReq[r].phase \in {"admitted", "loaded", "allowed"} => r \in AdminClients
  BY DEF People!AccountsInv, People!TypeOK, People!ServerHolds
<1>2. ASSUME NEW a \in Ids, NEW u \in Ids, NEW p \in People!Payloads, People!Admit(r, a, u, p)
      PROVE  People!AccountsInv'
  <2> DEFINE q == [phase |-> "admitted", caller |-> a, target |-> u, payload |-> p,
                   role |-> role[a], active |-> peopleActive[a]]
  <2>1. q \in People!RequestType
    BY DEF People!RequestType, People!AccountsInv, People!TypeOK
  <2>2. /\ peopleReq' = [peopleReq EXCEPT ![r] = q] /\ UNCHANGED <<born, role, peopleActive, peopleUp, starts>> /\ peopleUp
        /\ made < AccountCalls /\ made' = made + 1 /\ r \in AdminClients /\ born[a] > 0
    BY <1>2 DEF People!Admit, People!Begins, People!ActiveAdmins, People!Admins, People!Rows
  <2>3. made' \in 0 .. AccountCalls
    BY <1>1, <2>2, PeopleBounds DEF People!AccountsAssumption
  <2>4. People!RegistrationHolds(q) /\ People!UpdateHolds(q)
    BY <2>2 DEF People!RegistrationHolds, People!UpdateHolds
  <2>5. q.phase = "admitted"
    OBVIOUS
  <2> HIDE DEF q
  <2>6. QED
    BY <2>1, <2>2, <2>3, <2>4, <2>5, RequestMoves
<1>3. CASE People!Load(r)
  <2>1. /\ peopleReq[r].phase = "admitted" /\ UNCHANGED <<born, role, peopleActive, made, peopleUp, starts>>
        /\ peopleReq[r].target \in Ids /\ peopleReq[r].caller \in Ids /\ peopleUp /\ r \in AdminClients
        /\ peopleReq[r].role = role[peopleReq[r].caller] /\ peopleReq[r].active = peopleActive[peopleReq[r].caller]
    BY <1>1, <1>3 DEF People!Load, People!UpdateHolds
  <2> DEFINE q == People!Loaded(peopleReq[r])
  <2>2. /\ q \in People!RequestType /\ q.phase = "loaded" /\ q.target = peopleReq[r].target
        /\ q.role = role[q.target] /\ q.active = peopleActive[q.target]
    BY <1>1, <2>1 DEF People!Loaded, People!RequestType, People!AccountsInv, People!TypeOK
  <2> HIDE DEF q
  <2>3. CASE peopleReq[r].target \in People!Rows /\ peopleReq' = [peopleReq EXCEPT ![r] = q]
    <3>1. People!RegistrationHolds(q) /\ People!UpdateHolds(q) /\ born[q.target] > 0
      BY <2>1, <2>2, <2>3 DEF People!RegistrationHolds, People!UpdateHolds, People!Rows
    <3>2. QED
      BY <1>1, <2>1, <2>2, <2>3, <3>1, RequestMoves
  <2>4. CASE peopleReq' = [peopleReq EXCEPT ![r] = People!NoRequest]
    BY <1>1, <2>1, <2>4, NoRequestHolds, RequestMoves
  <2>5. QED
    BY <1>1, <1>3, <2>3, <2>4 DEF People!Load, People!Ends, q
<1>4. CASE People!Guard(r)
  <2>1. /\ peopleReq[r].phase = "loaded" /\ UNCHANGED <<born, role, peopleActive, made, peopleUp, starts>>
        /\ peopleReq[r].target \in Ids /\ peopleUp /\ r \in AdminClients /\ born[peopleReq[r].target] > 0
        /\ peopleReq[r].role = role[peopleReq[r].target] /\ peopleReq[r].active = peopleActive[peopleReq[r].target]
    BY <1>1, <1>4 DEF People!Guard, People!UpdateHolds, People!AccountsInv, People!TypeOK
  <2> DEFINE q == [peopleReq[r] EXCEPT !.phase = "allowed"]
  <2>2. /\ q \in People!RequestType /\ q.phase = "allowed" /\ q.target = peopleReq[r].target
        /\ q.role = peopleReq[r].role /\ q.active = peopleReq[r].active /\ q.payload = peopleReq[r].payload
    BY <1>1 DEF People!RequestType
  <2> HIDE DEF q
  <2>3. CASE peopleReq' = [peopleReq EXCEPT ![r] = People!NoRequest]
    BY <1>1, <2>1, <2>3, NoRequestHolds, RequestMoves
  <2>4. CASE ~(People!Endangers(peopleReq[r]) /\ People!Cardinality(People!ActiveAdmins) <= 1) /\ peopleReq' = [peopleReq EXCEPT ![r] = q]
    <3>1. People!Endangers(q) = People!Endangers(peopleReq[r])
      BY <2>2 DEF People!Endangers, People!Demotes, People!Deactivates
    <3>2. People!Cardinality(People!ActiveAdmins) \in Nat
      BY PeopleBounds, People!FS_Subset, People!FS_CardinalityType
         DEF People!AccountsAssumption, People!ActiveAdmins, People!Admins, People!Rows
    <3>3. People!Endangers(q) => \E v \in People!ActiveAdmins : v # q.target
      BY <2>4, <3>1, <3>2, PeopleBounds, AnotherAdmin
    <3>4. People!RegistrationHolds(q) /\ People!UpdateHolds(q)
      BY <2>1, <2>2, <3>3 DEF People!RegistrationHolds, People!UpdateHolds
    <3>5. QED
      BY <1>1, <2>1, <2>2, <2>4, <3>4, RequestMoves
  <2>5. QED
    BY <1>1, <1>4, <2>3, <2>4 DEF People!Guard, People!Ends, q
<1>5. QED
  BY <1>2, <1>3, <1>4, CommitKeeps DEF People!UpdateStep

\* Every step of the accounts keeps the invariant.
LEMMA AccountsStep ==
    ASSUME People!AccountsAssumption, People!SerialAdmins, People!AccountsInv, [People!Next]_(People!vars)
    PROVE  People!AccountsInv'
<1>1. CASE \E r \in AccountRequests : People!RegisterStep(r) \/ People!UpdateStep(r)
  BY <1>1, RegisterKeeps, UpdateKeeps
<1>2. CASE People!Start
  <2>1. /\ ~peopleUp /\ peopleUp' /\ starts' = starts + 1 /\ starts' > 0 /\ starts' \in 0 .. AccountStarts
        /\ UNCHANGED <<born, peopleActive, peopleReq, made>>
        /\ role' = IF People!Admins = {} /\ People!Rows # {} THEN [role EXCEPT ![People!Earliest(People!Rows)] = "admin"] ELSE role
    BY <1>2, PeopleBounds DEF People!Start, People!AccountsAssumption, People!AccountsInv, People!TypeOK
  <2>2. People!Rows' = People!Rows /\ \A r \in AccountRequests : peopleReq'[r].phase = "idle"
    BY <2>1 DEF People!Rows, People!AccountsInv, People!ServerHolds
  <2>3. People!TypeOK'
    <3>1. role' \in [Ids -> People!Roles]
      BY <2>1 DEF People!AccountsInv, People!TypeOK, People!Roles
    <3>2. QED
      BY <2>1, <3>1 DEF People!AccountsInv, People!TypeOK
  <2>4. ASSUME People!Rows # {} PROVE People!ActiveAdmins' # {}
    <3>1. CASE starts > 0
      <4>1. People!ActiveAdmins # {} /\ People!Admins # {}
        BY <2>4, <3>1 DEF People!AccountsInv, People!ServerHolds, People!ActiveAdmins
      <4>2. role' = role
        BY <2>1, <4>1
      <4>3. QED
        BY <2>1, <4>1, <4>2 DEF People!ActiveAdmins, People!Admins, People!Rows
    <3>2. CASE starts = 0
      <4>1. People!Admins = {} /\ \A u \in Ids : peopleActive[u]
        BY <3>2 DEF People!AccountsInv, People!ServerHolds, People!Admins, People!Rows
      <4>2. People!Earliest(People!Rows) \in People!Rows
        BY <2>4, PeopleBounds, EarliestIsARow DEF People!AccountsInv
      <4>3. role'[People!Earliest(People!Rows)] = "admin"
        BY <2>1, <2>4, <4>1, <4>2 DEF People!AccountsInv, People!TypeOK, People!Rows
      <4>4. People!Earliest(People!Rows) \in People!ActiveAdmins'
        BY <2>1, <2>2, <4>1, <4>2, <4>3 DEF People!ActiveAdmins, People!Admins, People!Rows
      <4>5. QED
        BY <4>4
    <3>3. QED
      BY <3>1, <3>2 DEF People!AccountsInv, People!TypeOK
  <2>5. People!ServerHolds'
    BY <2>1, <2>2, <2>4 DEF People!ServerHolds
  <2>6. \A r \in AccountRequests : People!RegistrationHolds(peopleReq[r])' /\ People!UpdateHolds(peopleReq[r])'
    BY <2>2 DEF People!RegistrationHolds, People!UpdateHolds
  <2>7. QED
    BY <2>1, <2>2, <2>3, <2>5, <2>6 DEF People!AccountsInv
<1>3. CASE People!Stop
  <2>1. /\ peopleUp' = FALSE /\ UNCHANGED <<born, role, peopleActive, made, starts>> /\ peopleUp
        /\ peopleReq' \in [AccountRequests -> People!RequestType] /\ \A r \in AccountRequests : peopleReq'[r].phase = "idle"
    BY <1>3, NoRequestHolds DEF People!Stop, People!AccountsInv, People!TypeOK
  <2>2. People!Rows' = People!Rows /\ People!ActiveAdmins' = People!ActiveAdmins
    BY <2>1 DEF People!Rows, People!ActiveAdmins, People!Admins
  <2>3. People!TypeOK'
    BY <2>1 DEF People!AccountsInv, People!TypeOK
  <2>4. People!ServerHolds'
    BY <2>1, <2>2 DEF People!AccountsInv, People!ServerHolds
  <2>5. QED
    BY <2>1, <2>2, <2>3, <2>4 DEF People!AccountsInv, People!RegistrationHolds, People!UpdateHolds
<1>4. CASE UNCHANGED People!vars
  <2>1. People!Rows' = People!Rows /\ People!ActiveAdmins' = People!ActiveAdmins
    BY <1>4 DEF People!vars, People!Rows, People!ActiveAdmins, People!Admins
  <2>2. \A r \in AccountRequests : People!RegistrationHolds(peopleReq[r])' /\ People!UpdateHolds(peopleReq[r])'
    BY <1>4, <2>1 DEF People!vars, People!AccountsInv, People!RegistrationHolds, People!UpdateHolds, People!Endangers, People!Demotes, People!Deactivates
  <2>3. QED
    BY <1>4, <2>1, <2>2 DEF People!vars, People!AccountsInv, People!TypeOK, People!ServerHolds
<1>5. QED
  BY <1>1, <1>2, <1>3, <1>4 DEF People!Next

\* It holds before the first start, whoever has registered.
LEMMA AccountsStart ==
    ASSUME People!AccountsAssumption, People!Init
    PROVE  People!AccountsInv
<1>1. /\ \A u \in Ids : role[u] = "user" /\ peopleActive[u]
      /\ \A r \in AccountRequests : peopleReq[r] = People!NoRequest
      /\ role \in [Ids -> People!Roles] /\ peopleActive \in [Ids -> BOOLEAN] /\ peopleReq \in [AccountRequests -> People!RequestType]
      /\ peopleUp = FALSE /\ starts = 0 /\ made = 0
  BY NoRequestHolds DEF People!Init, People!Roles
<1>2. People!IsFiniteSet(Ids) /\ People!Cardinality(Ids) \in Nat /\ 0 \in 0 .. AccountStarts /\ 0 \in 0 .. AccountCalls
  BY PeopleBounds, People!FS_CardinalityType DEF People!AccountsAssumption
<1>3. /\ born \in [Ids -> Nat] /\ \A u \in Ids : born[u] <= People!Cardinality(People!Rows)
      /\ \A u, v \in Ids : born[u] = born[v] /\ born[u] > 0 => u = v
  <2>1. CASE born = [u \in Ids |-> 0]
    <3>1. People!Rows = {}
      BY <2>1 DEF People!Rows
    <3>2. QED
      BY <2>1, <3>1, People!FS_EmptySet
  <2>2. CASE /\ born \in [Ids -> 1 .. People!Cardinality(Ids)]
             /\ \A u, v \in Ids : born[u] = born[v] => u = v
    <3>1. People!Rows = Ids
      BY <1>2, <2>2 DEF People!Rows
    <3>2. QED
      BY <1>2, <2>2, <3>1
  <2>3. QED
    BY <2>1, <2>2 DEF People!Init
<1>4. People!TypeOK
  BY <1>1, <1>2, <1>3, NoRequestHolds DEF People!TypeOK
<1>5. QED
  BY <1>1, <1>3, <1>4, NoRequestHolds DEF People!AccountsInv, People!ServerHolds

\* It holds always while administrators are changed one request at a time.
LEMMA AccountsInvariant ==
    ASSUME People!AccountsAssumption, People!SerialAdmins
    PROVE  People!Spec => []People!AccountsInv
BY AccountsStart, AccountsStep, PTL DEF People!Spec

\* What the invariant is for.
LEMMA AdminIsLeft ==
    ASSUME People!AccountsInv
    PROVE  People!TypeOK /\ People!AdminRemains
BY DEF People!AccountsInv, People!AdminRemains, People!ServerHolds, People!TypeOK

\* For any accounts, requests and restarts: while administrators are changed
\* one request at a time, a server that is up and has an account has an active
\* administrator.
THEOREM AnAdminRemains ==
    ASSUME People!AccountsAssumption, People!SerialAdmins
    PROVE  People!Spec => [](People!TypeOK /\ People!AdminRemains)
<1>1. People!AccountsInv => People!TypeOK /\ People!AdminRemains
  BY AdminIsLeft
<1>2. QED
  BY <1>1, AccountsInvariant, PTL

\* A step on the page of the accounts is one of the accounts.
LEMMA PeopleMove ==
    ASSUME page = "accounts", [MCNext]_MCVars
    PROVE  [People!Next]_(People!vars)
<1>1. CASE MCNext
  BY <1>1 DEF MCNext, InValues, InResources, InExecutor, InEvaluation
<1>2. CASE UNCHANGED MCVars
  BY <1>2 DEF MCVars, peopleVars, People!vars
<1>3. QED
  BY <1>1, <1>2

\* The two caches of the process hold what CachesHold says, for any set of keys
\* and any bounds on the versions and the clock.
THEOREM CachesAlwaysHold == MCSpec => []CachesHold
<1> DEFINE Inv == /\ page = "values" => Values!ValuesInv
                  /\ page = "resources" => Resources!CacheInv
<1>1. MCInit => Inv
  BY ValuesPolicy, ValuesBounds, ResourcesBounds, Values!ValuesStart, Resources!CacheStart DEF MCInit
<1>2. Inv /\ [MCNext]_MCVars => Inv'
  <2> SUFFICES ASSUME Inv, [MCNext]_MCVars PROVE Inv'
    OBVIOUS
  <2>1. page' = page
    BY PageStays
  <2>2. ASSUME page = "values" PROVE Values!ValuesInv'
    BY <2>2, ValuesMove, ValuesPolicy, ValuesBounds, Values!ValuesStep
  <2>3. ASSUME page = "resources" PROVE Resources!CacheInv'
    BY <2>3, ResourcesMove, ResourcesBounds, Resources!CacheStep
  <2>4. QED
    BY <2>1, <2>2, <2>3
<1>3. Inv => CachesHold
  BY ValuesBounds, ResourcesBounds, Values!ValuesHold, Resources!CacheHolds DEF CachesHold
<1> HIDE DEF Inv
<1>4. QED
  BY <1>1, <1>2, <1>3, PTL DEF MCSpec

\* Two tabs stay signed in under the times MCBackend gives: they are answered
\* within half of the grace period.
THEOREM TwoTabsHold ==
    ASSUME \A t, u, v \in Ids : t = u \/ u = v \/ t = v
    PROVE  MCSpec => []SessionsHold
<1> DEFINE Inv == page = "sessions" => Sessions!SessionInv /\ Sessions!ConvergeInv
<1>1. Sessions!TwoTabsInTime
  BY DEF Sessions!TwoTabsInTime
<1>2. MCInit => Inv
  BY <1>1, SessionsTiming, Sessions!SessionStart, Sessions!ConvergeStart DEF MCInit
<1>3. Inv /\ [MCNext]_MCVars => Inv'
  <2> SUFFICES ASSUME Inv, [MCNext]_MCVars, page = "sessions"
               PROVE  Sessions!SessionInv' /\ Sessions!ConvergeInv'
    BY PageStays
  <2>1. QED
    BY <1>1, SessionsMove, SessionsTiming, Sessions!SessionStep, Sessions!ConvergeStep
<1>4. Inv => SessionsHold
  BY <1>1, SessionsTiming, Sessions!Converged DEF SessionsHold
<1> HIDE DEF Inv
<1>5. QED
  BY <1>2, <1>3, <1>4, PTL DEF MCSpec

\* No step brings a revoked session back, however many tabs there are.
THEOREM RevocationStays == MCSpec => RevocationIsFinal
<1> DEFINE Inv == page = "sessions" => Sessions!SessionInv
<1>1. MCInit => Inv
  BY SessionsTiming, Sessions!SessionStart DEF MCInit
<1>2. Inv /\ [MCNext]_MCVars => Inv'
  BY PageStays, SessionsMove, SessionsTiming, Sessions!SessionStep
<1>3. Inv /\ [MCNext]_MCVars => [page = "sessions" => Sessions!RevocationIsFinalStep]_MCVars
  BY SessionsMove, Sessions!RevokedStays
<1> HIDE DEF Inv
<1>4. QED
  BY <1>1, <1>2, <1>3, PTL DEF MCSpec, RevocationIsFinal

\* While administrators are changed one request at a time, one remains.
THEOREM SerialAdminsRemain ==
    ASSUME \A r, s \in AdminClients : r = s
    PROVE  MCSpec => []AdminRemains
<1> DEFINE Inv == page = "accounts" => People!AccountsInv
<1>1. People!SerialAdmins
  BY DEF People!SerialAdmins
<1>2. MCInit => Inv
  BY PeopleBounds, AccountsStart DEF MCInit
<1>3. Inv /\ [MCNext]_MCVars => Inv'
  BY <1>1, PageStays, PeopleMove, PeopleBounds, AccountsStep
<1>4. Inv => AdminRemains
  BY AdminIsLeft DEF AdminRemains
<1> HIDE DEF Inv
<1>5. QED
  BY <1>2, <1>3, <1>4, PTL DEF MCSpec

\* A step on the page of the ingestion is one of the ingestion.
LEMMA IngestionMoves ==
    ASSUME page = "ingestion", [MCNext]_MCVars
    PROVE  [Next]_vars
<1>1. CASE MCNext
  BY <1>1 DEF MCNext, InValues, InResources, InExecutor, InEvaluation
<1>2. CASE UNCHANGED MCVars
  BY <1>2 DEF MCVars
<1>3. QED
  BY <1>1, <1>2

\* The documents of the backend are whole while requests retry none that is
\* being worked on and their vectors are kept in its own database.
THEOREM DocumentsStayWhole ==
    ASSUME RestedRetries, Backend = "pgvector"
    PROVE  MCSpec => []DocumentsAreWhole
<1> DEFINE Inv == page = "ingestion" => WholeInv
<1>1. MCInit => Inv
  BY WholeStart DEF MCInit
<1>2. Inv /\ [MCNext]_MCVars => Inv'
  BY PageStays, IngestionMoves, WholeStep
<1>3. Inv => DocumentsAreWhole
  BY HoldersWorkAlone DEF WholeInv, DocumentsAreWhole
<1> HIDE DEF Inv
<1>4. QED
  BY <1>1, <1>2, <1>3, PTL DEF MCSpec

\* A step on the page of the evaluation runs is one of the runs.
LEMMA EvaluationMoves ==
    ASSUME page = "evalruns", [MCNext]_MCVars
    PROVE  [Evaluation!Next]_(Evaluation!vars)
<1>1. CASE MCNext
  BY <1>1 DEF MCNext, InValues, InResources, InExecutor, InEvaluation
<1>2. CASE UNCHANGED MCVars
  BY <1>2 DEF MCVars, evaluationVars, Evaluation!vars
<1>3. QED
  BY <1>1, <1>2

\* The evaluation runs of the backend say what is so while one is over before
\* the next begins, for any queries and any number of calls.
THEOREM EvaluationsStayTrue ==
    ASSUME ~EvalOverlap
    PROVE  MCSpec => []EvaluationsAreTrue
<1> DEFINE Inv == page = "evalruns" => Evaluation!RunsInv /\ Evaluation!SerialInv
<1>1. MCInit => Inv
  BY EvaluationRuns, Evaluation!RunsStart, Evaluation!SerialStart DEF MCInit
<1>2. Inv /\ [MCNext]_MCVars => Inv'
  BY PageStays, EvaluationMoves, EvaluationRuns, Evaluation!RunsStep, Evaluation!SerialStep
<1>3. Inv => EvaluationsAreTrue
  BY EvaluationRuns, Evaluation!WholeRuns, Evaluation!TrueRuns DEF EvaluationsAreTrue
<1> HIDE DEF Inv
<1>4. QED
  BY <1>1, <1>2, <1>3, PTL DEF MCSpec

\* A step on the page of the executor is one of the executor.
LEMMA ExecutorMoves ==
    ASSUME page = "executor", [MCNext]_MCVars
    PROVE  [Exec!Next]_(Exec!vars)
<1>1. CASE MCNext
  BY <1>1 DEF MCNext, InValues, InResources, InExecutor, InEvaluation
<1>2. CASE UNCHANGED MCVars
  BY <1>2 DEF MCVars, executorVars, Exec!vars
<1>3. QED
  BY <1>1, <1>2

\* A pipeline's run is what the graph and the emissions say, for any finite set
\* of steps, any ports, any outputs they may emit and any way to wire them.
THEOREM ExecutionStaysWhole == MCSpec => []ExecutionIsWhole
<1> DEFINE Inv == page = "executor" => Exec!ExecInv
<1>1. MCInit => Inv
  BY ExecutorPorts, ExecutorWiring, ExecStart DEF MCInit
<1>2. Inv /\ [MCNext]_MCVars => Inv'
  BY PageStays, ExecutorMoves, ExecutorPorts, ExecutorWiring, ExecStep
<1>3. Inv => ExecutionIsWhole
  BY ExecutorWiring, ExecGives DEF ExecutionIsWhole
<1> HIDE DEF Inv
<1>4. QED
  BY <1>1, <1>2, <1>3, PTL DEF MCSpec
================================================================================
