---------------------------- MODULE EvalDatasetPage ----------------------------
(***************************************************************************)
(* One dataset's page (DatasetDetail): the documents of the selected       *)
(* corpus, searched after a pause in typing and paged, and the review of   *)
(* the dataset's queries, paged, edited and deleted (useDatasetDetail,     *)
(* useDatasetQueries and their tables; app/evals/dataset_queries.py).      *)
(***************************************************************************)
EXTENDS ApiQueries, ListOrder

CONSTANTS
    Corpora,       \* the collections the dataset was ingested into, in order
    Pages,         \* [corpus, search] -> pages of documents that match
    Searches,      \* texts of the search box
    Queries,       \* the dataset's queries, in order
    PageSize,      \* DATASET_QUERIES_PAGE_SIZE
    MaxFlights     \* bound: curation requests in flight

VARIABLES
    arrived,       \* the list of collections has been read
    selectedId, search, debounced, timer, docOffset,
    documents,     \* query: the page of documents
    rows,          \* server: query -> text, "gone" once deleted
    queries,       \* query: the page of queries
    qOffset,
    editing,       \* None or [id, text]
    asking,        \* the query a confirmation asks about, or None
    flights        \* curation requests: [op, id, text, stage]

vars == <<arrived, selectedId, search, debounced, timer, docOffset, documents,
          rows, queries, qOffset, editing, asking, flights>>
docs == <<arrived, selectedId, search, debounced, timer, docOffset, documents>>
review == <<rows, queries, qOffset, editing, asking, flights>>

NoText == ""           \* nothing to search for, a text that was cleared

Init ==
    /\ arrived = FALSE /\ selectedId = None /\ search = NoText /\ debounced = NoText /\ timer = TRUE
    /\ docOffset = 0 /\ documents = NewQuery
    /\ rows = [q \in {Queries[i] : i \in DOMAIN Queries} |-> "old"]
    /\ queries = Ask(NewQuery) /\ qOffset = 0 /\ editing = None /\ asking = None /\ flights = {}

--------------------------------------------------------------------------------
(***************************************************************************)
(* The documents.  The query is asked again when one of its dependencies   *)
(* changes; until it lands, the pager shows the totals of the page before. *)
(***************************************************************************)
deps == <<selectedId, debounced, docOffset>>
Refetch == documents' = IF deps' = deps THEN documents ELSE Ask(documents)

\* The first collection is selected as the list arrives; later reads keep the choice.
CollectionsArrive ==
    /\ ~arrived /\ arrived' = TRUE /\ Corpora # << >>
    /\ selectedId' = IF selectedId = None THEN Corpora[1] ELSE selectedId
    /\ UNCHANGED <<search, debounced, timer, docOffset, review>> /\ Refetch

selectCollection(c) ==
    /\ arrived /\ selectedId' = c /\ docOffset' = 0
    /\ UNCHANGED <<arrived, search, debounced, timer, review>> /\ Refetch

setSearch(s) ==
    /\ selectedId # None /\ s # search /\ search' = s /\ timer' = TRUE
    /\ UNCHANGED <<arrived, selectedId, debounced, docOffset, documents, review>>

Debounce ==
    /\ timer /\ timer' = FALSE /\ debounced' = search /\ docOffset' = 0
    /\ UNCHANGED <<arrived, selectedId, search, review>> /\ Refetch

total == IF documents.data = None THEN 0 ELSE Pages[documents.data[1], documents.data[2]]

\* The pager is there when there is more than one page.
TurnPage(d) ==
    /\ total > 1
    /\ \/ d = "next" /\ docOffset + 1 < total /\ docOffset' = docOffset + 1
       \/ d = "back" /\ docOffset > 0 /\ docOffset' = docOffset - 1
    /\ UNCHANGED <<arrived, selectedId, search, debounced, timer, review>> /\ Refetch

DocumentsAnswer ==
    /\ documents.loading
    /\ \/ Unserved(documents) /\ documents' = Serve(documents, deps)
       \/ documents.served /\ documents' = Land(documents)
       \/ documents' = Fault(documents)
    /\ UNCHANGED <<arrived, selectedId, search, debounced, timer, docOffset, review>>

--------------------------------------------------------------------------------
(***************************************************************************)
(* The review of queries.                                                  *)
(***************************************************************************)
Kept == Without(Queries, {q \in DOMAIN rows : rows[q] = "gone"})
Least(m, n) == IF m < n THEN m ELSE n

list_queries ==
    [total |-> Len(Kept),
     items |-> [i \in 1..Least(PageSize, IF Len(Kept) > qOffset THEN Len(Kept) - qOffset ELSE 0) |->
                    [id |-> Kept[qOffset + i], text |-> rows[Kept[qOffset + i]]]]]

QueriesAnswer ==
    /\ queries.loading
    /\ \/ Unserved(queries) /\ queries' = Serve(queries, list_queries)
       \/ queries.served /\ queries' = Land(queries)
       \/ queries' = Fault(queries)
    /\ UNCHANGED <<rows, qOffset, editing, asking, flights, docs>>

\* An error takes the place of the list.
Items == IF queries.data = None \/ queries.error THEN {}
         ELSE {queries.data.items[i] : i \in DOMAIN queries.data.items}

TurnQueries(d) ==
    /\ queries.data # None /\ queries.data.total > PageSize
    /\ \/ d = "next" /\ qOffset + PageSize < queries.data.total /\ qOffset' = qOffset + PageSize
       \/ d = "back" /\ qOffset > 0 /\ qOffset' = qOffset - PageSize
    /\ queries' = Ask(queries)
    /\ UNCHANGED <<rows, editing, asking, flights, docs>>

Edit ==
    /\ \/ \E item \in Items : editing' = item
       \/ editing # None /\ (\E item \in Items : item.id = editing.id)
            /\ \/ editing' = None
               \/ \E t \in {"new", NoText} : editing' = [editing EXCEPT !.text = t]
    /\ UNCHANGED <<rows, queries, qOffset, asking, flights, docs>>

Send(op, id, text) ==
    /\ Cardinality(flights) < MaxFlights
    /\ flights' = flights \cup {[op |-> op, id |-> id, text |-> text, checked |-> FALSE]}

\* An empty text is not saved.
save ==
    /\ editing # None /\ editing.text # NoText /\ (\E item \in Items : item.id = editing.id)
    /\ Send("save", editing.id, editing.text)
    /\ UNCHANGED <<rows, queries, qOffset, editing, asking, docs>>

AskDelete ==
    /\ \/ asking = None /\ \E item \in Items : asking' = item.id
       \/ asking # None /\ asking' = None
    /\ UNCHANGED <<rows, queries, qOffset, editing, flights, docs>>

removeQuery ==
    /\ asking # None /\ Send("delete", asking, NoText)
    /\ UNCHANGED <<rows, queries, qOffset, editing, asking, docs>>

\* Either answer of a deletion closes the confirmation that is open by then.
update_query_text(f) ==
    /\ f.op = "save" /\ flights' = flights \ {f}
    /\ IF rows[f.id] = "gone" THEN UNCHANGED <<rows, queries, editing>>
       ELSE rows' = [rows EXCEPT ![f.id] = f.text] /\ queries' = Ask(queries) /\ editing' = None
    /\ UNCHANGED <<qOffset, asking, docs>>

\* delete_query counts the queries first, and deletes in a later statement.
count_queries(f) ==
    /\ f.op = "delete" /\ ~f.checked
    /\ IF rows[f.id] # "gone" /\ Len(Kept) > 1
       THEN flights' = (flights \ {f}) \cup {[f EXCEPT !.checked = TRUE]} /\ UNCHANGED asking
       ELSE flights' = flights \ {f} /\ asking' = None
    /\ UNCHANGED <<rows, queries, qOffset, editing, docs>>

delete_query(f) ==
    /\ f.op = "delete" /\ f.checked /\ flights' = flights \ {f}
    /\ rows' = [rows EXCEPT ![f.id] = "gone"] /\ queries' = Ask(queries) /\ asking' = None
    /\ UNCHANGED <<qOffset, editing, docs>>

\* The two halves share no state.
NextDocuments ==
    \/ CollectionsArrive \/ Debounce \/ DocumentsAnswer
    \/ \E i \in DOMAIN Corpora : selectCollection(Corpora[i])
    \/ \E s \in Searches : setSearch(s)
    \/ \E d \in {"next", "back"} : TurnPage(d)

NextReview ==
    \/ QueriesAnswer \/ Edit \/ save \/ AskDelete \/ removeQuery
    \/ \E d \in {"next", "back"} : TurnQueries(d)
    \/ \E f \in flights : update_query_text(f) \/ count_queries(f) \/ delete_query(f)

Next == NextDocuments \/ NextReview

Spec == Init /\ [][Next]_vars

--------------------------------------------------------------------------------
\* The values the variables take; editing, confirming and requests are of the
\* dataset's own queries, and an empty text is never on its way.
TypeOK ==
    /\ arrived \in BOOLEAN /\ timer \in BOOLEAN /\ docOffset \in Nat /\ qOffset \in Nat
    /\ selectedId \in {None} \cup {Corpora[i] : i \in DOMAIN Corpora}
    /\ editing # None => editing.id \in DOMAIN rows
    /\ asking \in {None} \cup DOMAIN rows
    /\ \A f \in flights : f.id \in DOMAIN rows /\ (f.op = "save" => f.text # NoText)

\* When nothing is loading and no typing is pending, the documents shown are of
\* the selected corpus, for the text in the search box, at the page the pager
\* names: no dependency of the read is missed, whatever changed while another
\* read was on its way.
PageMatchesControls ==
    Settled(documents) /\ ~timer /\ selectedId # None
        => documents.data = <<selectedId, search, docOffset>>

\* Once its reads settle, the review lists the queries as they are stored: every
\* edit that was accepted, and no query that was deleted.
ReviewIsStored == Settled(queries) => queries.data = list_queries

\* Why: whatever changes a dependency asks again, and until a corpus is chosen
\* nothing can be searched or paged.
DocumentsInv ==
    /\ arrived \in BOOLEAN /\ timer \in BOOLEAN /\ docOffset \in Nat /\ IsQuery(documents)
    /\ selectedId \in {None} \cup {Corpora[i] : i \in DOMAIN Corpora}
    /\ arrived => selectedId # None
    /\ selectedId = None => search = NoText /\ debounced = NoText /\ docOffset = 0 /\ documents = NewQuery
    /\ ~timer => debounced = search
    /\ documents.served => documents.answer = deps
    /\ Settled(documents) /\ selectedId # None => documents.data = deps

\* Why: whatever changes the list or its page asks again; what is edited or
\* asked about is one of the queries the page has read.
IsItem(x) == x = [id |-> x.id, text |-> x.text] /\ x.id \in DOMAIN rows
Offered(list) == \A i \in DOMAIN list.items : IsItem(list.items[i])
IsRequest(f) ==
    /\ f \in [op : {"save", "delete"}, id : DOMAIN rows, text : {f.text}, checked : BOOLEAN]
    /\ f.op = "save" => f.text # NoText
ReviewInv ==
    /\ DOMAIN rows = {Queries[i] : i \in DOMAIN Queries}
    /\ IsQuery(queries) /\ qOffset \in Nat /\ \E k \in 0..qOffset : qOffset = k * PageSize
    /\ queries.served => queries.answer = list_queries
    /\ Settled(queries) => queries.data = list_queries
    /\ queries.data # None => Offered(queries.data)
    /\ editing # None => IsItem(editing)
    /\ asking \in {None} \cup DOMAIN rows
    /\ \A f \in flights : IsRequest(f)
===============================================================================
