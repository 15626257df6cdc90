-------------------------- MODULE CollectionOverview --------------------------
(***************************************************************************)
(* The overview of a collection over the pipelines it is bound to.         *)
(*                                                                         *)
(* First the bindings as the server keeps them (CollectionToolService and  *)
(* the routes over it).  A request reads rows, decides, and commits what   *)
(* changed; the rule that one tool is primary is the service's alone, the  *)
(* schema holds only that no pipeline is bound twice.                      *)
(*                                                                         *)
(* Then the copy of the collection its pages share (CollectionProvider)    *)
(* and the two cards that change its bindings (PipelinesCard, ToolsPanel). *)
(* Applying a choice of pipelines is a sequence of requests, each of which *)
(* may fail and leave those before it done; what a card then shows comes   *)
(* from one more request, its last.                                        *)
(***************************************************************************)
EXTENDS Naturals, FiniteSetsExt, ApiQueries

CONSTANTS
    ToolPipelines, IngestPipelines,
    Starts,      \* the pipelines bound as tools at first, the first of each primary
    Cards,       \* who sends requests, one at a time each
    Overlap,     \* whether requests of different cards overlap
    MaxBindings  \* bound: bindings ever made

VARIABLES
    bindings,    \* id -> [pipeline, primary, enabled]; ids grow with the position
    ingest,      \* the ingest pipeline
    born,        \* the last id given
    calls        \* card -> its request, or None

server == <<bindings, ingest, born, calls>>

Min0(S) == IF S = {} THEN None ELSE Min(S)

InitServer ==
    /\ \E start \in Starts :
        bindings = [i \in DOMAIN start |-> [pipeline |-> start[i], primary |-> i = 1, enabled |-> TRUE]]
    /\ born = Cardinality(DOMAIN bindings) /\ ingest \in IngestPipelines
    /\ calls = [c \in Cards |-> None]

--------------------------------------------------------------------------------
(***************************************************************************)
(* What each request decides from the rows it reads: the rows it deletes,  *)
(* the flags it writes, the row it inserts.  None is a refusal.            *)
(***************************************************************************)
NoWrites == [deleted |-> {}, primary |-> [i \in {} |-> TRUE], enabled |-> [i \in {} |-> TRUE],
             added |-> None, ingest |-> None]

add_tool(p) ==
    IF \E i \in DOMAIN bindings : bindings[i].pipeline = p THEN None
    ELSE [NoWrites EXCEPT !.added =
            [pipeline |-> p, primary |-> DOMAIN bindings = {}, enabled |-> TRUE]]

remove_tool(id) ==
    IF id \notin DOMAIN bindings THEN None
    ELSE LET rest == DOMAIN bindings \ {id}
         IN [NoWrites EXCEPT !.deleted = {id},
                !.primary = [i \in IF bindings[id].primary /\ rest # {} THEN {Min(rest)} ELSE {} |-> TRUE]]

set_primary(id) ==
    IF id \notin DOMAIN bindings THEN None
    ELSE [NoWrites EXCEPT !.primary =
            [i \in {j \in DOMAIN bindings : bindings[j].primary # (j = id)} |-> i = id]]

set_enabled(id, v) ==
    IF id \notin DOMAIN bindings THEN None ELSE [NoWrites EXCEPT !.enabled = [i \in {id} |-> v]]

set_ingest_pipeline(p) == [NoWrites EXCEPT !.ingest = p]

Decided(r) ==
    CASE r.op = "add"     -> add_tool(r.pipeline)
      [] r.op = "remove"  -> remove_tool(r.id)
      [] r.op = "primary" -> set_primary(r.id)
      [] r.op = "enabled" -> set_enabled(r.id, r.value)
      [] r.op = "ingest"  -> set_ingest_pipeline(r.pipeline)
      [] r.op = "fetch"   -> NoWrites

--------------------------------------------------------------------------------
(***************************************************************************)
(* The commit.  A row to update that is gone, and a second binding of a    *)
(* pipeline, fail the request; a row to delete that is gone does not.      *)
(***************************************************************************)
Committed(w) ==
    LET kept  == DOMAIN bindings \ w.deleted
        row(i) == [bindings[i] EXCEPT
                     !.primary = IF i \in DOMAIN w.primary THEN w.primary[i] ELSE @,
                     !.enabled = IF i \in DOMAIN w.enabled THEN w.enabled[i] ELSE @]
    IN IF w.added = None THEN [i \in kept |-> row(i)]
       ELSE [i \in kept \cup {born + 1} |-> IF i = born + 1 THEN w.added ELSE row(i)]

Conflict(w) ==
    \/ ~(DOMAIN w.primary \cup DOMAIN w.enabled \subseteq DOMAIN bindings)
    \/ w.added # None /\ \E i \in DOMAIN bindings : bindings[i].pipeline = w.added.pipeline

Read(c) ==
    /\ calls[c] # None /\ calls[c].phase = "sent"
    /\ LET w == Decided(calls[c])
       IN calls' = [calls EXCEPT ![c] = [@ EXCEPT !.writes = w,
                        !.phase = IF w = None THEN "refused" ELSE "read"]]
    /\ UNCHANGED <<bindings, ingest, born>>

Commit(c) ==
    /\ calls[c] # None /\ calls[c].phase = "read" /\ born < MaxBindings
    /\ LET w == calls[c].writes
           id == IF w.added = None THEN calls[c].id ELSE born + 1
       IN IF Conflict(w)
          THEN /\ calls' = [calls EXCEPT ![c] = [@ EXCEPT !.phase = "refused"]]
               /\ UNCHANGED <<bindings, ingest, born>>
          ELSE /\ bindings' = Committed(w)
               /\ ingest' = IF w.ingest = None THEN ingest ELSE w.ingest
               /\ born' = IF w.added = None THEN born ELSE born + 1
               /\ calls' = [calls EXCEPT ![c] = [@ EXCEPT !.phase = "done", !.id = id,
                                !.answer = [ingest |-> ingest', tools |-> bindings']]]

Request(op, p, id, v) ==
    [op |-> op, pipeline |-> p, id |-> id, value |-> v, phase |-> "sent", writes |-> None, answer |-> None]

--------------------------------------------------------------------------------
CONSTANTS
    DefaultIngest, DefaultTool,
    MaxActs        \* bound: what the user does

VARIABLES
    provided,      \* useApiQuery of the collection, by the provider
    updated,       \* the copy a card put over it, or None
    choice,        \* PipelinesCard's selects
    apply,         \* the change being applied, or None
    rows,          \* useApiQuery of the tools, by ToolsPanel
    pipelineToAdd,
    busy,          \* what ToolsPanel is doing: "idle", "acting", "adding", "fetching"
    failed,        \* card -> whether its last change is said to have failed
    acts           \* things done by the user

page == <<provided, updated, choice, apply, rows, pipelineToAdd, busy, failed, acts>>
vars == <<server, page>>

copy == [ingest |-> ingest, tools |-> bindings]

shown(data, over) == IF over = None THEN data ELSE over
collection == shown(provided.data, updated)

primaryTool(c) ==
    LET primaries == {i \in DOMAIN c.tools : c.tools[i].primary}
    IN IF primaries # {} THEN Min(primaries) ELSE Min0(DOMAIN c.tools)

\* The selects as the collection has them.
bound(c) ==
    [ingestion |-> c.ingest,
     retrieval |-> IF primaryTool(c) = None THEN DefaultTool ELSE c.tools[primaryTool(c)].pipeline]

Init ==
    /\ InitServer
    /\ provided = [NewQuery EXCEPT !.data = copy] /\ updated = None
    /\ choice = bound(copy) /\ apply = None
    /\ rows = Ask(NewQuery) /\ pipelineToAdd = None /\ busy = "idle"
    /\ failed = [c \in Cards |-> FALSE] /\ acts = 0

Acts == acts < MaxActs /\ acts' = acts + 1
Free(c) == calls[c] = None /\ (Overlap \/ \A d \in Cards : calls[d] = None)
Call(c, r) == calls' = [calls EXCEPT ![c] = r]
Answered(c) == calls[c] # None /\ calls[c].phase \in {"done", "refused"}
Over(c) == calls' = [calls EXCEPT ![c] = None]

\* A new copy of the collection: the selects go back to it, the tools are
\* listed again.
onCollectionUpdated(c) == updated' = c /\ choice' = bound(c) /\ rows' = Ask(rows)

--------------------------------------------------------------------------------
(***************************************************************************)
(* The provider's load, repeated when the session is refreshed.  The lists *)
(* of pipelines are new with it, so the selects go back to the collection. *)
(***************************************************************************)
NewToken ==
    /\ Acts /\ ~provided.loading /\ provided' = Ask(provided) /\ rows' = Ask(rows)
    /\ UNCHANGED <<server, updated, choice, apply, pipelineToAdd, busy, failed>>

ServeProvided ==
    /\ Unserved(provided) /\ provided' = Serve(provided, copy)
    /\ UNCHANGED <<server, updated, choice, apply, rows, pipelineToAdd, busy, failed, acts>>

ProvidedLands ==
    /\ provided.served /\ provided' = Land(provided)
    /\ choice' = bound(shown(provided.answer, updated))
    /\ rows' = IF updated = None THEN Ask(rows) ELSE rows
    /\ UNCHANGED <<server, updated, apply, pipelineToAdd, busy, failed, acts>>

ServeRows ==
    /\ Unserved(rows) /\ rows' = Serve(rows, bindings)
    /\ UNCHANGED <<server, provided, updated, choice, apply, pipelineToAdd, busy, failed, acts>>

RowsLand ==
    /\ \/ rows.served /\ rows' = Land(rows)
       \/ rows.loading /\ rows' = Fault(rows)
    /\ UNCHANGED <<server, provided, updated, choice, apply, pipelineToAdd, busy, failed, acts>>

--------------------------------------------------------------------------------
(***************************************************************************)
(* Applying: the stages of handleApply and applyPrimaryTool, over the      *)
(* collection as it was when Apply was pressed.                            *)
(***************************************************************************)
Stages == 1..5

ToolChanges(a) == a.want.retrieval # bound(a.from).retrieval
existing(a) == {i \in DOMAIN a.from.tools : a.from.tools[i].pipeline = a.want.retrieval}

\* Mutant: the tool chosen is bound, but not made primary.
NeverMadePrimary(a, n) ==
    CASE n = 1 -> a.want.ingestion # bound(a.from).ingestion
      [] n = 2 -> ToolChanges(a) /\ existing(a) = {}
      [] n = 3 -> FALSE
      [] n = 4 -> ToolChanges(a) /\ primaryTool(a.from) # None
      [] n = 5 -> TRUE

Needed(a, n) ==
    CASE n = 1 -> a.want.ingestion # bound(a.from).ingestion
      [] n = 2 -> ToolChanges(a) /\ existing(a) = {}
      [] n = 3 -> ToolChanges(a) /\ ~a.primary
      [] n = 4 -> ToolChanges(a) /\ primaryTool(a.from) # None
      [] n = 5 -> TRUE

StageCall(a, n) ==
    CASE n = 1 -> Request("ingest", a.want.ingestion, None, None)
      [] n = 2 -> Request("add", a.want.retrieval, None, None)
      [] n = 3 -> Request("primary", None, a.tool, None)
      [] n = 4 -> Request("remove", None, primaryTool(a.from), None)
      [] n = 5 -> Request("fetch", None, None, None)

Proceed(a, after) ==
    LET n == Min({m \in Stages : m > after /\ Needed(a, m)})
    IN apply' = [a EXCEPT !.stage = n] /\ Call("pipelines", StageCall(a, n))

dirty == choice # bound(collection)

select(k, p) ==
    /\ Acts /\ choice[k] # p /\ choice' = [choice EXCEPT ![k] = p]
    /\ UNCHANGED <<server, provided, updated, apply, rows, pipelineToAdd, busy, failed>>

handleApply ==
    /\ Acts /\ dirty /\ apply = None /\ Free("pipelines")
    /\ LET a == [from |-> collection, want |-> choice, stage |-> 0,
                 tool |-> Min0({i \in DOMAIN collection.tools :
                                    collection.tools[i].pipeline = choice.retrieval}),
                 primary |-> FALSE, base |-> copy]   \* base: history, what the server had
       IN Proceed(a, 0)
    /\ failed' = [failed EXCEPT !["pipelines"] = FALSE]
    /\ UNCHANGED <<bindings, ingest, born, provided, updated, choice, rows, pipelineToAdd, busy>>

\* A stage done leads to the next; what was created may be primary already.
ApplyStep ==
    /\ apply # None /\ Answered("pipelines") /\ calls["pipelines"].phase = "done" /\ apply.stage < 5
    /\ LET r == calls["pipelines"]
           a == IF apply.stage # 2 THEN apply
                ELSE [apply EXCEPT !.tool = r.id, !.primary = r.answer.tools[r.id].primary]
       IN Proceed(a, apply.stage)
    /\ UNCHANGED <<bindings, ingest, born, provided, updated, choice, rows, pipelineToAdd, busy, failed, acts>>

ApplyEnds ==
    /\ apply # None /\ Answered("pipelines") /\ calls["pipelines"].phase = "done" /\ apply.stage = 5
    /\ onCollectionUpdated(calls["pipelines"].answer)
    /\ apply' = None /\ Over("pipelines")
    /\ UNCHANGED <<bindings, ingest, born, provided, pipelineToAdd, busy, failed, acts>>

\* A refusal, or an answer lost, ends it where it is.
ApplyFails ==
    /\ apply # None /\ calls["pipelines"] # None /\ calls["pipelines"].phase # "read"
    /\ apply' = None /\ Over("pipelines") /\ failed' = [failed EXCEPT !["pipelines"] = TRUE]
    /\ UNCHANGED <<bindings, ingest, born, provided, updated, choice, rows, pipelineToAdd, busy, acts>>

--------------------------------------------------------------------------------
(***************************************************************************)
(* The tools panel: one change, then the collection read again.            *)
(***************************************************************************)
listed == IF rows.data = None THEN [i \in {} |-> None] ELSE rows.data

unboundPipelines == {p \in ToolPipelines : \A i \in DOMAIN listed : listed[i].pipeline # p}

ChooseToAdd(p) ==
    /\ Acts /\ p \in unboundPipelines /\ pipelineToAdd # p /\ pipelineToAdd' = p
    /\ UNCHANGED <<server, provided, updated, choice, apply, rows, busy, failed>>

mutate(r, doing) ==
    /\ Acts /\ busy = "idle" /\ Free("tools") /\ (Overlap \/ apply = None)
    /\ busy' = doing /\ Call("tools", r)
    /\ failed' = [failed EXCEPT !["tools"] = FALSE]
    /\ UNCHANGED <<bindings, ingest, born, provided, updated, choice, apply, rows, pipelineToAdd>>

handleAdd ==
    /\ pipelineToAdd # None /\ unboundPipelines # {}
    /\ mutate(Request("add", pipelineToAdd, None, None), "adding")

RowAction(id) ==
    /\ id \in DOMAIN listed
    /\ \/ ~listed[id].primary /\ mutate(Request("primary", None, id, None), "acting")
       \/ mutate(Request("enabled", None, id, ~listed[id].enabled), "acting")
       \/ ~listed[id].primary /\ mutate(Request("remove", None, id, None), "acting")

\* Whether it was an addition is remembered until its end, for the select.
MutateStep ==
    /\ busy \in {"acting", "adding"} /\ Answered("tools") /\ calls["tools"].phase = "done"
    /\ calls["tools"].op # "fetch" /\ Call("tools", Request("fetch", None, None, None))
    /\ UNCHANGED <<bindings, ingest, born, page>>

MutateEnds ==
    /\ busy # "idle" /\ calls["tools"] # None
    /\ \/ /\ calls["tools"].op = "fetch" /\ calls["tools"].phase = "done"
          /\ onCollectionUpdated(calls["tools"].answer) /\ UNCHANGED failed
       \/ /\ calls["tools"].phase # "read"
          /\ failed' = [failed EXCEPT !["tools"] = TRUE] /\ UNCHANGED <<updated, choice, rows>>
    /\ busy' = "idle" /\ pipelineToAdd' = IF busy = "adding" THEN None ELSE pipelineToAdd
    /\ Over("tools")
    /\ UNCHANGED <<bindings, ingest, born, provided, apply, acts>>

--------------------------------------------------------------------------------
Requests == \E c \in Cards : (Read(c) \/ Commit(c)) /\ UNCHANGED page

Next ==
    \/ Requests
    \/ NewToken \/ ServeProvided \/ ProvidedLands \/ ServeRows \/ RowsLand
    \/ \E p \in IngestPipelines : select("ingestion", p)
    \/ \E p \in ToolPipelines : select("retrieval", p) \/ ChooseToAdd(p)
    \/ handleApply \/ ApplyStep \/ ApplyEnds \/ ApplyFails
    \/ handleAdd \/ \E id \in 1..MaxBindings : RowAction(id)
    \/ MutateStep \/ MutateEnds

Spec == Init /\ [][Next]_vars

--------------------------------------------------------------------------------
(***************************************************************************)
(* Properties.                                                             *)
(***************************************************************************)
\* Types, and: no pipeline is bound twice, a card is at work as long as its
\* request is out.
TypeOK ==
    /\ DOMAIN bindings \subseteq 1..born /\ ingest \in IngestPipelines /\ born <= MaxBindings
    /\ \A i, j \in DOMAIN bindings : bindings[i].pipeline = bindings[j].pipeline => i = j
    /\ (apply # None <=> calls["pipelines"] # None) /\ (busy # "idle" <=> calls["tools"] # None)
    /\ choice.ingestion \in IngestPipelines /\ choice.retrieval \in ToolPipelines
    /\ pipelineToAdd \in ToolPipelines \cup {None} /\ acts \in 0..MaxActs
    /\ apply # None => apply.stage \in Stages

\* Applying a choice leaves the chosen pipeline as the primary tool, the tool
\* it replaces unbound, the others as they were, and the ingest pipeline
\* chosen: whether it was bound already or not, and with whatever tools there
\* were ("Switching the search pipeline replaces it"), provided the page was up
\* to date when it was pressed.
SwitchReplacesThePrimaryStep ==
    ApplyEnds /\ apply.base = apply.from =>
      LET wanted == apply.want.retrieval
          before == {apply.from.tools[i].pipeline : i \in DOMAIN apply.from.tools}
          old    == IF ToolChanges(apply) /\ primaryTool(apply.from) # None
                    THEN {apply.from.tools[primaryTool(apply.from)].pipeline} ELSE {}
      IN /\ ingest = apply.want.ingestion
         /\ {bindings[i].pipeline : i \in DOMAIN bindings}
              = (before \ old) \cup (IF ToolChanges(apply) THEN {wanted} ELSE {})
         /\ ToolChanges(apply) =>
              \A i \in DOMAIN bindings : bindings[i].primary <=> bindings[i].pipeline = wanted
SwitchReplacesThePrimary == [][SwitchReplacesThePrimaryStep]_vars

\* With both cards done, neither saying that its change failed, what the page
\* shows is what the server has, in both cards.
PageIsTrue ==
    apply = None /\ busy = "idle" /\ (\A c \in Cards : ~failed[c]) =>
        /\ collection = copy
        /\ Settled(rows) => listed = bindings

\* One tool is primary, as long as there is one: "exactly one primary among a
\* collection's tool bindings" (collection_tools.py), through every request
\* that fails half way of a longer change.
OnePrimary ==
    DOMAIN bindings # {} => Cardinality({i \in DOMAIN bindings : bindings[i].primary}) = 1
================================================================================
