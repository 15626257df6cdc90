--------------------------- MODULE CollectionSearch ---------------------------
(***************************************************************************)
(* The search page of a collection (useCollectionSearch, CollectionSearch, *)
(* QueryArgumentControls): one of the collection's tools is chosen and its *)
(* declared arguments filled in; the last search is kept for the tab, so   *)
(* that going back from a trace restores it; the recent queries are kept   *)
(* for the browser.  A search still out when the page is left answers      *)
(* into the storage all the same.                                          *)
(***************************************************************************)
EXTENDS Naturals, Sequences, FiniteSets, ApiQueries

CONSTANTS
    Tools, Primary,  \* the bindings there may be, and the primary one
    Declared,        \* tool -> its arguments, and
    Defaulted,       \* those of them with a default
    Texts,           \* what can be asked; "" is an empty box
    Depths,          \* the values of top k that can be set, the first one aside
    RECENT_LIMIT,
    MaxOut,          \* bound: searches out
    MaxSets,         \* bound: changes of the bindings
    MaxActs          \* bound: what the user does

VARIABLES
    bound, sets,     \* the tools the collection has; how often that changed
    listing,         \* useApiQuery of the tools
    query, topK,
    selectedToolId, seededToolId,
    argumentValues,  \* argument -> [of, typed]: whose it is, and whether by hand
    result,          \* the request whose answer is shown, or None
    failed,          \* the request whose failure is shown, or None
    running,         \* the request out for this page, or None
    orphans,         \* those out for pages since left
    recentQueries,
    acts,            \* things done by the user
    touched,         \* history: whether the form, or the tool under it, changed since
                     \* the run, or the mount
    lastResult, recent   \* session storage and local storage

vars == <<bound, sets, listing, query, topK, selectedToolId, seededToolId, argumentValues, result,
          failed, running, orphans, recentQueries, acts, touched, lastResult, recent>>
stores == <<lastResult, recent>>
choice == <<query, topK, selectedToolId, seededToolId, argumentValues>>

NoArguments == [a \in {} |-> None]

Acts == acts < MaxActs /\ acts' = acts + 1

--------------------------------------------------------------------------------
(***************************************************************************)
(* The tool a selection stands for among those listed, and the seeding     *)
(* that rendering does when it is not the one last seeded.                 *)
(***************************************************************************)
selectedTool(tools, id) ==
    IF tools = None \/ tools = {} THEN None
    ELSE IF id \in tools THEN id ELSE Primary

seededDefaults(t) == [a \in Defaulted[t] |-> [of |-> t, typed |-> FALSE]]

Seed(tools, id) ==
    LET t == selectedTool(tools, id)
    IN IF t # None /\ t # seededToolId
       THEN seededToolId' = t /\ argumentValues' = seededDefaults(t)
       ELSE UNCHANGED <<seededToolId, argumentValues>>

tool == selectedTool(listing.data, selectedToolId)

--------------------------------------------------------------------------------
(***************************************************************************)
(* Mounting: what is stored of the last search is put back before the      *)
(* tools are known, the tool marked as seeded with what was sent.          *)
(***************************************************************************)
Hydrated(s) ==
    /\ query' = IF s = None THEN "" ELSE s.text
    /\ topK' = IF s = None THEN 5 ELSE s.topK
    /\ selectedToolId' = IF s = None THEN None ELSE s.tool
    /\ seededToolId' = IF s = None THEN None ELSE s.tool
    /\ argumentValues' = IF s = None THEN NoArguments ELSE s.arguments
    /\ result' = s

Init ==
    /\ bound \in {{}, Tools} /\ sets = 0 /\ listing = Ask(NewQuery)
    /\ query = "" /\ topK = 5 /\ selectedToolId = None /\ seededToolId = None
    /\ argumentValues = NoArguments /\ result = None /\ failed = None /\ running = None
    /\ orphans = {} /\ recentQueries = <<>> /\ acts = 0 /\ touched = FALSE /\ lastResult = None /\ recent = <<>>

\* Away to a trace, or elsewhere, and back: the page mounts anew.
Remount ==
    /\ Acts
    /\ Cardinality(orphans) < MaxOut
    /\ orphans' = IF running = None THEN orphans ELSE orphans \cup {running}
    /\ running' = None /\ failed' = None /\ recentQueries' = recent /\ touched' = FALSE
    /\ listing' = Ask(NewQuery) /\ Hydrated(lastResult)
    /\ UNCHANGED <<bound, sets, stores>>

--------------------------------------------------------------------------------
(***************************************************************************)
(* The tools: bound elsewhere, listed at mount and when the session is     *)
(* refreshed.                                                              *)
(***************************************************************************)
SetTools ==
    /\ sets < MaxSets /\ sets' = sets + 1
    /\ \E b \in SUBSET Tools : (b = {} \/ Primary \in b) /\ b # bound /\ bound' = b
    /\ UNCHANGED <<acts, listing, choice, result, failed, running, orphans, recentQueries, touched, stores>>

NewToken ==
    /\ Acts
    /\ ~listing.loading /\ listing' = Ask(listing)
    /\ UNCHANGED <<bound, sets, choice, result, failed, running, orphans, recentQueries, touched, stores>>

ServeTools ==
    /\ Unserved(listing) /\ listing' = Serve(listing, bound)
    /\ UNCHANGED <<acts, bound, sets, choice, result, failed, running, orphans, recentQueries, touched, stores>>

ToolsLand ==
    /\ listing.served /\ listing' = Land(listing)
    /\ Seed(listing.answer, selectedToolId)
    /\ LET last == IF running = None THEN result ELSE running
       IN touched' = (touched \/ (last # None /\ selectedTool(listing.answer, selectedToolId) # last.tool))
    /\ UNCHANGED <<acts, bound, sets, query, topK, selectedToolId, result, failed, running, orphans,
                   recentQueries, stores>>

ToolsFault ==
    /\ listing.loading /\ listing' = Fault(listing)
    /\ UNCHANGED <<acts, bound, sets, choice, result, failed, running, orphans, recentQueries, touched, stores>>

--------------------------------------------------------------------------------
(***************************************************************************)
(* The controls.                                                           *)
(***************************************************************************)
setQuery(t) ==
    /\ Acts
    /\ t # query /\ query' = t
    /\ touched' = TRUE
    /\ UNCHANGED <<bound, sets, listing, topK, selectedToolId, seededToolId, argumentValues,
                   result, failed, running, orphans, recentQueries, stores>>

\* The legacy control, once the tools are known not to declare any argument.
setTopK(k) ==
    /\ Acts
    /\ (listing.data # None \/ listing.error) /\ (tool # None => Declared[tool] = {})
    /\ k # topK /\ topK' = k
    /\ touched' = TRUE
    /\ UNCHANGED <<bound, sets, listing, query, selectedToolId, seededToolId, argumentValues,
                   result, failed, running, orphans, recentQueries, stores>>

setSelectedToolId(t) ==
    /\ Acts
    /\ listing.data # None /\ Cardinality(listing.data) > 1 /\ t \in listing.data /\ t # tool
    /\ selectedToolId' = t /\ Seed(listing.data, t)
    /\ touched' = TRUE
    /\ UNCHANGED <<bound, sets, listing, query, topK, result, failed, running, orphans,
                   recentQueries, stores>>

\* An emptied argument is taken out, so that the pipeline's own default holds.
setArgumentValue(a) ==
    /\ Acts
    /\ tool # None /\ a \in Declared[tool]
    /\ \/ argumentValues' = [b \in DOMAIN argumentValues \cup {a} |->
                                IF b = a THEN [of |-> tool, typed |-> TRUE] ELSE argumentValues[b]]
       \/ argumentValues' = [b \in DOMAIN argumentValues \ {a} |-> argumentValues[b]]
    /\ touched' = TRUE
    /\ UNCHANGED <<bound, sets, listing, query, topK, selectedToolId, seededToolId, result,
                   failed, running, orphans, recentQueries, stores>>

--------------------------------------------------------------------------------
(***************************************************************************)
(* Running: the request is made from what is selected and filled in; with  *)
(* no tool, none listed or none listed yet, the legacy route is asked.     *)
(***************************************************************************)
declared == IF tool = None THEN {} ELSE Declared[tool]

Request(text) ==
    [text |-> text, topK |-> topK, tool |-> tool,
     arguments |-> [a \in declared \cap DOMAIN argumentValues |-> argumentValues[a]]]

run(text) ==
    /\ Acts
    /\ text # "" /\ running = None
    /\ query' = text /\ running' = Request(text) /\ failed' = None /\ touched' = FALSE
    /\ UNCHANGED <<bound, sets, listing, topK, selectedToolId, seededToolId, argumentValues,
                   result, orphans, recentQueries, stores>>

nextRecent(text) ==
    LET rest == SelectSeq(recent, LAMBDA t : t # text)
    IN SubSeq(<<text>> \o rest, 1, IF Len(rest) + 1 > RECENT_LIMIT THEN RECENT_LIMIT ELSE Len(rest) + 1)

writeLastSearch(r) == lastResult' = r /\ recent' = nextRecent(r.text)

RunAnswers ==
    /\ running # None /\ running' = None
    /\ \/ /\ result' = running /\ writeLastSearch(running) /\ recentQueries' = recent'
          /\ UNCHANGED <<failed, touched>>
       \/ failed' = running /\ touched' = TRUE /\ UNCHANGED <<result, recentQueries, stores>>
    /\ UNCHANGED <<acts, bound, sets, listing, choice, orphans>>

OrphanAnswers(r) ==
    /\ orphans' = orphans \ {r}
    /\ writeLastSearch(r) \/ UNCHANGED stores
    /\ UNCHANGED <<acts, bound, sets, listing, choice, result, failed, running, recentQueries, touched>>

Next ==
    \/ Remount \/ SetTools \/ NewToken \/ ServeTools \/ ToolsLand \/ ToolsFault
    \/ \E t \in Texts : setQuery(t)
    \/ \E k \in Depths : setTopK(k)
    \/ \E t \in Tools : setSelectedToolId(t) \/ \E a \in Declared[t] : setArgumentValue(a)
    \/ run(query) \/ \E i \in DOMAIN recentQueries : run(recentQueries[i])
    \/ RunAnswers
    \/ \E r \in orphans : OrphanAnswers(r)

Spec == Init /\ [][Next]_vars

--------------------------------------------------------------------------------
(***************************************************************************)
(* Properties.                                                             *)
(***************************************************************************)
\* Types: values are of arguments that the tool they were seeded for has.
TypeOK ==
    /\ bound \subseteq Tools /\ sets \in 0..MaxSets /\ query \in Texts /\ topK \in Depths \cup {5}
    /\ selectedToolId \in Tools \cup {None} /\ seededToolId \in Tools \cup {None}
    /\ DOMAIN argumentValues \subseteq (IF seededToolId = None THEN {} ELSE Declared[seededToolId])
    /\ Cardinality(orphans) <= MaxOut /\ Len(recentQueries) <= RECENT_LIMIT

\* A search never carries another tool's values, though two tools may declare
\* an argument of the same name and the tool changes under the form: by the
\* user, by a reload that no longer lists it, by what storage put back.
ArgumentsAreOfTool ==
    running # None => \A a \in DOMAIN running.arguments : running.arguments[a].of = running.tool

\* With the form not touched since, running it again asks what the answer on
\* screen was given to: after a run, and after coming back to a stored one,
\* depth and arguments included, those cleared by hand left out (the seeding's
\* guard; the arguments stored are those sent).
FormAsksTheResult ==
    running = None /\ ~touched /\ result # None /\ tool = result.tool => Request(query) = result

\* The recent queries hold no query twice and are those last answered, newest
\* first, though pages left behind write to the same storage.
RecentsAreDistinct ==
    /\ \A i, j \in DOMAIN recent : recent[i] = recent[j] => i = j
    /\ lastResult # None => recent # <<>> /\ Head(recent) = lastResult.text
===============================================================================
