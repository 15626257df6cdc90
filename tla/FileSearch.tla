------------------------------ MODULE FileSearch ------------------------------
(***************************************************************************)
(* The search box over the files page (FileSearchBox, useFileSearch):      *)
(* names match at once in the tree at hand, contents are asked of the      *)
(* retrieval pipeline after a pause in typing.  Answers to what is no      *)
(* longer asked are disowned, and what was shown stays until replaced.     *)
(***************************************************************************)
EXTENDS Naturals, FiniteSets

CONSTANTS
    None,
    Queries,       \* what can be typed; "" is an empty box
    Short,         \* those too short for a content search
    Named,         \* query -> [folder, name]: whether a folder, a file, of the tree matches
    MaxRequests    \* bound: content searches sent

VARIABLES
    query, modes, focused, filtersOpen,
    waiting,       \* the query the debounce timer holds, or None
    sent,          \* searches out: [for, id, cancelled]
    count,         \* searches sent
    contentResult  \* [forQuery, of, loading, error]: of is the query whose matches it holds

vars == <<query, modes, focused, filtersOpen, waiting, sent, count, contentResult>>

Modes == {"name", "folder", "content"}

Init ==
    /\ query = "" /\ modes = Modes /\ focused = FALSE /\ filtersOpen = FALSE
    /\ waiting = None /\ sent = {} /\ count = 0
    /\ contentResult = [forQuery |-> "", of |-> None, loading |-> FALSE, error |-> FALSE]

--------------------------------------------------------------------------------
(***************************************************************************)
(* The effect on the query and on whether contents are searched.           *)
(***************************************************************************)
hasQuery == query # ""
contentEnabled == "content" \in modes /\ hasQuery /\ query \notin Short

\* Cleaning up stops the timer and disowns the search; a new timer starts.
Effect ==
    IF <<contentEnabled', query'>> = <<contentEnabled, query>> THEN UNCHANGED <<waiting, sent>>
    ELSE /\ waiting' = IF contentEnabled' THEN query' ELSE None
         /\ sent' = {[r EXCEPT !.cancelled = TRUE] : r \in sent}

DebounceEnds ==
    /\ waiting # None /\ count < MaxRequests /\ count' = count + 1
    /\ contentResult' = [contentResult EXCEPT !.loading = TRUE, !.error = FALSE]
    /\ sent' = sent \cup {[for |-> waiting, id |-> count + 1, cancelled |-> FALSE]}
    /\ waiting' = None
    /\ UNCHANGED <<query, modes, focused, filtersOpen>>

Settle(r, ok) ==
    contentResult' = IF r.cancelled THEN contentResult
                     ELSE [forQuery |-> r.for, of |-> IF ok THEN r.for ELSE None,
                           loading |-> FALSE, error |-> ~ok]

SearchAnswers(r) ==
    /\ sent' = sent \ {r} /\ \E ok \in BOOLEAN : Settle(r, ok)
    /\ UNCHANGED <<query, modes, focused, filtersOpen, waiting, count>>

--------------------------------------------------------------------------------
(***************************************************************************)
(* What the dropdown shows.                                                *)
(***************************************************************************)
contentFresh == contentEnabled /\ contentResult.forQuery = query
content == IF contentFresh THEN contentResult.of ELSE None
contentLoading == contentEnabled /\ contentResult.loading
contentError == contentFresh /\ contentResult.error

folders == hasQuery /\ "folder" \in modes /\ Named[query].folder
files == hasQuery /\ "name" \in modes /\ Named[query].name

open == focused /\ hasQuery
NothingFound == ~folders /\ ~files /\ "content" \notin modes

--------------------------------------------------------------------------------
(***************************************************************************)
(* The box.                                                                *)
(***************************************************************************)
setQuery(q) ==
    /\ focused /\ q # query /\ query' = q /\ UNCHANGED <<modes, focused, filtersOpen, count, contentResult>>
    /\ Effect

setFocused ==
    /\ ~focused /\ focused' = TRUE
    /\ UNCHANGED <<query, modes, filtersOpen, waiting, sent, count, contentResult>>

toggleFilters ==
    /\ filtersOpen' = ~filtersOpen
    /\ UNCHANGED <<query, modes, focused, waiting, sent, count, contentResult>>

onPointerDown ==
    /\ (focused \/ filtersOpen) /\ focused' = FALSE /\ filtersOpen' = FALSE
    /\ UNCHANGED <<query, modes, waiting, sent, count, contentResult>>

\* At least one mode stays on.
Toggled(m) == IF m \notin modes THEN modes \cup {m} ELSE IF modes = {m} THEN modes ELSE modes \ {m}

toggleMode(m) ==
    /\ filtersOpen /\ modes' = Toggled(m) /\ UNCHANGED <<query, focused, filtersOpen, count, contentResult>>
    /\ Effect

\* A result opens its folder or its file, and empties the box.
choose ==
    /\ open /\ (folders \/ files \/ content # None)
    /\ focused' = FALSE /\ query' = "" /\ UNCHANGED <<modes, filtersOpen, count, contentResult>>
    /\ Effect

Next ==
    \/ \E q \in Queries : setQuery(q)
    \/ \E m \in Modes : toggleMode(m)
    \/ setFocused \/ toggleFilters \/ onPointerDown \/ choose \/ DebounceEnds
    \/ \E r \in sent : SearchAnswers(r)

Spec == Init /\ [][Next]_vars

--------------------------------------------------------------------------------
(***************************************************************************)
(* Properties.                                                             *)
(***************************************************************************)
\* Types: one search at most is not disowned, some mode is on, nothing is
\* found only when nothing is searched for in contents.
TypeOK ==
    /\ query \in Queries /\ modes \in SUBSET Modes \ {{}} /\ waiting \in Queries \cup {None}
    /\ Cardinality({r \in sent : ~r.cancelled}) <= 1 /\ count \in 0..MaxRequests
    /\ contentResult.forQuery \in Queries /\ contentResult.of \in Queries \cup {None}
    /\ NothingFound => content = None

\* Content matches on screen are those of the query in the box: answers that
\* come late, out of order, or after the mode was switched off and on again,
\* show nothing of another query (forQuery, the effect's cancelled flag).
MatchesAreOfQuery == content # None => content = query /\ ~contentError

\* The content spinner turns only while a search is about to be sent or is
\* out, though a disowned search never lowers the flag itself.
SpinnerHasSearch == contentLoading => waiting = query \/ \E r \in sent : ~r.cancelled /\ r.for = query
===============================================================================
