------------------------------- MODULE ApiQuery -------------------------------
(***************************************************************************)
(* useApiQuery (lib/use-api-query.ts), the hook every console page reads   *)
(* the server through.  Each commit that changes the dependencies, the     *)
(* enabled flag or the reload token cancels the running request and starts *)
(* another; requests are never aborted, so several can be answered, in any *)
(* order, and the cancelled ones have to be ignored.                       *)
(***************************************************************************)
EXTENDS Naturals

CONSTANTS
    Keys,          \* the values the dependencies take
    None,          \* no key: the hook is disabled; no data
    MaxFetches,    \* bound: requests started
    MaxVersion     \* bound: the versions of a stored value

ASSUME KeysAssumption == None \notin Keys /\ MaxVersion \in Nat

VARIABLES
    stored,        \* the server: key -> version
    deps,          \* the key the component passes, None when not enabled
    requests,      \* requests not yet answered
    fetches,       \* requests started so far
    data, loading, error,
    since          \* the versions `deps` has had since the last request began

vars == <<stored, deps, requests, fetches, data, loading, error, since>>

Init ==
    /\ stored = [k \in Keys |-> 0]
    /\ deps = None /\ requests = {} /\ fetches = 0
    /\ data = None /\ loading = FALSE /\ error = FALSE
    /\ since = {}

\* The effect's cleanup.
Cancel(R) == {[r EXCEPT !.cancelled = TRUE] : r \in R}

\* The fetch effect of an enabled hook.
Fetch(k) ==
    /\ fetches < MaxFetches /\ fetches' = fetches + 1
    /\ requests' = Cancel(requests) \cup
           {[id |-> fetches', key |-> k, cancelled |-> FALSE, served |-> FALSE, answer |-> 0]}
    /\ loading' = TRUE /\ error' = FALSE
    /\ since' = {stored[k]}

ChangeDeps(k) ==
    /\ k # deps /\ deps' = k /\ Fetch(k)
    /\ UNCHANGED <<stored, data>>

Reload ==
    /\ deps # None /\ Fetch(deps)
    /\ UNCHANGED <<stored, deps, data>>

\* Mutant: a disabled read goes on showing what it read.
DisableKeepsData ==
    /\ deps # None /\ deps' = None
    /\ requests' = Cancel(requests)
    /\ error' = FALSE /\ loading' = FALSE /\ since' = {}
    /\ UNCHANGED <<stored, fetches, data>>

\* enabled goes false (the token is gone, or the key is not known yet).
Disable ==
    /\ deps # None /\ deps' = None
    /\ requests' = Cancel(requests)
    /\ data' = None /\ error' = FALSE /\ loading' = FALSE /\ since' = {}
    /\ UNCHANGED <<stored, fetches>>

\* The server: a stored value changes; a request is answered with what is stored.
Write(k) ==
    /\ stored[k] < MaxVersion
    /\ stored' = [stored EXCEPT ![k] = @ + 1]
    /\ since' = IF k = deps THEN since \cup {stored'[k]} ELSE since
    /\ UNCHANGED <<deps, requests, fetches, data, loading, error>>

Serve(r) ==
    /\ ~r.served
    /\ requests' = (requests \ {r}) \cup {[r EXCEPT !.served = TRUE, !.answer = stored[r.key]]}
    /\ UNCHANGED <<stored, deps, fetches, data, loading, error, since>>

\* Mutant: the answer of a cancelled request ends the spinner.
ResolveLate(r) ==
    /\ r.served /\ requests' = requests \ {r}
    /\ IF r.cancelled THEN UNCHANGED data ELSE data' = r.answer
    /\ loading' = FALSE
    /\ UNCHANGED <<stored, deps, fetches, error, since>>

\* The promise resolves; a cancelled request changes nothing.
Resolve(r) ==
    /\ r.served /\ requests' = requests \ {r}
    /\ IF r.cancelled
       THEN UNCHANGED <<data, loading>>
       ELSE data' = r.answer /\ loading' = FALSE
    /\ UNCHANGED <<stored, deps, fetches, error, since>>

Reject(r) ==
    /\ requests' = requests \ {r}
    /\ IF r.cancelled
       THEN UNCHANGED <<error, loading>>
       ELSE error' = TRUE /\ loading' = FALSE
    /\ UNCHANGED <<stored, deps, fetches, data, since>>

Next ==
    \/ \E k \in Keys : ChangeDeps(k) \/ Write(k)
    \/ Reload \/ Disable
    \/ \E r \in requests : Serve(r) \/ Resolve(r) \/ Reject(r)

Spec == Init /\ [][Next]_vars

--------------------------------------------------------------------------------
Requests == [id : Nat, key : Keys, cancelled : BOOLEAN, served : BOOLEAN, answer : 0..MaxVersion]

\* The values the variables take; at most one request is not cancelled.
TypeOK ==
    /\ stored \in [Keys -> 0..MaxVersion] /\ deps \in Keys \cup {None} /\ fetches \in Nat
    /\ data \in 0..MaxVersion \cup {None} /\ loading \in BOOLEAN /\ error \in BOOLEAN
    /\ since \subseteq 0..MaxVersion /\ requests \subseteq Requests
    /\ \A r, s \in requests : r.cancelled \/ s.cancelled \/ r = s

\* The spinner is shown exactly while the request it stands for is still to be
\* answered, and that request is for the current dependencies: no answer of a
\* superseded request switches it off.
LoadingIsCurrent ==
    loading <=> \E r \in requests : ~r.cancelled /\ r.key = deps

\* The hook does what LatestRead promises the pages.
Contract == INSTANCE LatestRead WITH
    Values <- 0..MaxVersion, want <- deps, held <- since, shown <- data,
    state <- IF deps = None THEN "idle" ELSE IF loading THEN "pending"
             ELSE IF error THEN "failed" ELSE "settled"

ContractSpec == Contract!Spec
===============================================================================
