---------------------------- MODULE ModelCatalogs ----------------------------
(***************************************************************************)
(* The console's shared model catalogs: SharedQueryStore                   *)
(* (frontend/src/lib/shared-query-store.ts) and its one user, the catalog  *)
(* cache (frontend/src/lib/model-catalog-cache.ts).  Entries live outside  *)
(* React and outlast every component; hooks subscribe, load, poll while    *)
(* the server says it is still refreshing, and are told to load again when *)
(* a provider connection changes (ConnectionsManager) or to forget         *)
(* everything at sign-out (auth-provider).                                 *)
(*                                                                         *)
(* A flight is one request of the store; its answer carries the version of *)
(* the connections it was computed from, which is some version between the *)
(* one at sending and the one at arrival.                                  *)
(***************************************************************************)
EXTENDS Naturals, FiniteSetTheorems

CONSTANTS
    Keys,          \* catalog keys: a user and a model kind
    UserOf,        \* the user of a key
    Users,
    Hooks,         \* mounted uses of useSharedModelCatalog
    KeyOf,         \* the key a hook asks for
    MaxVersion,    \* bound: changes of the provider connections
    MaxFlights     \* bound: requests sent in one behaviour

VARIABLES
    version,       \* version of the provider connections on the server
    entries,       \* SharedQueryStore.entries, with the identity of the entry
    flights,       \* requests that have not settled
    sent,          \* requests sent so far, the source of their identity
    timers,        \* pollTimers: keys with a timer running
    deadlines,     \* pollDeadlines: "none", "open" or "past"
    mounted,       \* hooks that are mounted and subscribed
    signedIn,      \* users with a token in this tab
    told           \* version announced to a key by its last invalidation

vars == <<version, entries, flights, sent, timers, deadlines, mounted, signedIn, told>>

NoData == [ver |-> 0, refreshing |-> FALSE]

\* EMPTY_SNAPSHOT: no data, not loading, no error, not invalidated.
EmptySnapshot == [data |-> NoData, loading |-> FALSE, error |-> FALSE, invalidated |-> FALSE]

Absent(identity) ==
    [here |-> FALSE, identity |-> identity, snapshot |-> EmptySnapshot,
     request |-> 0, generation |-> 0]

\* entry(key): the entry of the key, created with a new identity when absent.
Entry(E, k) ==
    IF E[k].here THEN E
    ELSE [E EXCEPT ![k] = [Absent(E[k].identity + 1) EXCEPT !.here = TRUE]]

Listeners(k) == {h \in mounted : KeyOf[h] = k}

TypeOK ==
    /\ version \in 1 .. MaxVersion
    /\ \A k \in Keys : entries[k].request \in 0 .. MaxFlights
    /\ \A f \in flights : f.key \in Keys /\ f.id \in 1 .. sent /\ f.low \in 1 .. version
    /\ timers \subseteq Keys
    /\ deadlines \in [Keys -> {"none", "open", "past"}]
    /\ mounted \subseteq Hooks
    /\ signedIn \subseteq Users
    /\ told \in [Keys -> 0 .. MaxVersion]

Init ==
    /\ version = 1
    /\ entries = [k \in Keys |-> Absent(0)]
    /\ flights = {}
    /\ sent = 0
    /\ timers = {}
    /\ deadlines = [k \in Keys |-> "none"]
    /\ mounted = {}
    /\ signedIn = Users
    /\ told = [k \in Keys |-> 0]

(***************************************************************************)
(* revalidate: the entry's running request is shared; otherwise a request  *)
(* is sent and the snapshot says loading.  K is a set because an           *)
(* invalidation revalidates every subscribed kind of the user at once.     *)
(***************************************************************************)
NeedsFlight(E, K) == {k \in K : E[k].request = 0}

Started(E, K, ids) ==
    [k \in Keys |->
        IF k \in NeedsFlight(E, K)
        THEN [E[k] EXCEPT !.request = ids[k],
                          !.snapshot.loading = TRUE,
                          !.snapshot.error = FALSE,
                          !.snapshot.invalidated = FALSE]
        ELSE E[k]]

Revalidate(E, K, low) ==
    LET new == NeedsFlight(E, K) IN
    /\ sent + Cardinality(new) <= MaxFlights
    /\ sent' = sent + Cardinality(new)
    /\ \E ids \in [new -> sent + 1 .. sent + Cardinality(new)] :
         /\ \A j, k \in new : ids[j] = ids[k] => j = k
         /\ entries' = Started(E, K, ids)
         /\ flights' = flights \cup
              {[id |-> ids[k], key |-> k, identity |-> E[k].identity,
                generation |-> E[k].generation, low |-> low] : k \in new}

\* useSharedModelCatalog mounts: it subscribes, and its effect revalidates
\* with a fresh polling window.
Mount(h) ==
    /\ h \notin mounted
    /\ UserOf[KeyOf[h]] \in signedIn
    /\ mounted' = mounted \cup {h}
    /\ deadlines' = [deadlines EXCEPT ![KeyOf[h]] = "open"]
    /\ Revalidate(Entry(entries, KeyOf[h]), {KeyOf[h]}, version)
    /\ UNCHANGED <<version, timers, signedIn, told>>

\* refresh(), the Retry button and the catalog becoming visible.
Refresh(h) ==
    /\ h \in mounted
    /\ UserOf[KeyOf[h]] \in signedIn
    /\ deadlines' = [deadlines EXCEPT ![KeyOf[h]] = "open"]
    /\ Revalidate(entries, {KeyOf[h]}, version)
    /\ UNCHANGED <<version, timers, mounted, signedIn, told>>

\* The cleanup of subscribe: the last subscriber of a key stops its polling.
Unmount(h) ==
    LET k == KeyOf[h] IN
    /\ h \in mounted
    /\ mounted' = mounted \ {h}
    /\ IF Listeners(k) = {h}
       THEN timers' = timers \ {k} /\ deadlines' = [deadlines EXCEPT ![k] = "none"]
       ELSE UNCHANGED <<timers, deadlines>>
    /\ UNCHANGED <<version, entries, flights, sent, signedIn, told>>

\* A flight may publish: its entry is still the one in the map and no
\* invalidation has moved the generation on.
Current(f) ==
    /\ entries[f.key].here
    /\ entries[f.key].identity = f.identity
    /\ entries[f.key].generation = f.generation

\* .finally: the entry forgets the request if it is still this one.
Released(E, f) ==
    IF E[f.key].identity = f.identity /\ E[f.key].request = f.id
    THEN [E EXCEPT ![f.key].request = 0] ELSE E

\* The rest of revalidateCatalog after its await: another poll while the
\* server is refreshing, somebody listens and the window is open.
PollAfter(E, k) ==
    LET refreshing == E[k].snapshot.data.refreshing IN
    /\ timers' = IF refreshing /\ Listeners(k) # {} /\ deadlines[k] = "open"
                 THEN timers \cup {k} ELSE timers
    /\ deadlines' = IF refreshing THEN deadlines ELSE [deadlines EXCEPT ![k] = "none"]

Published(f, snapshot) ==
    Entry(Released(IF Current(f) THEN [entries EXCEPT ![f.key].snapshot = snapshot]
                                 ELSE entries, f), f.key)

Settle(f, snapshot) ==
    /\ entries' = Published(f, snapshot)
    /\ flights' = flights \ {f}
    /\ PollAfter(Published(f, snapshot), f.key)
    /\ UNCHANGED <<version, sent, mounted, signedIn, told>>

\* The request answers; the server says whether it is still refreshing.
Answer(f) ==
    \E v \in f.low .. version, r \in BOOLEAN :
        Settle(f, [EmptySnapshot EXCEPT !.data = [ver |-> v, refreshing |-> r]])

\* The request fails: the data already there stays.
Fail(f) ==
    Settle(f, [entries[f.key].snapshot EXCEPT !.loading = FALSE, !.error = TRUE])

\* A poll timer fires: the timer is gone, and the window is not reopened.
PollTimer(k) ==
    /\ k \in timers
    /\ timers' = timers \ {k}
    /\ Revalidate(entries, {k}, version)
    /\ UNCHANGED <<version, deadlines, mounted, signedIn, told>>

\* POLL_WINDOW_MS have passed since the window was opened.
WindowCloses(k) ==
    /\ deadlines[k] = "open"
    /\ deadlines' = [deadlines EXCEPT ![k] = "past"]
    /\ UNCHANGED <<version, entries, flights, sent, timers, mounted, signedIn, told>>

\* Mutant: an invalidation leaves the generation where it was.
InvalidatedQuietly(u) ==
    [k \in Keys |->
        IF entries[k].here /\ UserOf[k] = u
        THEN [entries[k] EXCEPT !.request = 0, !.snapshot.invalidated = TRUE]
        ELSE entries[k]]

\* invalidate(predicate): every entry of the user forgets its request, moves
\* its generation and keeps what it shows, marked invalidated.
Invalidated(u) ==
    [k \in Keys |->
        IF entries[k].here /\ UserOf[k] = u
        THEN [entries[k] EXCEPT !.generation = @ + 1, !.request = 0,
                                !.snapshot.invalidated = TRUE]
        ELSE entries[k]]

\* ConnectionsManager.handleChanged after a connection of u was saved or
\* removed: invalidateModelCatalogs, which also revalidates what is watched.
ConnectionsChanged(u) ==
    LET K == {k \in Keys : UserOf[k] = u}
        watched == {k \in K : Listeners(k) # {}}
    IN
    /\ u \in signedIn
    /\ version < MaxVersion
    /\ version' = version + 1
    /\ told' = [k \in Keys |-> IF k \in K THEN version' ELSE told[k]]
    /\ deadlines' = [k \in Keys |-> IF k \in watched THEN "open" ELSE deadlines[k]]
    /\ Revalidate(Invalidated(u), watched, version')
    /\ UNCHANGED <<timers, mounted, signedIn>>

\* removeMatching(predicate): an entry nobody listens to is deleted, another
\* is emptied; both move the generation and forget the request.
Removed(u) ==
    [k \in Keys |->
        IF ~entries[k].here \/ UserOf[k] # u THEN entries[k]
        ELSE IF Listeners(k) = {} THEN Absent(entries[k].identity)
        ELSE [entries[k] EXCEPT !.generation = @ + 1, !.request = 0,
                                !.snapshot = EmptySnapshot]]

\* signOut: clearModelCatalogsForUser stops the polling of the user's keys and
\* removes their entries; the tab then has no token for the user.
SignOut(u) ==
    LET K == {k \in Keys : UserOf[k] = u} IN
    /\ u \in signedIn
    /\ signedIn' = signedIn \ {u}
    /\ timers' = timers \ K
    /\ deadlines' = [k \in Keys |-> IF k \in K THEN "none" ELSE deadlines[k]]
    /\ entries' = Removed(u)
    /\ UNCHANGED <<version, flights, sent, mounted, told>>

SignIn(u) ==
    /\ u \notin signedIn
    /\ \A h \in mounted : UserOf[KeyOf[h]] # u
    /\ signedIn' = signedIn \cup {u}
    /\ UNCHANGED <<version, entries, flights, sent, timers, deadlines, mounted, told>>

Next ==
    \/ \E h \in Hooks : Mount(h) \/ Refresh(h) \/ Unmount(h)
    \/ \E f \in flights : Answer(f) \/ Fail(f)
    \/ \E k \in Keys : PollTimer(k) \/ WindowCloses(k)
    \/ \E u \in Users : ConnectionsChanged(u) \/ SignOut(u) \/ SignIn(u)

\* The browser settles every request, one way or the other.
Fairness == \A i \in 1 .. MaxFlights :
              WF_vars(\E f \in flights : f.id = i /\ (Answer(f) \/ Fail(f)))

Spec == Init /\ [][Next]_vars /\ Fairness
-------------------------------------------------------------------------------
\* A catalog shown as current is not older than the last connection change the
\* store was told of: an answer asked for before an invalidation never lands
\* after it (the generation check of revalidate's then).
NoStaleCatalog ==
    \A k \in Keys :
        LET s == entries[k].snapshot IN
        s.data # NoData /\ ~s.loading /\ ~s.error /\ ~s.invalidated => s.data.ver >= told[k]

\* After sign-out nothing of the user's catalogs is kept, and no answer that
\* was on its way brings it back (removeMatching's generation and identity).
ForgottenAtSignOut ==
    \A k \in Keys : UserOf[k] \notin signedIn => entries[k].snapshot.data = NoData

\* A watched catalog that shows a spinner has a request that can end it: no
\* sequence of sharing, invalidating and failing strands the loading flag.
SpinnerHasRequest ==
    \A k \in Keys :
        Listeners(k) # {} /\ entries[k].snapshot.loading =>
            \E f \in flights : f.key = k /\ f.id = entries[k].request /\ Current(f)

\* No poll timer runs for a catalog nobody watches (stopPolling at the last
\* unsubscribe, and the subscriber check after each answer).
PollsOnlyWatched == \A k \in timers : Listeners(k) # {}

\* Why they hold: a flight that may publish is the one its entry waits for; it
\* was asked for after the last invalidation, by a user who is still signed in,
\* since what invalidates or removes an entry moves its generation, and an entry
\* made again has a new identity.
Snapshots == [data : [ver : 0 .. MaxVersion, refreshing : BOOLEAN],
              loading : BOOLEAN, error : BOOLEAN, invalidated : BOOLEAN]
Entries == [here : BOOLEAN, identity : Nat, snapshot : Snapshots,
            request : 0 .. MaxFlights, generation : Nat]
Requests == [id : 1 .. MaxFlights, key : Keys, identity : Nat, generation : Nat,
             low : 1 .. MaxVersion]

CatalogsInv ==
    /\ version \in 1 .. MaxVersion /\ sent \in 0 .. MaxFlights
    /\ entries \in [Keys -> Entries] /\ flights \subseteq Requests
    /\ timers \subseteq Keys /\ mounted \subseteq Hooks /\ signedIn \subseteq Users
    /\ deadlines \in [Keys -> {"none", "open", "past"}] /\ told \in [Keys -> 0 .. MaxVersion]
    /\ \A f, g \in flights : f.id = g.id => f = g
    /\ \A f \in flights :
         /\ f.id <= sent /\ f.low <= version /\ f.identity <= entries[f.key].identity
         /\ entries[f.key].here /\ f.identity = entries[f.key].identity =>
                f.generation <= entries[f.key].generation
         /\ Current(f) => /\ entries[f.key].request = f.id /\ told[f.key] <= f.low
                          /\ UserOf[f.key] \in signedIn
    /\ \A k \in Keys :
         /\ entries[k].request # 0 =>
                \E f \in flights : f.key = k /\ f.id = entries[k].request /\ Current(f)
         /\ entries[k].here \/ entries[k].snapshot = EmptySnapshot
         /\ Listeners(k) # {} => /\ entries[k].here
                                 /\ entries[k].snapshot.loading => entries[k].request # 0
         /\ told[k] <= version
         /\ deadlines[k] = "open" \/ k \in timers => UserOf[k] \in signedIn
    /\ NoStaleCatalog /\ ForgottenAtSignOut /\ PollsOnlyWatched

\* A watched spinner ends, or the watchers leave.
LoadingEnds ==
    \A k \in Keys :
        (Listeners(k) # {} /\ entries[k].snapshot.loading)
            ~> (~entries[k].snapshot.loading \/ Listeners(k) = {})
===============================================================================
