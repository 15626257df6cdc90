------------------------------ MODULE ValueCache -------------------------------
(***************************************************************************)
(* The stale-while-revalidate cache of app/cache/values.py that the        *)
(* provider catalogs, the embedding-dimension lookup and the collection    *)
(* diagnostics share between request threads.                              *)
(*                                                                         *)
(* One step is one critical section of the cache's lock, or one step of a  *)
(* loader, which runs outside it.  Every call of get() has a number; the   *)
(* entry object a call inserts and the background refresh it submits carry *)
(* the number of that call, so an entry that left the cache while a load   *)
(* was under way keeps its identity.  The data behind a loader is a        *)
(* version number per key that somebody else increases.                    *)
(***************************************************************************)
EXTENDS ListOrder

CONSTANTS
    Keys,
    Missing,          \* the _MISSING sentinel, and "no entry"
    Indefinite,       \* fresh_seconds = None
    FreshSeconds,     \* CachePolicy.fresh_seconds
    MaxStaleSeconds,  \* CachePolicy.max_stale_seconds
    RetrySeconds,     \* CachePolicy.failure_retry_seconds
    MaxEntries,       \* CachePolicy.max_entries
    RefreshWorkers,   \* threads of the refresh executor
    MaxCalls,         \* bound on the calls of get()
    MaxChanges,       \* bound on the versions of the data
    MaxInvalidations, \* bound on calls of invalidate, clear and close
    MaxTime           \* bound on the clock

PolicyAssumption ==
    /\ FreshSeconds \in Nat \union {Indefinite}
    /\ Indefinite \notin Nat
    /\ {MaxStaleSeconds, RetrySeconds} \subseteq Nat
    /\ {MaxEntries, RefreshWorkers} \subseteq Nat \ {0}
CacheBoundsAssumption ==
    /\ {MaxCalls, MaxChanges, MaxInvalidations, MaxTime} \subseteq Nat
    /\ Missing \notin Nat

Calls == 1 .. MaxCalls

VARIABLES
    clock,    \* the monotonic clock
    source,   \* the version of the data a loader of a key would read now
    issued,   \* calls of get() made so far
    call,     \* what a call was asked, where it is, and what its loader read
    entry,    \* the _Entry object a call inserted
    lru,      \* self._entries: entries from least to most recently used
    task,     \* the background refresh a call submitted
    closing,  \* close() waits for the executor it detached
    shut,     \* executors detached so far
    resets,   \* calls of invalidate, clear and close made so far
    floor,    \* the version a key had when it was last invalidated
    served    \* the snapshot returned last, and the floor when its call began

vars == <<clock, source, issued, call, entry, lru, task, closing, shut,
          resets, floor, served>>

\* A call: in the condition's wait, woken from it, in its loader, done.
CallStates == {"unborn", "waiting", "woken", "loading", "loaded", "done"}
TaskStates == {"none", "queued", "loading", "loaded", "done"}
Versions   == 0 .. MaxChanges
Values     == Versions \union {Missing}
Times      == 0 .. MaxTime

NoCall  == [key |-> Missing, force |-> FALSE, pc |-> "unborn",
            on |-> Missing, read |-> Missing, floor |-> 0]
NoTask  == [pc |-> "none", on |-> Missing, read |-> Missing, pool |-> 0]
NoEntry == [key |-> Missing, value |-> Missing, loadedAt |-> 0,
            refreshing |-> FALSE, retryAt |-> 0]

CallType ==
    [key : Keys \union {Missing}, force : BOOLEAN, pc : CallStates,
     on : Calls \union {Missing}, read : Values, floor : Versions]
TaskType ==
    [pc : TaskStates, on : Calls \union {Missing}, read : Values,
     pool : 0 .. MaxInvalidations]
EntryType ==
    [key : Keys \union {Missing}, value : Values, loadedAt : Times,
     refreshing : BOOLEAN, retryAt : 0 .. MaxTime + RetrySeconds]
SnapshotType == [value : Versions, floor : Versions]

TypeOK ==
    /\ clock \in Times
    /\ source \in [Keys -> Versions]
    /\ issued \in 0 .. MaxCalls
    /\ call \in [Calls -> CallType]
    /\ entry \in [Calls -> EntryType]
    /\ lru \in Seq(Calls) /\ Distinct(lru)
    /\ task \in [Calls -> TaskType]
    /\ closing \in BOOLEAN
    /\ {shut, resets} \subseteq 0 .. MaxInvalidations
    /\ floor \in [Keys -> Versions]
    /\ served \in SnapshotType

Init ==
    /\ clock = 0
    /\ source = [k \in Keys |-> 0]
    /\ issued = 0
    /\ call = [c \in Calls |-> NoCall]
    /\ entry = [e \in Calls |-> NoEntry]
    /\ lru = << >>
    /\ task = [c \in Calls |-> NoTask]
    /\ closing = FALSE
    /\ shut = 0
    /\ resets = 0
    /\ floor = [k \in Keys |-> 0]
    /\ served = [value |-> 0, floor |-> 0]
--------------------------------------------------------------------------------
Age(e)   == clock - e.loadedAt
IsFresh(age) == FreshSeconds = Indefinite \/ age <= FreshSeconds
IsStaleServable(age) ==
    FreshSeconds # Indefinite /\ age <= FreshSeconds + MaxStaleSeconds

Entries == Members(lru)

\* self._entries.get(key): at most one entry in the cache has the key.
Cached(k) == {e \in Entries : entry[e].key = k}

\* Drop the least recently used completed entries until the cache fits.
EvictCompleted(s, h) ==
    Without(s, Excess(s, {e \in Calls : ~h[e].refreshing}, MaxEntries))

\* The entry a get() of key k works on, inserted by call c if there is none.
EntryFor(c, k) ==
    IF Cached(k) = {}
      THEN [id |-> c,
            heap |-> [entry EXCEPT ![c] = [NoEntry EXCEPT !.key = k]]]
      ELSE [id |-> CHOOSE e \in Cached(k) : TRUE, heap |-> entry]
Touch(c, k) ==
    IF Cached(k) = {}
      THEN EvictCompleted(Append(lru, c), EntryFor(c, k).heap)
      ELSE MoveToEnd(lru, EntryFor(c, k).id)

Snapshot(e, low) == [value |-> e.value, floor |-> low]

\* A call in the given state; what is left of it once it has returned.
CallAt(k, force, pc, e, low) ==
    [key |-> k, force |-> force, pc |-> pc, on |-> e, read |-> Missing,
     floor |-> low]
Returned(c, cl) == [cl EXCEPT ![c] = [NoCall EXCEPT !.pc = "done"]]

\* Mutant: notify instead of notify_all.
NotifiedOne(e, cl) ==
    LET waiters == {c \in Calls : cl[c].pc = "waiting" /\ cl[c].on = e}
    IN  [c \in Calls |-> IF c \in waiters /\ \A d \in waiters : c <= d
                           THEN [cl[c] EXCEPT !.pc = "woken"] ELSE cl[c]]

\* notify_all of an entry's condition.
Notified(e, cl) ==
    [c \in Calls |-> IF cl[c].pc = "waiting" /\ cl[c].on = e
                       THEN [cl[c] EXCEPT !.pc = "woken"] ELSE cl[c]]
--------------------------------------------------------------------------------

\* Which way a get() leaves the lock, given the entry it found or inserted.
MustWait(e, force) == e.refreshing /\ (e.value = Missing \/ force)
MayServe(e, force) ==
    e.value # Missing /\ ~force /\ (e.refreshing \/ IsFresh(Age(e)))
MayServeStale(e, force) ==
    /\ e.value # Missing /\ ~force /\ ~e.refreshing
    /\ ~IsFresh(Age(e)) /\ IsStaleServable(Age(e))
MustLoad(e, force) ==
    ~e.refreshing /\ ~MayServe(e, force) /\ ~MayServeStale(e, force)

\* A new call of get(): it finds or inserts the entry of its key.
Enter(c, k) ==
    /\ issued < MaxCalls /\ c = issued + 1
    /\ issued' = c
    /\ lru' = Touch(c, k)
    /\ UNCHANGED <<clock, source, closing, shut, resets, floor>>

GetWaits(c, k, force) ==
    LET f == EntryFor(c, k) IN
    /\ Enter(c, k)
    /\ MustWait(f.heap[f.id], force)
    /\ entry' = f.heap
    /\ call' = [call EXCEPT ![c] = CallAt(k, force, "waiting", f.id, floor[k])]
    /\ UNCHANGED <<task, served>>

GetServes(c, k, force) ==
    LET f == EntryFor(c, k) IN
    /\ Enter(c, k)
    /\ MayServe(f.heap[f.id], force)
    /\ entry' = f.heap
    /\ call' = Returned(c, call)
    /\ served' = Snapshot(f.heap[f.id], floor[k])
    /\ UNCHANGED task

\* Too soon after a failure: the stale value, and no refresh.
GetBacksOff(c, k, force) ==
    LET f == EntryFor(c, k) IN
    /\ Enter(c, k)
    /\ MayServeStale(f.heap[f.id], force)
    /\ clock < f.heap[f.id].retryAt
    /\ entry' = f.heap
    /\ call' = Returned(c, call)
    /\ served' = Snapshot(f.heap[f.id], floor[k])
    /\ UNCHANGED task

\* The stale value, and a refresh submitted to the current executor.
GetRefreshes(c, k, force) ==
    LET f == EntryFor(c, k) IN
    /\ Enter(c, k)
    /\ MayServeStale(f.heap[f.id], force)
    /\ clock >= f.heap[f.id].retryAt
    /\ entry' = [f.heap EXCEPT ![f.id].refreshing = TRUE]
    /\ task' = [task EXCEPT ![c] =
                  [pc |-> "queued", on |-> f.id, read |-> Missing, pool |-> shut]]
    /\ call' = Returned(c, call)
    /\ served' = Snapshot(f.heap[f.id], floor[k])

GetLoads(c, k, force) ==
    LET f == EntryFor(c, k) IN
    /\ Enter(c, k)
    /\ MustLoad(f.heap[f.id], force)
    /\ entry' = [f.heap EXCEPT ![f.id].refreshing = TRUE]
    /\ call' = [call EXCEPT ![c] = CallAt(k, force, "loading", f.id, floor[k])]
    /\ UNCHANGED <<task, served>>

Get(c, k, force) ==
    \/ GetWaits(c, k, force)
    \/ GetServes(c, k, force)
    \/ GetBacksOff(c, k, force)
    \/ GetRefreshes(c, k, force)
    \/ GetLoads(c, k, force)

\* A waiter has the lock again: it waits on, returns the value the flight
\* brought (or left), or, when there is none, becomes the next flight.
Wake(c) ==
    LET e == call[c].on IN
    /\ call[c].pc = "woken"
    /\ \/ /\ entry[e].refreshing
          /\ call' = [call EXCEPT ![c].pc = "waiting"]
          /\ UNCHANGED <<entry, served>>
       \/ /\ ~entry[e].refreshing /\ entry[e].value # Missing
          /\ served' = Snapshot(entry[e], call[c].floor)
          /\ call' = Returned(c, call)
          /\ UNCHANGED entry
       \/ /\ ~entry[e].refreshing /\ entry[e].value = Missing
          /\ entry' = [entry EXCEPT ![e].refreshing = TRUE]
          /\ call' = [call EXCEPT ![c].pc = "loading"]
          /\ UNCHANGED served
    /\ UNCHANGED <<clock, source, issued, lru, task, closing, shut, resets, floor>>
--------------------------------------------------------------------------------
\* _record_success and _record_failure, on the entry and in the cache.
RecordSuccess(e, value) ==
    LET h == [entry EXCEPT ![e].value = value, ![e].loadedAt = clock,
                           ![e].refreshing = FALSE, ![e].retryAt = 0]
    IN  /\ entry' = h
        /\ lru' = EvictCompleted(IF e \in Entries THEN MoveToEnd(lru, e) ELSE lru, h)
RecordFailure(e) ==
    /\ entry' = [entry EXCEPT ![e].refreshing = FALSE,
                              ![e].retryAt = clock + RetrySeconds]
    /\ UNCHANGED lru

\* The loader of a blocking call reads the data.
LoaderReads(c) ==
    /\ call[c].pc = "loading"
    /\ call' = [call EXCEPT ![c].pc = "loaded",
                            ![c].read = source[entry[call[c].on].key]]
    /\ UNCHANGED <<clock, source, issued, entry, lru, task, closing, shut,
                   resets, floor, served>>

\* _load_blocking: the value is recorded and returned.
LoadSucceeds(c) ==
    LET e == call[c].on IN
    /\ call[c].pc = "loaded"
    /\ RecordSuccess(e, call[c].read)
    /\ call' = Notified(e, Returned(c, call))
    /\ served' = Snapshot(entry'[e], call[c].floor)
    /\ UNCHANGED <<clock, source, issued, task, closing, shut, resets, floor>>

\* _load_blocking: the loader's exception is recorded and raised.
LoadFails(c) ==
    /\ call[c].pc = "loading"
    /\ RecordFailure(call[c].on)
    /\ call' = Notified(call[c].on, Returned(c, call))
    /\ UNCHANGED <<clock, source, issued, task, closing, shut, resets, floor,
                   served>>

\* A thread of the executor takes a refresh from its queue.
RefreshStarts(c) ==
    /\ task[c].pc = "queued"
    /\ Cardinality({d \in Calls : task[d].pc \in {"loading", "loaded"}
                                  /\ task[d].pool = task[c].pool}) < RefreshWorkers
    /\ task' = [task EXCEPT ![c].pc = "loading"]
    /\ UNCHANGED <<clock, source, issued, call, entry, lru, closing, shut,
                   resets, floor, served>>

RefreshReads(c) ==
    /\ task[c].pc = "loading"
    /\ task' = [task EXCEPT ![c].pc = "loaded",
                            ![c].read = source[entry[task[c].on].key]]
    /\ UNCHANGED <<clock, source, issued, call, entry, lru, closing, shut,
                   resets, floor, served>>

TaskEnds(c) == task' = [task EXCEPT ![c] = [NoTask EXCEPT !.pc = "done"]]

RefreshSucceeds(c) ==
    /\ task[c].pc = "loaded"
    /\ RecordSuccess(task[c].on, task[c].read)
    /\ call' = Notified(task[c].on, call)
    /\ TaskEnds(c)
    /\ UNCHANGED <<clock, source, issued, closing, shut, resets, floor, served>>

RefreshFails(c) ==
    /\ task[c].pc = "loading"
    /\ RecordFailure(task[c].on)
    /\ call' = Notified(task[c].on, call)
    /\ TaskEnds(c)
    /\ UNCHANGED <<clock, source, issued, closing, shut, resets, floor, served>>
--------------------------------------------------------------------------------
\* invalidate(key), and invalidate_matching with a predicate true of K.
Invalidate(K) ==
    /\ resets < MaxInvalidations
    /\ resets' = resets + 1
    /\ lru' = Without(lru, {e \in Calls : entry[e].key \in K})
    /\ floor' = [k \in Keys |-> IF k \in K THEN source[k] ELSE floor[k]]
    /\ UNCHANGED <<clock, source, issued, call, entry, task, closing, shut, served>>

ClearCompleted == lru' = Without(lru, {e \in Calls : ~entry[e].refreshing})

Clear ==
    /\ resets < MaxInvalidations
    /\ resets' = resets + 1
    /\ ClearCompleted
    /\ UNCHANGED <<clock, source, issued, call, entry, task, closing, shut,
                   floor, served>>

\* close(): detach the executor, wait until its refreshes are done, clear.
CloseStarts ==
    /\ resets < MaxInvalidations /\ ~closing
    /\ resets' = resets + 1
    /\ shut' = shut + 1
    /\ closing' = TRUE
    /\ UNCHANGED <<clock, source, issued, call, entry, lru, task, floor, served>>

CloseEnds ==
    /\ closing
    /\ \A c \in Calls : task[c].pool < shut => task[c].pc \in {"none", "done"}
    /\ closing' = FALSE
    /\ ClearCompleted
    /\ UNCHANGED <<clock, source, issued, call, entry, task, shut, resets,
                   floor, served>>

\* The environment: somebody changes the data, and time passes.
Change(k) ==
    /\ source[k] < MaxChanges
    /\ source' = [source EXCEPT ![k] = @ + 1]
    /\ UNCHANGED <<clock, issued, call, entry, lru, task, closing, shut, resets,
                   floor, served>>

Tick ==
    /\ clock < MaxTime
    /\ clock' = clock + 1
    /\ UNCHANGED <<source, issued, call, entry, lru, task, closing, shut, resets,
                   floor, served>>
--------------------------------------------------------------------------------
CallStep(c) == Wake(c) \/ LoaderReads(c) \/ LoadSucceeds(c) \/ LoadFails(c)
TaskStep(c) ==
    RefreshStarts(c) \/ RefreshReads(c) \/ RefreshSucceeds(c) \/ RefreshFails(c)

Next ==
    \/ \E c \in Calls, k \in Keys, force \in BOOLEAN : Get(c, k, force)
    \/ \E c \in Calls : CallStep(c) \/ TaskStep(c)
    \/ \E K \in SUBSET Keys : Invalidate(K)
    \/ Clear \/ CloseStarts \/ CloseEnds
    \/ \E k \in Keys : Change(k)
    \/ Tick

Spec == Init /\ [][Next]_vars

\* Threads of the process are scheduled, and a loader returns or raises: the
\* provider clients set timeouts.  Nobody has to call the cache again.
Fairness ==
    /\ \A c \in Calls : WF_vars(CallStep(c)) /\ WF_vars(TaskStep(c))
    /\ WF_vars(CloseEnds)

FairSpec == Spec /\ Fairness
--------------------------------------------------------------------------------
\* The flights of an entry: who has promised to take back its refreshing flag.
Flights(e) ==
    {c \in Calls : call[c].on = e /\ call[c].pc \in {"loading", "loaded"}}
Refreshes(e) ==
    {c \in Calls : task[c].on = e /\ task[c].pc \notin {"none", "done"}}

\* The refreshing flag is a lock: an entry that has it has exactly one load
\* under way, blocking or in the background, and an entry without it has none,
\* whatever waiters woke, whatever left the cache meanwhile.
OneFlightPerEntry ==
    \A e \in Calls :
        Cardinality(Flights(e)) + Cardinality(Refreshes(e))
            = (IF entry[e].refreshing THEN 1 ELSE 0)

\* A get() that began after invalidate() returned never sees data that was
\* loaded from the state before it, not even from a load that was under way
\* then and lands afterwards.
InvalidationHolds == served.value >= served.floor

\* max_entries is never exceeded, although an entry that is being loaded is
\* never evicted.
CapacityHolds == Len(lru) <= MaxEntries

\* Every get() returns or raises: no waiter sleeps through its notification
\* and no entry keeps its refreshing flag for good.
GetsEnd ==
    \A c \in Calls : (call[c].pc # "unborn") ~> (call[c].pc = "done")
--------------------------------------------------------------------------------
\* What the properties rest on: what is in use has been issued, an entry has one
\* flight, and nothing that can still be served or read is older than it may be.
Active(c)  == call[c].pc \in {"waiting", "woken", "loading", "loaded"}
Flying(c)  == call[c].pc \in {"loading", "loaded"}
Running(c) == task[c].pc \in {"queued", "loading", "loaded"}

InUse(e) == e \in 1 .. issued /\ entry[e].key \in Keys

Entered ==
    /\ shut <= resets
    /\ Len(lru) <= MaxEntries
    /\ \A e \in Entries : InUse(e)
    /\ \A c \in Calls :
        /\ c > issued => entry[c] = NoEntry /\ ~Active(c) /\ ~Running(c)
        /\ Active(c) => call[c].on \in Calls /\ InUse(call[c].on)
        /\ Running(c) => task[c].on \in Calls /\ InUse(task[c].on)
        /\ call[c].pc = "loaded" => call[c].read \in Versions
        /\ task[c].pc = "loaded" => task[c].read \in Versions

Flown ==
    /\ \A e \in Calls : entry[e].refreshing =>
           \/ \E c \in Calls : Flying(c) /\ call[c].on = e
           \/ \E c \in Calls : Running(c) /\ task[c].on = e
    /\ \A c \in Calls : Flying(c) => entry[call[c].on].refreshing
    /\ \A c \in Calls : Running(c) => entry[task[c].on].refreshing
    /\ \A c, d \in Calls : Flying(c) /\ Flying(d) /\ call[c].on = call[d].on => c = d
    /\ \A c, d \in Calls : Running(c) /\ Running(d) /\ task[c].on = task[d].on => c = d
    /\ \A c, d \in Calls : Flying(c) /\ Running(d) => call[c].on # task[d].on

\* Whatever an entry holds, is being brought or would read is of version low or later.
Since(e, low) ==
    /\ entry[e].value # Missing => low <= entry[e].value
    /\ low <= source[entry[e].key]
    /\ \A d \in Calls : call[d].pc = "loaded" /\ call[d].on = e => low <= call[d].read
    /\ \A d \in Calls : task[d].pc = "loaded" /\ task[d].on = e => low <= task[d].read

Recent ==
    /\ served.floor <= served.value
    /\ \A k \in Keys : floor[k] <= source[k]
    /\ \A c \in Calls : Active(c) => Since(call[c].on, call[c].floor)
    /\ \A e \in Entries : Since(e, floor[entry[e].key])

ValuesInv == TypeOK /\ Entered /\ Flown /\ Recent

\* A list of entries is no longer than the order.
LEMMA ListShrinks ==
    ASSUME TypeOK, NEW s \in Seq(Calls), Distinct(s), Members(s) \subseteq Entries
    PROVE  Len(s) <= Len(lru)
<1>1. /\ IsFiniteSet(Entries) /\ Cardinality(Entries) = Len(lru)
      /\ Cardinality(Members(s)) = Len(s) /\ IsFiniteSet(Members(s))
  BY DistinctLen DEF TypeOK, Entries
<1>2. Cardinality(Members(s)) <= Cardinality(Entries)
  BY <1>1, FS_Subset
<1>3. QED
  BY <1>1, <1>2

\* The entries of the cache are entries that were made.
LEMMA EntriesInUse ==
    ASSUME TypeOK, Entered
    PROVE  \A e \in Entries : e \in Calls /\ InUse(e)
BY DistinctLen DEF TypeOK, Entered, Entries

\* Eviction repeats nothing and brings nothing in.
LEMMA EvictKeeps ==
    ASSUME NEW s \in Seq(Calls), Distinct(s), NEW h
    PROVE  /\ EvictCompleted(s, h) \in Seq(Calls) /\ Distinct(EvictCompleted(s, h))
           /\ Members(EvictCompleted(s, h)) \subseteq Members(s)
<1> DEFINE out == Excess(s, {e \in Calls : ~h[e].refreshing}, MaxEntries)
<1>1. EvictCompleted(s, h) = Without(s, out)
  BY DEF EvictCompleted
<1> HIDE DEF out
<1>2. QED
  BY <1>1, WithoutKeeps

\* A new entry enters a full cache at the cost of an older one, or of its own place.
LEMMA EntryFits ==
    ASSUME PolicyAssumption, TypeOK, Entered, NEW c \in Calls, c \notin Entries,
           NEW h, ~h[c].refreshing
    PROVE  LET s == EvictCompleted(Append(lru, c), h) IN
           /\ s \in Seq(Calls) /\ Distinct(s) /\ Members(s) \subseteq Entries \union {c}
           /\ Len(s) <= MaxEntries
<1> DEFINE a == Append(lru, c)  completed == {e \in Calls : ~h[e].refreshing}
           out == Excess(a, completed, MaxEntries)  s == Without(a, out)
<1>1. a \in Seq(Calls) /\ Distinct(a) /\ Members(a) = Entries \union {c}
  BY AppendKeeps DEF TypeOK, Entries
<1>2. MaxEntries \in Nat /\ c \in completed
  BY DEF PolicyAssumption
<1>3. EvictCompleted(Append(lru, c), h) = s
  BY DEF EvictCompleted
<1> HIDE DEF a, completed
<1>4. Len(s) <= MaxEntries \/ Members(a) \intersect completed = out
  BY <1>1, <1>2, ExcessFits
<1> HIDE DEF out
<1>5. s \in Seq(Calls) /\ Distinct(s) /\ Members(s) = Members(a) \ out
  BY <1>1, WithoutKeeps
<1> HIDE DEF s
<1>6. ASSUME Members(a) \intersect completed = out PROVE Len(s) <= MaxEntries
  <2>1. Members(s) \subseteq Entries
    BY <1>1, <1>2, <1>5, <1>6
  <2>2. Len(s) <= Len(lru) /\ Len(s) \in Nat /\ Len(lru) \in Nat
    BY <1>5, <2>1, ListShrinks, LenProperties DEF TypeOK
  <2>3. QED
    BY <2>2, <1>2 DEF Entered
<1>7. QED
  BY <1>1, <1>3, <1>4, <1>5, <1>6

\* What a get() does, whichever way it leaves the lock.
Arrives(c, k, e) ==
    /\ c \in Calls /\ c = issued + 1 /\ issued' = c /\ e \in 1 .. c
    /\ UNCHANGED <<clock, source, closing, shut, resets, floor>>
    /\ lru' \in Seq(Calls) /\ Distinct(lru') /\ Len(lru') <= MaxEntries
    /\ Entries' \subseteq Entries \union {e}
    /\ entry' \in [Calls -> EntryType] /\ entry'[e].key = k
    /\ \A d \in Calls \ {e} : entry'[d] = entry[d]
    /\ \/ e \in Entries /\ entry[e].key = k /\ entry'[e].value = entry[e].value
       \/ e = c /\ entry'[e].value = Missing
    /\ call' \in [Calls -> CallType] /\ task' \in [Calls -> TaskType]
    /\ \A d \in Calls \ {c} : call'[d] = call[d] /\ task'[d] = task[d]
    /\ call'[c].pc # "done" => call'[c].on = e /\ call'[c].floor = floor[k]
    /\ \/ /\ entry'[e].refreshing = entry[e].refreshing
          /\ call'[c].pc \in {"waiting", "done"} /\ task'[c] = task[c]
       \/ /\ ~entry[e].refreshing /\ entry'[e].refreshing
          /\ call'[c].pc = "loading" /\ task'[c] = task[c]
       \/ /\ ~entry[e].refreshing /\ entry'[e].refreshing
          /\ call'[c].pc = "done" /\ task'[c].pc = "queued" /\ task'[c].on = e
    /\ served' \in SnapshotType
    /\ \/ served' = served
       \/ /\ e \in Entries /\ entry[e].value # Missing
          /\ served'.value = entry[e].value /\ served'.floor = floor[k]

\* The entry a get works with: one of the cache, or a fresh one of its own.
LEMMA EntryForIs ==
    ASSUME PolicyAssumption, CacheBoundsAssumption, ValuesInv,
           NEW c \in Calls, NEW k \in Keys, Enter(c, k)
    PROVE  \E e \in 1 .. c, h \in [Calls -> EntryType] :
             /\ EntryFor(c, k).id = e /\ EntryFor(c, k).heap = h
             /\ c = issued + 1 /\ entry[c] = NoEntry /\ c \notin Entries
             /\ lru' \in Seq(Calls) /\ Distinct(lru') /\ Len(lru') <= MaxEntries
             /\ Entries' \subseteq Entries \union {e}
             /\ h[e].key = k /\ h[e].refreshing = entry[e].refreshing
             /\ \A d \in Calls \ {e} : h[d] = entry[d]
             /\ \/ e \in Entries /\ entry[e].key = k /\ h[e].value = entry[e].value
                \/ e = c /\ h[e].value = Missing
<1>1. /\ c = issued + 1 /\ lru' = Touch(c, k) /\ issued \in Nat
      /\ entry \in [Calls -> EntryType] /\ lru \in Seq(Calls) /\ Distinct(lru)
  BY DEF Enter, ValuesInv, TypeOK
<1>6. \A d \in Entries : d \in 1 .. issued
  BY DEF ValuesInv, Entered, InUse
<1>7. c > issued /\ ~(c <= issued)
  BY <1>1
<1>2. entry[c] = NoEntry /\ c \notin Entries
  BY <1>6, <1>7 DEF ValuesInv, Entered
<1>3. CASE Cached(k) = {}
  <2> DEFINE new == [NoEntry EXCEPT !.key = k]  h == [entry EXCEPT ![c] = new]
  <2>1. new \in EntryType /\ new.key = k /\ new.value = Missing /\ new.refreshing = FALSE
    <3>1. 0 \in Times /\ 0 \in 0 .. MaxTime + RetrySeconds
      BY DEF Times, PolicyAssumption, CacheBoundsAssumption
    <3>2. QED
      BY <3>1 DEF NoEntry, EntryType, Values
  <2>2. EntryFor(c, k).id = c /\ EntryFor(c, k).heap = h
    BY <1>3 DEF EntryFor
  <2>3. lru' = EvictCompleted(Append(lru, c), h)
    BY <1>1, <1>3, <2>2 DEF Touch
  <2>4. /\ h \in [Calls -> EntryType] /\ h[c] = new /\ \A d \in Calls \ {c} : h[d] = entry[d]
    BY <1>1, <2>1
  <2> HIDE DEF new, h
  <2>5. h[c].refreshing = FALSE /\ entry[c].refreshing = FALSE
    BY <1>2, <2>1, <2>4 DEF NoEntry
  <2>6. /\ lru' \in Seq(Calls) /\ Distinct(lru') /\ Len(lru') <= MaxEntries
        /\ Members(lru') \subseteq Entries \union {c}
    BY <1>2, <2>3, <2>5, EntryFits DEF ValuesInv
  <2>7. c \in 1 .. c
    BY DEF Calls
  <2>8. QED
    BY <1>1, <1>2, <2>1, <2>2, <2>4, <2>5, <2>6, <2>7, ZenonT(60) DEF Entries
<1>4. CASE Cached(k) # {}
  <2> DEFINE e == CHOOSE d \in Cached(k) : TRUE
  <2>1. e \in Entries /\ entry[e].key = k
    BY <1>4 DEF Cached
  <2>2. EntryFor(c, k).id = e /\ EntryFor(c, k).heap = entry
    BY <1>4 DEF EntryFor
  <2>3. lru' = MoveToEnd(lru, e)
    BY <1>1, <1>4, <2>2 DEF Touch
  <2> HIDE DEF e
  <2>4. e \in Calls /\ e \in 1 .. c
    BY <1>1, <1>6, <2>1 DEF CacheBoundsAssumption, Calls
  <2>5. lru' \in Seq(Calls) /\ Distinct(lru') /\ Members(lru') = Entries
    <3>1. /\ MoveToEnd(lru, e) \in Seq(Calls) /\ Distinct(MoveToEnd(lru, e))
          /\ Members(MoveToEnd(lru, e)) = Members(lru) \union {e}
      BY <1>1, <2>4, MoveToEndKeeps
    <3>2. QED
      BY <2>1, <2>3, <3>1 DEF Entries
  <2>6. Len(lru') <= Len(lru) /\ Len(lru') \in Nat /\ Len(lru) \in Nat
    BY <1>1, <2>5, ListShrinks, LenProperties DEF ValuesInv
  <2>7. Len(lru') <= MaxEntries
    BY <2>6 DEF ValuesInv, Entered, PolicyAssumption
  <2>8. QED
    BY <1>1, <1>2, <2>1, <2>2, <2>4, <2>5, <2>7 DEF Entries
<1>5. QED
  BY <1>3, <1>4

\* A get arrives at that entry.
LEMMA GetArrives ==
    ASSUME PolicyAssumption, CacheBoundsAssumption, ValuesInv,
           NEW c \in Calls, NEW k \in Keys, NEW force \in BOOLEAN, Get(c, k, force)
    PROVE  \E e \in 1 .. c : Arrives(c, k, e)
<1>1. Enter(c, k)
  BY DEF Get, GetWaits, GetServes, GetBacksOff, GetRefreshes, GetLoads
<1>2. PICK e \in 1 .. c, h \in [Calls -> EntryType] :
             /\ EntryFor(c, k).id = e /\ EntryFor(c, k).heap = h
             /\ c = issued + 1 /\ entry[c] = NoEntry /\ c \notin Entries
             /\ lru' \in Seq(Calls) /\ Distinct(lru') /\ Len(lru') <= MaxEntries
             /\ Entries' \subseteq Entries \union {e}
             /\ h[e].key = k /\ h[e].refreshing = entry[e].refreshing
             /\ \A d \in Calls \ {e} : h[d] = entry[d]
             /\ \/ e \in Entries /\ entry[e].key = k /\ h[e].value = entry[e].value
                \/ e = c /\ h[e].value = Missing
  BY <1>1, EntryForIs
<1>3. /\ issued' = c /\ e \in Calls
      /\ UNCHANGED <<clock, source, closing, shut, resets, floor>>
  <2>1. e \in Calls
    BY <1>2 DEF Calls, CacheBoundsAssumption
  <2>2. QED
    BY <1>1, <2>1 DEF Enter
<1>4. /\ call \in [Calls -> CallType] /\ task \in [Calls -> TaskType]
      /\ h[e] \in EntryType /\ floor[k] \in Versions /\ served \in SnapshotType
      /\ shut \in 0 .. MaxInvalidations
  BY <1>2, <1>3 DEF ValuesInv, TypeOK
<1> DEFINE snap == [value |-> h[e].value, floor |-> floor[k]]
           back == [NoCall EXCEPT !.pc = "done"]
           wait == CallAt(k, force, "waiting", e, floor[k])
           load == CallAt(k, force, "loading", e, floor[k])
           flag == [h EXCEPT ![e].refreshing = TRUE]
           job  == [pc |-> "queued", on |-> e, read |-> Missing, pool |-> shut]
<1>5. /\ back \in CallType /\ back.pc = "done"
      /\ wait \in CallType /\ wait.pc = "waiting" /\ wait.on = e /\ wait.floor = floor[k]
      /\ load \in CallType /\ load.pc = "loading" /\ load.on = e /\ load.floor = floor[k]
      /\ job \in TaskType /\ job.pc = "queued" /\ job.on = e
  <2>1. 0 \in Versions
    BY DEF CacheBoundsAssumption, Versions
  <2>2. QED
    BY <1>3, <1>4, <2>1 DEF CallType, TaskType, NoCall, CallAt, CallStates, TaskStates, Values
<1>6. /\ flag \in [Calls -> EntryType] /\ flag[e].refreshing = TRUE
      /\ flag[e].key = h[e].key /\ flag[e].value = h[e].value
      /\ \A d \in Calls \ {e} : flag[d] = h[d]
  BY <1>3, <1>4 DEF EntryType
<1>7. ASSUME h[e].value # Missing
      PROVE  /\ snap \in SnapshotType /\ e \in Entries /\ entry[e].value # Missing
             /\ snap.value = entry[e].value /\ snap.floor = floor[k]
  BY <1>2, <1>4, <1>7 DEF EntryType, SnapshotType, Values
<1>8. \/ /\ entry' = h /\ call' = [call EXCEPT ![c] = wait] /\ UNCHANGED <<task, served>>
      \/ /\ entry' = h /\ call' = [call EXCEPT ![c] = back] /\ task' = task
         /\ served' = snap /\ h[e].value # Missing
      \/ /\ entry' = flag /\ call' = [call EXCEPT ![c] = back]
         /\ task' = [task EXCEPT ![c] = job]
         /\ served' = snap /\ h[e].value # Missing /\ ~h[e].refreshing
      \/ /\ entry' = flag /\ call' = [call EXCEPT ![c] = load] /\ UNCHANGED <<task, served>>
         /\ ~h[e].refreshing
  <2>1. CASE GetWaits(c, k, force)
    BY <2>1, <1>2 DEF GetWaits
  <2>2. CASE GetServes(c, k, force)
    BY <2>2, <1>2 DEF GetServes, MayServe, Returned, Snapshot
  <2>3. CASE GetBacksOff(c, k, force)
    BY <2>3, <1>2 DEF GetBacksOff, MayServeStale, Returned, Snapshot
  <2>4. CASE GetRefreshes(c, k, force)
    BY <2>4, <1>2 DEF GetRefreshes, MayServeStale, Returned, Snapshot
  <2>5. CASE GetLoads(c, k, force)
    BY <2>5, <1>2 DEF GetLoads, MustLoad
  <2>6. QED
    BY <2>1, <2>2, <2>3, <2>4, <2>5 DEF Get
<1> HIDE DEF snap, back, wait, load, flag, job
<1>9. /\ entry' \in [Calls -> EntryType] /\ entry'[e].key = k /\ entry'[e].value = h[e].value
      /\ \A d \in Calls \ {e} : entry'[d] = entry[d]
  BY <1>2, <1>6, <1>8
<1>10. /\ call' \in [Calls -> CallType] /\ task' \in [Calls -> TaskType]
       /\ \A d \in Calls \ {c} : call'[d] = call[d] /\ task'[d] = task[d]
  BY <1>4, <1>5, <1>8
<1>11. call'[c].pc # "done" => call'[c].on = e /\ call'[c].floor = floor[k]
  BY <1>4, <1>5, <1>8
<1>12. \/ /\ entry'[e].refreshing = entry[e].refreshing
          /\ call'[c].pc \in {"waiting", "done"} /\ task'[c] = task[c]
       \/ /\ ~entry[e].refreshing /\ entry'[e].refreshing
          /\ call'[c].pc = "loading" /\ task'[c] = task[c]
       \/ /\ ~entry[e].refreshing /\ entry'[e].refreshing
          /\ call'[c].pc = "done" /\ task'[c].pc = "queued" /\ task'[c].on = e
  BY <1>2, <1>4, <1>5, <1>6, <1>8
<1>13. /\ served' \in SnapshotType
       /\ \/ served' = served
          \/ /\ e \in Entries /\ entry[e].value # Missing
             /\ served'.value = entry[e].value /\ served'.floor = floor[k]
  BY <1>4, <1>7, <1>8
<1>14. Arrives(c, k, e)
  BY <1>2, <1>3, <1>9, <1>10, <1>11, <1>12, <1>13 DEF Arrives
<1>15. QED
  BY <1>14

\* Where no flag changes and no flight starts or ends, each flag still has its
\* flight.
LEMMA FlightsStay ==
    ASSUME Flown,
           \A d \in Calls : entry'[d].refreshing = entry[d].refreshing,
           \A d \in Calls : (Flying(d)' <=> Flying(d)) /\ (Flying(d) => call'[d].on = call[d].on),
           \A d \in Calls : (Running(d)' <=> Running(d)) /\ (Running(d) => task'[d].on = task[d].on),
           \A d \in Calls : /\ Flying(d) => call[d].on \in Calls
                            /\ Running(d) => task[d].on \in Calls
    PROVE  Flown'
<1>1. ASSUME NEW e \in Calls, entry'[e].refreshing
      PROVE  \/ \E c \in Calls : Flying(c)' /\ call'[c].on = e
             \/ \E c \in Calls : Running(c)' /\ task'[c].on = e
  <2>1. \/ \E c \in Calls : Flying(c) /\ call[c].on = e
        \/ \E c \in Calls : Running(c) /\ task[c].on = e
    BY <1>1 DEF Flown
  <2>2. QED
    BY <2>1
<1>2. /\ \A c \in Calls : Flying(c)' => entry'[call'[c].on].refreshing
      /\ \A c \in Calls : Running(c)' => entry'[task'[c].on].refreshing
  BY DEF Flown
<1>3. /\ \A c, d \in Calls : Flying(c)' /\ Flying(d)' /\ call'[c].on = call'[d].on => c = d
      /\ \A c, d \in Calls : Running(c)' /\ Running(d)' /\ task'[c].on = task'[d].on => c = d
      /\ \A c, d \in Calls : Flying(c)' /\ Running(d)' => call'[c].on # task'[d].on
  BY DEF Flown
<1>4. QED
  BY <1>1, <1>2, <1>3 DEF Flown

\* A flag that is raised has the one flight that starts with it.
LEMMA FlightStarts ==
    ASSUME Flown, NEW e \in Calls, ~entry[e].refreshing, entry'[e].refreshing,
           \A d \in Calls \ {e} : entry'[d].refreshing = entry[d].refreshing,
           \A d \in Calls : /\ Flying(d) => call[d].on \in Calls
                            /\ Running(d) => task[d].on \in Calls,
           NEW c \in Calls,
           \A d \in Calls : Flying(d) => Flying(d)' /\ call'[d].on = call[d].on,
           \A d \in Calls : Running(d) => Running(d)' /\ task'[d].on = task[d].on,
           \/ /\ Flying(c)' /\ call'[c].on = e
              /\ \A d \in Calls : Flying(d)' => Flying(d) \/ d = c
              /\ \A d \in Calls : Running(d)' => Running(d)
           \/ /\ Running(c)' /\ task'[c].on = e
              /\ \A d \in Calls : Running(d)' => Running(d) \/ d = c
              /\ \A d \in Calls : Flying(d)' => Flying(d)
    PROVE  Flown'
<1>1. /\ \A d \in Calls : Flying(d) => call[d].on # e
      /\ \A d \in Calls : Running(d) => task[d].on # e
  BY DEF Flown
<1>2. ASSUME NEW f \in Calls, entry'[f].refreshing
      PROVE  \/ \E d \in Calls : Flying(d)' /\ call'[d].on = f
             \/ \E d \in Calls : Running(d)' /\ task'[d].on = f
  <2>1. CASE f = e
    BY <2>1
  <2>2. CASE f # e
    <3>1. \/ \E d \in Calls : Flying(d) /\ call[d].on = f
          \/ \E d \in Calls : Running(d) /\ task[d].on = f
      BY <1>2, <2>2 DEF Flown
    <3>2. QED
      BY <3>1
  <2>3. QED
    BY <2>1, <2>2
<1>3. \A d \in Calls : /\ Flying(d)' => (Flying(d) /\ call'[d].on = call[d].on) \/ call'[d].on = e
                       /\ Running(d)' => (Running(d) /\ task'[d].on = task[d].on) \/ task'[d].on = e
  OBVIOUS
<1>4. /\ \A d \in Calls : Flying(d)' => entry'[call'[d].on].refreshing
      /\ \A d \in Calls : Running(d)' => entry'[task'[d].on].refreshing
  <2>1. /\ \A d \in Calls : Flying(d) => entry'[call[d].on].refreshing
        /\ \A d \in Calls : Running(d) => entry'[task[d].on].refreshing
    BY <1>1 DEF Flown
  <2>2. QED
    BY <1>3, <2>1
<1>5. /\ \A a, d \in Calls : Flying(a) /\ Flying(d) /\ call[a].on = call[d].on => a = d
      /\ \A a, d \in Calls : Running(a) /\ Running(d) /\ task[a].on = task[d].on => a = d
      /\ \A a, d \in Calls : Flying(a) /\ Running(d) => call[a].on # task[d].on
  BY DEF Flown
<1>6. /\ \A a, d \in Calls : Flying(a)' /\ Flying(d)' /\ call'[a].on = call'[d].on => a = d
      /\ \A a, d \in Calls : Running(a)' /\ Running(d)' /\ task'[a].on = task'[d].on => a = d
      /\ \A a, d \in Calls : Flying(a)' /\ Running(d)' => call'[a].on # task'[d].on
  <2>1. CASE /\ Flying(c)' /\ call'[c].on = e
             /\ \A d \in Calls : Flying(d)' => Flying(d) \/ d = c
             /\ \A d \in Calls : Running(d)' => Running(d)
    BY <2>1, <1>1, <1>5
  <2>2. CASE /\ Running(c)' /\ task'[c].on = e
             /\ \A d \in Calls : Running(d)' => Running(d) \/ d = c
             /\ \A d \in Calls : Flying(d)' => Flying(d)
    BY <2>2, <1>1, <1>5
  <2>3. QED
    BY <2>1, <2>2
<1>7. QED
  BY <1>2, <1>4, <1>6 DEF Flown

\* An arrival keeps the invariant.
LEMMA ArrivalKeeps ==
    ASSUME PolicyAssumption, CacheBoundsAssumption, ValuesInv,
           NEW c, NEW k \in Keys, NEW e, Arrives(c, k, e)
    PROVE  ValuesInv'
<1>1. /\ c \in Calls /\ c = issued + 1 /\ issued' = c /\ e \in 1 .. c /\ e \in Calls
      /\ UNCHANGED <<clock, source, closing, shut, resets, floor>>
      /\ lru' \in Seq(Calls) /\ Distinct(lru') /\ Len(lru') <= MaxEntries
      /\ Entries' \subseteq Entries \union {e}
      /\ entry' \in [Calls -> EntryType] /\ entry'[e].key = k
      /\ \A d \in Calls \ {e} : entry'[d] = entry[d]
      /\ call' \in [Calls -> CallType] /\ task' \in [Calls -> TaskType]
      /\ \A d \in Calls \ {c} : call'[d] = call[d] /\ task'[d] = task[d]
      /\ issued \in Nat /\ MaxCalls \in Nat
  <2>1. c \in Calls /\ e \in 1 .. c /\ MaxCalls \in Nat
    BY DEF Arrives, CacheBoundsAssumption
  <2>2. e \in Calls
    BY <2>1 DEF Calls
  <2>3. issued \in Nat
    BY DEF ValuesInv, TypeOK
  <2>4. QED
    BY <2>1, <2>2, <2>3 DEF Arrives
<1>2. /\ call'[c].pc # "done" => call'[c].on = e /\ call'[c].floor = floor[k]
      /\ call'[c].pc \in {"waiting", "done", "loading"}
      /\ \/ task'[c] = task[c]
         \/ task'[c].pc = "queued" /\ task'[c].on = e
  <2>1. call'[c].pc # "done" => call'[c].on = e /\ call'[c].floor = floor[k]
    BY DEF Arrives
  <2>2. /\ call'[c].pc \in {"waiting", "done", "loading"}
        /\ \/ task'[c] = task[c]
           \/ task'[c].pc = "queued" /\ task'[c].on = e
    BY Zenon DEF Arrives
  <2>3. QED
    BY <2>1, <2>2
<1>3. \/ e \in Entries /\ entry[e].key = k /\ entry'[e].value = entry[e].value /\ e <= issued
      \/ e = c /\ entry'[e].value = Missing /\ e \notin Entries
  <2>1. \A d \in Entries : d \in 1 .. issued
    BY DEF ValuesInv, Entered, InUse
  <2>2. QED
    BY <1>1, <2>1 DEF Arrives
<1>4. entry[c] = NoEntry /\ ~Active(c) /\ ~Running(c)
  BY <1>1 DEF ValuesInv, Entered
<1>5. TypeOK'
  BY <1>1 DEF Arrives, ValuesInv, TypeOK, Calls
<1>6. \A d \in Calls : /\ Active(d) => call[d].on \in Calls /\ InUse(call[d].on)
                       /\ Running(d) => task[d].on \in Calls /\ InUse(task[d].on)
  BY DEF ValuesInv, Entered
<1>7. \A d \in Calls : InUse(d) => InUse(d)' /\ entry'[d].key = entry[d].key
                                   /\ entry'[d].value = entry[d].value
  BY <1>1, <1>3 DEF InUse
<1>8. InUse(e)' /\ c \notin 1 .. issued
  BY <1>1 DEF InUse
<1>9. Entered'
  <2>1. \A d \in Entries' : InUse(d)'
    <3>1. \A d \in Entries : d \in Calls /\ InUse(d)
      BY <1>1 DEF ValuesInv, Entered, InUse, Calls
    <3>2. QED
      BY <1>1, <1>7, <1>8, <3>1
  <2>2. ASSUME NEW d \in Calls, d > issued'
        PROVE  entry'[d] = NoEntry /\ ~Active(d)' /\ ~Running(d)'
    BY <1>1, <2>2 DEF ValuesInv, Entered, Active, Running
  <2>3. ASSUME NEW d \in Calls
        PROVE  /\ Active(d)' => call'[d].on \in Calls /\ InUse(call[d].on)'
               /\ Running(d)' => task'[d].on \in Calls /\ InUse(task[d].on)'
    <3>1. CASE d # c
      <4>1. call'[d] = call[d] /\ task'[d] = task[d]
        BY <3>1, <1>1
      <4>2. (Active(d)' => Active(d)) /\ (Running(d)' => Running(d))
        BY <4>1 DEF Active, Running
      <4>3. QED
        BY <4>1, <4>2, <1>6, <1>7
    <3>2. CASE d = c
      <4>1. Active(c)' => call'[c].on = e
        BY <1>2 DEF Active
      <4>2. Running(c)' => task'[c].on = e
        BY <1>2, <1>4 DEF Running
      <4>3. QED
        BY <3>2, <4>1, <4>2, <1>1, <1>8
    <3>3. QED
      BY <3>1, <3>2
  <2>4. ASSUME NEW d \in Calls
        PROVE  /\ call'[d].pc = "loaded" => call'[d].read \in Versions
               /\ task'[d].pc = "loaded" => task'[d].read \in Versions
    <3>1. /\ call[d].pc = "loaded" => call[d].read \in Versions
          /\ task[d].pc = "loaded" => task[d].read \in Versions
      BY DEF ValuesInv, Entered
    <3>2. QED
      BY <3>1, <1>1, <1>2
  <2>5. shut' <= resets' /\ Len(lru') <= MaxEntries
    BY <1>1 DEF ValuesInv, Entered
  <2>6. QED
    BY <2>1, <2>2, <2>3, <2>4, <2>5 DEF Entered
<1>12. Flown'
  <2>1. /\ \A d \in Calls : Flying(d) => Active(d) /\ d # c /\ call[d].on \in Calls
        /\ \A d \in Calls : Running(d) => d # c /\ task[d].on \in Calls
    BY <1>4, <1>6 DEF Flying, Active
  <2>2. /\ \A d \in Calls : Flying(d) => Flying(d)' /\ call'[d].on = call[d].on
        /\ \A d \in Calls : Running(d) => Running(d)' /\ task'[d].on = task[d].on
        /\ \A d \in Calls : Flying(d)' => Flying(d) \/ d = c
        /\ \A d \in Calls : Running(d)' => Running(d) \/ d = c
    BY <2>1, <1>1 DEF Flying, Running
  <2>3. \A d \in Calls \ {e} : entry'[d].refreshing = entry[d].refreshing
    BY <1>1
  <2>4. Flown
    BY DEF ValuesInv
  <2>5. CASE /\ entry'[e].refreshing = entry[e].refreshing
             /\ call'[c].pc \in {"waiting", "done"} /\ task'[c] = task[c]
    <3>1. ~Flying(c)' /\ ~Running(c)'
      BY <2>5, <1>4 DEF Flying, Running
    <3>2. \A d \in Calls : entry'[d].refreshing = entry[d].refreshing
      BY <2>3, <2>5
    <3>3. /\ \A d \in Calls : (Flying(d)' <=> Flying(d)) /\ (Flying(d) => call'[d].on = call[d].on)
          /\ \A d \in Calls : (Running(d)' <=> Running(d)) /\ (Running(d) => task'[d].on = task[d].on)
      BY <2>2, <3>1
    <3>4. QED
      BY <2>1, <2>4, <3>2, <3>3, FlightsStay
  <2>6. CASE /\ ~entry[e].refreshing /\ entry'[e].refreshing
             /\ call'[c].pc = "loading" /\ task'[c] = task[c]
    <3>1. Flying(c)' /\ call'[c].on = e /\ ~Running(c)'
      BY <2>6, <1>2, <1>4 DEF Flying, Running
    <3>2. \A d \in Calls : Running(d)' => Running(d)
      BY <2>2, <3>1
    <3>3. QED
      BY <1>1, <2>1, <2>2, <2>3, <2>4, <2>6, <3>1, <3>2, FlightStarts
  <2>7. CASE /\ ~entry[e].refreshing /\ entry'[e].refreshing
             /\ call'[c].pc = "done" /\ task'[c].pc = "queued" /\ task'[c].on = e
    <3>1. ~Flying(c)' /\ Running(c)'
      BY <2>7 DEF Flying, Running
    <3>2. \A d \in Calls : Flying(d)' => Flying(d)
      BY <2>2, <3>1
    <3>3. QED
      BY <1>1, <2>1, <2>2, <2>3, <2>4, <2>7, <3>1, <3>2, FlightStarts
  <2>8. QED
    BY <2>5, <2>6, <2>7 DEF Arrives
<1>13. Recent'
  <2>1. /\ \A d \in Calls : call'[d].pc = "loaded" => d # c /\ call'[d] = call[d]
        /\ \A d \in Calls : task'[d].pc = "loaded" => d # c /\ task'[d] = task[d]
    BY <1>1, <1>2, <1>4 DEF Running
  <2>2. ASSUME NEW d \in Calls, InUse(d), NEW low, Since(d, low) PROVE Since(d, low)'
    BY <2>1, <2>2, <1>1, <1>7 DEF Since
  <2>3. ASSUME e = c, e \notin Entries PROVE Since(e, floor[k])'
    <3>1. /\ \A d \in Calls : call[d].pc = "loaded" => call[d].on # c
          /\ \A d \in Calls : task[d].pc = "loaded" => task[d].on # c
      BY <1>6, <1>8 DEF InUse, Active, Running
    <3>2. entry'[e].value = Missing
      BY <1>3, <2>3
    <3>3. QED
      BY <2>1, <2>3, <3>1, <3>2, <1>1 DEF Since, ValuesInv, Recent
  <2>4. ASSUME e \in Entries PROVE Since(e, floor[k])'
    <3>1. InUse(e) /\ entry[e].key = k
      BY <1>3, <2>4 DEF ValuesInv, Entered
    <3>2. Since(e, floor[k])
      BY <2>4, <3>1 DEF ValuesInv, Recent
    <3>3. QED
      BY <3>1, <3>2, <2>2, <1>1
  <2>5. Since(e, floor[k])'
    BY <2>3, <2>4, <1>3
  <2>6. ASSUME NEW d \in Calls, Active(d)' PROVE Since(call[d].on, call[d].floor)'
    <3>1. CASE d = c
      <4>1. call'[d].on = e /\ call'[d].floor = floor[k]
        BY <3>1, <2>6, <1>2 DEF Active
      <4>2. QED
        BY <4>1, <2>5, <1>1 DEF Since
    <3>2. CASE d # c
      <4>1. Active(d) /\ call'[d] = call[d]
        BY <3>2, <2>6, <1>1 DEF Active
      <4>2. Since(call[d].on, call[d].floor) /\ InUse(call[d].on) /\ call[d].on \in Calls
        BY <4>1, <1>6 DEF ValuesInv, Recent
      <4>3. QED
        BY <4>1, <4>2, <2>2
    <3>3. QED
      BY <3>1, <3>2
  <2>7. ASSUME NEW d \in Entries' PROVE Since(d, floor[entry[d].key])'
    <3>1. CASE d = e
      BY <3>1, <2>5, <1>1
    <3>2. CASE d # e
      <4>1. d \in Entries /\ d \in Calls /\ InUse(d)
        BY <3>2, <2>7, <1>1 DEF ValuesInv, Entered, InUse, Calls
      <4>2. Since(d, floor[entry[d].key])
        BY <4>1 DEF ValuesInv, Recent
      <4>3. QED
        BY <4>1, <4>2, <2>2, <1>1, <1>7
    <3>3. QED
      BY <3>1, <3>2
  <2>8. served'.floor <= served'.value
    <3>1. CASE served' = served
      BY <3>1 DEF ValuesInv, Recent
    <3>2. CASE /\ e \in Entries /\ entry[e].value # Missing
               /\ served'.value = entry[e].value /\ served'.floor = floor[k]
      BY <3>2, <1>3 DEF ValuesInv, Recent, Since
    <3>3. QED
      BY <3>1, <3>2 DEF Arrives
  <2>9. QED
    BY <2>6, <2>7, <2>8, <1>1 DEF Recent, ValuesInv
<1>14. QED
  BY <1>5, <1>9, <1>12, <1>13 DEF ValuesInv

\* A call or a refresh goes on: woken, waiting again, taking the flight, reading.
LEMMA WakeKeeps ==
    ASSUME PolicyAssumption, CacheBoundsAssumption, ValuesInv, NEW c \in Calls, Wake(c)
    PROVE  ValuesInv'
<1> DEFINE e == call[c].on
<1>1. /\ call[c].pc = "woken" /\ Active(c) /\ ~Flying(c) /\ e \in Calls /\ InUse(e)
      /\ UNCHANGED <<clock, source, issued, lru, task, closing, shut, resets, floor>>
      /\ Entries' = Entries
  BY DEF Wake, Active, Flying, ValuesInv, Entered, Entries
<1>2. Since(e, call[c].floor)
  BY <1>1 DEF ValuesInv, Recent
<1>3. /\ call \in [Calls -> CallType] /\ entry \in [Calls -> EntryType]
      /\ call[c] \in CallType /\ entry[e] \in EntryType
  BY <1>1 DEF ValuesInv, TypeOK
<1> DEFINE wait == [call[c] EXCEPT !.pc = "waiting"]
           load == [call[c] EXCEPT !.pc = "loading"]
           back == [NoCall EXCEPT !.pc = "done"]
           snap == [value |-> entry[e].value, floor |-> call[c].floor]
           flag == [entry EXCEPT ![e].refreshing = TRUE]
<1>4. /\ wait \in CallType /\ wait.pc = "waiting" /\ wait.on = e /\ wait.floor = call[c].floor
      /\ load \in CallType /\ load.pc = "loading" /\ load.on = e /\ load.floor = call[c].floor
      /\ back \in CallType /\ back.pc = "done"
  <2>1. 0 \in Versions
    BY DEF CacheBoundsAssumption, Versions
  <2>2. QED
    BY <1>3, <2>1 DEF CallType, NoCall, CallStates, Values
<1>5. /\ flag \in [Calls -> EntryType] /\ flag[e].refreshing = TRUE
      /\ flag[e].key = entry[e].key /\ flag[e].value = entry[e].value
      /\ \A d \in Calls \ {e} : flag[d] = entry[d]
  BY <1>1, <1>3 DEF EntryType
<1>6. entry[e].value # Missing => snap \in SnapshotType /\ snap.floor <= snap.value
  BY <1>2, <1>3 DEF SnapshotType, EntryType, CallType, Values, Since
<1>7. \/ call' = [call EXCEPT ![c] = wait] /\ UNCHANGED <<entry, served>>
      \/ /\ served' = snap /\ entry[e].value # Missing
         /\ call' = [call EXCEPT ![c] = back] /\ UNCHANGED entry
      \/ /\ ~entry[e].refreshing /\ entry' = flag
         /\ call' = [call EXCEPT ![c] = load] /\ UNCHANGED served
  <2>1. [call EXCEPT ![c].pc = "waiting"] = [call EXCEPT ![c] = wait]
        /\ [call EXCEPT ![c].pc = "loading"] = [call EXCEPT ![c] = load]
    BY <1>3
  <2>2. QED
    BY <2>1 DEF Wake, Returned, Snapshot
<1> HIDE DEF wait, load, back, snap, flag
<1>8. /\ call' \in [Calls -> CallType] /\ \A d \in Calls \ {c} : call'[d] = call[d]
      /\ call'[c].pc \in {"waiting", "loading", "done"}
      /\ call'[c].pc # "done" => call'[c].on = e /\ call'[c].floor = call[c].floor
      /\ entry' \in [Calls -> EntryType] /\ served' \in SnapshotType
      /\ served'.floor <= served'.value
      /\ \A d \in Calls : entry'[d].key = entry[d].key /\ entry'[d].value = entry[d].value
      /\ \A d \in Calls \ {e} : entry'[d] = entry[d]
  <2>1. served \in SnapshotType /\ served.floor <= served.value
    BY DEF ValuesInv, TypeOK, Recent
  <2>2. CASE call' = [call EXCEPT ![c] = wait] /\ UNCHANGED <<entry, served>>
    BY <2>1, <2>2, <1>3, <1>4
  <2>3. CASE /\ served' = snap /\ entry[e].value # Missing
             /\ call' = [call EXCEPT ![c] = back] /\ UNCHANGED entry
    BY <2>3, <1>3, <1>4, <1>6
  <2>4. CASE /\ ~entry[e].refreshing /\ entry' = flag
             /\ call' = [call EXCEPT ![c] = load] /\ UNCHANGED served
    BY <2>1, <2>4, <1>3, <1>4, <1>5
  <2>5. QED
    BY <1>7, <2>2, <2>3, <2>4
<1>9. \/ call'[c].pc # "loading" /\ UNCHANGED entry
      \/ ~entry[e].refreshing /\ entry'[e].refreshing /\ call'[c].pc = "loading"
  BY <1>3, <1>4, <1>5, <1>7
<1>10. \A d \in Calls : (Active(d)' => Active(d)) /\ (Running(d)' <=> Running(d))
  BY <1>1, <1>8 DEF Active, Running
<1>11. /\ \A d \in Calls : Flying(d) => Flying(d)' /\ call'[d].on = call[d].on
       /\ \A d \in Calls : Flying(d)' => Flying(d) \/ d = c
       /\ \A d \in Calls : Running(d) => Running(d)' /\ task'[d].on = task[d].on
       /\ \A d \in Calls : Running(d)' => Running(d)
  BY <1>1, <1>8 DEF Flying, Running
<1>12. TypeOK'
  BY <1>1, <1>8 DEF ValuesInv, TypeOK
<1>13. c <= issued /\ \A d \in Calls : Active(d)' => call'[d].on = call[d].on /\ call'[d].floor = call[d].floor
  BY <1>1, <1>8 DEF Active, ValuesInv, TypeOK, Entered, Calls
<1>14. Entered'
  <2>1. \A d \in Calls : InUse(d) => InUse(d)'
    BY <1>1, <1>8 DEF InUse
  <2>2. \A d \in Entries' : InUse(d)'
    BY <2>1, <1>1, EntriesInUse DEF ValuesInv
  <2>3. ASSUME NEW d \in Calls, d > issued' PROVE entry'[d] = NoEntry /\ ~Active(d)' /\ ~Running(d)'
    <3>1. d # e /\ d > issued
      BY <2>3, <1>1 DEF InUse, ValuesInv, TypeOK, Calls
    <3>2. QED
      BY <3>1, <1>8, <1>10 DEF ValuesInv, Entered
  <2>4. ASSUME NEW d \in Calls
        PROVE  /\ Active(d)' => call'[d].on \in Calls /\ InUse(call[d].on)'
               /\ Running(d)' => task'[d].on \in Calls /\ InUse(task[d].on)'
    <3>1. /\ Active(d) => call[d].on \in Calls /\ InUse(call[d].on)
          /\ Running(d) => task[d].on \in Calls /\ InUse(task[d].on)
      BY DEF ValuesInv, Entered
    <3>2. QED
      BY <3>1, <2>1, <1>1, <1>10, <1>13
  <2>5. \A d \in Calls : /\ call'[d].pc = "loaded" => call'[d].read \in Versions
                         /\ task'[d].pc = "loaded" => task'[d].read \in Versions
    BY <1>1, <1>8 DEF ValuesInv, Entered
  <2>6. QED
    BY <2>2, <2>3, <2>4, <2>5, <1>1 DEF ValuesInv, Entered
<1>15. Flown'
  <2>1. /\ Flown
        /\ \A d \in Calls : Flying(d) => call[d].on \in Calls
        /\ \A d \in Calls : Running(d) => task[d].on \in Calls
    BY DEF ValuesInv, Entered, Flying, Active
  <2>2. CASE call'[c].pc # "loading" /\ UNCHANGED entry
    <3>1. \A d \in Calls : Flying(d)' <=> Flying(d)
      BY <2>2, <1>1, <1>8, <1>11 DEF Flying
    <3>2. QED
      BY <2>1, <2>2, <3>1, <1>11, FlightsStay
  <2>3. CASE ~entry[e].refreshing /\ entry'[e].refreshing /\ call'[c].pc = "loading"
    <3>1. Flying(c)' /\ call'[c].on = e
      BY <2>3, <1>8 DEF Flying
    <3>2. \A d \in Calls \ {e} : entry'[d].refreshing = entry[d].refreshing
      BY <1>8
    <3> HIDE DEF e
    <3>3. QED
      BY <2>1, <2>3, <3>1, <3>2, <1>1, <1>11, FlightStarts
  <2>4. QED
    BY <1>9, <2>2, <2>3
<1>16. Recent'
  <2>1. \A d \in Calls : call'[d].pc = "loaded" => call'[d] = call[d]
    BY <1>8
  <2>2. ASSUME NEW d \in Calls, NEW low, Since(d, low) PROVE Since(d, low)'
    BY <2>1, <2>2, <1>1, <1>8 DEF Since
  <2>3. \A d \in Entries : d \in Calls
    BY EntriesInUse DEF ValuesInv
  <2>4. ASSUME NEW d \in Calls, Active(d)' PROVE Since(call[d].on, call[d].floor)'
    <3>1. Active(d) /\ call[d].on \in Calls /\ Since(call[d].on, call[d].floor)
      BY <2>4, <1>10 DEF ValuesInv, Entered, Recent
    <3>2. call'[d].on = call[d].on /\ call'[d].floor = call[d].floor
      BY <2>4, <1>13
    <3>3. QED
      BY <3>1, <3>2, <2>2 DEF Since
  <2>5. ASSUME NEW d \in Entries' PROVE Since(d, floor[entry[d].key])'
    BY <2>2, <2>3, <1>1, <1>8 DEF ValuesInv, Recent
  <2>6. QED
    BY <2>4, <2>5, <1>1, <1>8 DEF ValuesInv, Recent
<1>17. QED
  BY <1>12, <1>14, <1>15, <1>16 DEF ValuesInv

\* A loader reads the data, or a thread takes a refresh from its queue.
LEMMA LoaderKeeps ==
    ASSUME PolicyAssumption, CacheBoundsAssumption, ValuesInv, NEW c \in Calls,
           LoaderReads(c) \/ RefreshStarts(c) \/ RefreshReads(c)
    PROVE  ValuesInv'
<1>1. /\ UNCHANGED <<clock, source, issued, entry, lru, closing, shut, resets, floor, served>>
      /\ Entries' = Entries /\ \A d \in Calls : InUse(d)' <=> InUse(d)
      /\ call \in [Calls -> CallType] /\ task \in [Calls -> TaskType]
      /\ source \in [Keys -> Versions]
      /\ call[c] \in CallType /\ task[c] \in TaskType
  BY DEF LoaderReads, RefreshStarts, RefreshReads, Entries, InUse, ValuesInv, TypeOK
<1>2. \A d \in Calls : /\ Active(d) => call[d].on \in Calls /\ InUse(call[d].on)
                       /\ Running(d) => task[d].on \in Calls /\ InUse(task[d].on)
  BY DEF ValuesInv, Entered
<1> DEFINE seen == source[entry[call[c].on].key]  brought == source[entry[task[c].on].key]
           read == [call[c] EXCEPT !.pc = "loaded", !.read = seen]
           took == [task[c] EXCEPT !.pc = "loading"]
           done == [task[c] EXCEPT !.pc = "loaded", !.read = brought]
<1>3. /\ Flying(c) => seen \in Versions
      /\ Running(c) => brought \in Versions
  BY <1>1, <1>2 DEF InUse, Flying, Active
<1>4. /\ Flying(c) => read \in CallType /\ read.pc = "loaded" /\ read.on = call[c].on
                      /\ read.floor = call[c].floor /\ read.read = seen
      /\ took \in TaskType /\ took.pc = "loading" /\ took.on = task[c].on
      /\ Running(c) => done \in TaskType /\ done.pc = "loaded" /\ done.on = task[c].on
                       /\ done.read = brought
  BY <1>1, <1>3 DEF CallType, TaskType, CallStates, TaskStates, Values
<1>5. \/ call[c].pc = "loading" /\ call' = [call EXCEPT ![c] = read] /\ task' = task
      \/ task[c].pc = "queued" /\ task' = [task EXCEPT ![c] = took] /\ call' = call
      \/ task[c].pc = "loading" /\ task' = [task EXCEPT ![c] = done] /\ call' = call
  BY <1>1 DEF LoaderReads, RefreshStarts, RefreshReads
<1> HIDE DEF read, took, done
<1>6. /\ call' \in [Calls -> CallType] /\ task' \in [Calls -> TaskType]
      /\ \A d \in Calls \ {c} : call'[d] = call[d] /\ task'[d] = task[d]
      /\ call'[c].on = call[c].on /\ call'[c].floor = call[c].floor /\ task'[c].on = task[c].on
      /\ \/ call'[c] = call[c]
         \/ call[c].pc = "loading" /\ call'[c].pc = "loaded" /\ call'[c].read = seen
      /\ \/ task'[c] = task[c]
         \/ task[c].pc = "queued" /\ task'[c].pc = "loading"
         \/ task[c].pc = "loading" /\ task'[c].pc = "loaded" /\ task'[c].read = brought
  <2>1. CASE call[c].pc = "loading" /\ call' = [call EXCEPT ![c] = read] /\ task' = task
    BY <2>1, <1>1, <1>4 DEF Flying
  <2>2. CASE task[c].pc = "queued" /\ task' = [task EXCEPT ![c] = took] /\ call' = call
    BY <2>2, <1>1, <1>4
  <2>3. CASE task[c].pc = "loading" /\ task' = [task EXCEPT ![c] = done] /\ call' = call
    BY <2>3, <1>1, <1>4 DEF Running
  <2>4. QED
    BY <1>5, <2>1, <2>2, <2>3
<1> HIDE DEF seen, brought
<1>7. \A d \in Calls : /\ Active(d)' <=> Active(d)
                       /\ Flying(d)' <=> Flying(d)
                       /\ Running(d)' <=> Running(d)
                       /\ call'[d].on = call[d].on /\ call'[d].floor = call[d].floor
                       /\ task'[d].on = task[d].on
  BY <1>6 DEF Active, Flying, Running
<1>8. TypeOK'
  BY <1>1, <1>6 DEF ValuesInv, TypeOK
<1>9. \A d \in Calls : /\ call'[d].pc = "loaded" => call'[d].read \in Versions
                       /\ task'[d].pc = "loaded" => task'[d].read \in Versions
  BY <1>3, <1>6 DEF ValuesInv, Entered, Flying, Running
<1>10. Entered'
  <2>1. \A d \in Entries' : InUse(d)'
    BY <1>1, EntriesInUse DEF ValuesInv
  <2>2. \A d \in Calls : /\ d > issued => entry[d] = NoEntry /\ ~Active(d)' /\ ~Running(d)'
                         /\ Active(d)' => call'[d].on \in Calls /\ InUse(call[d].on)
                         /\ Running(d)' => task'[d].on \in Calls /\ InUse(task[d].on)
    BY <1>2, <1>7 DEF ValuesInv, Entered
  <2>3. \A d \in Calls : /\ Active(d)' => InUse(call[d].on)'
                         /\ Running(d)' => InUse(task[d].on)'
    BY <1>1, <1>2, <1>7, <2>2 DEF InUse
  <2>4. QED
    BY <1>1, <1>9, <2>1, <2>2, <2>3 DEF ValuesInv, Entered
<1>11. Flown'
  <2>1. /\ Flown
        /\ \A d \in Calls : Flying(d) => call[d].on \in Calls
        /\ \A d \in Calls : Running(d) => task[d].on \in Calls
    BY <1>2 DEF ValuesInv, Flying, Active
  <2>2. QED
    BY <2>1, <1>1, <1>7, FlightsStay
<1>12. Recent'
  <2>1. ASSUME NEW d \in Calls, NEW low, Since(d, low) PROVE Since(d, low)'
    <3>1. /\ \A b \in Calls : call'[b].pc = "loaded" /\ call[b].on = d => low <= call'[b].read
          /\ \A b \in Calls : task'[b].pc = "loaded" /\ task[b].on = d => low <= task'[b].read
      BY <2>1, <1>6 DEF Since, seen, brought
    <3>2. QED
      BY <2>1, <3>1, <1>1, <1>7 DEF Since
  <2>2. ASSUME NEW d \in Calls, Active(d)' PROVE Since(call[d].on, call[d].floor)'
    <3>1. call[d].on \in Calls /\ Since(call[d].on, call[d].floor)
      BY <2>2, <1>2, <1>7 DEF ValuesInv, Recent
    <3>2. call'[d].on = call[d].on /\ call'[d].floor = call[d].floor
      BY <1>7
    <3>3. QED
      BY <3>1, <3>2, <2>1 DEF Since
  <2>3. ASSUME NEW d \in Entries' PROVE Since(d, floor[entry[d].key])'
    BY <2>1, <1>1, EntriesInUse DEF ValuesInv, Recent
  <2>4. QED
    BY <2>2, <2>3, <1>1 DEF ValuesInv, Recent
<1>13. QED
  BY <1>8, <1>10, <1>11, <1>12 DEF ValuesInv

\* The steps that touch no call, no refresh and no entry.
LEMMA RestKeeps ==
    ASSUME ValuesInv, TypeOK', UNCHANGED <<issued, entry, call, task, served>>,
           shut' <= resets', Len(lru') <= MaxEntries, Entries' \subseteq Entries,
           \A k \in Keys : source[k] <= source'[k] /\ floor'[k] <= source'[k],
           \A e \in Entries' : floor'[entry[e].key] = floor[entry[e].key]
    PROVE  ValuesInv'
<1>1. \A d \in Calls : /\ InUse(d)' <=> InUse(d)
                       /\ Active(d)' <=> Active(d)
                       /\ Flying(d)' <=> Flying(d)
                       /\ Running(d)' <=> Running(d)
  BY DEF InUse, Active, Flying, Running
<1>2. \A e \in Entries : e \in Calls /\ InUse(e)
  BY EntriesInUse DEF ValuesInv
<1>3. Entered'
  BY <1>1, <1>2 DEF ValuesInv, Entered
<1>4. Flown'
  BY <1>1 DEF ValuesInv, Flown
<1>5. Recent'
  <2>1. ASSUME NEW d \in Calls, InUse(d), NEW low \in Versions, Since(d, low) PROVE Since(d, low)'
    <3>1. low <= source'[entry[d].key]
      <4>1. entry[d].key \in Keys /\ source[entry[d].key] \in Nat /\ source'[entry[d].key] \in Nat
            /\ low \in Nat
        BY <2>1 DEF InUse, ValuesInv, TypeOK, Versions
      <4>2. low <= source[entry[d].key] /\ source[entry[d].key] <= source'[entry[d].key]
        BY <2>1, <4>1 DEF Since
      <4>3. QED
        BY <4>1, <4>2
    <3>2. QED
      BY <2>1, <3>1 DEF Since
  <2>2. ASSUME NEW d \in Calls, Active(d)' PROVE Since(call[d].on, call[d].floor)'
    <3>1. /\ call[d].on \in Calls /\ InUse(call[d].on) /\ Since(call[d].on, call[d].floor)
          /\ call[d].floor \in Versions
      BY <2>2, <1>1 DEF ValuesInv, Entered, Recent, TypeOK, CallType
    <3>2. QED
      BY <3>1, <2>1 DEF Since
  <2>3. ASSUME NEW d \in Entries' PROVE Since(d, floor[entry[d].key])'
    <3>1. /\ d \in Calls /\ InUse(d) /\ Since(d, floor[entry[d].key])
          /\ floor[entry[d].key] \in Versions
      BY <2>3, <1>2 DEF ValuesInv, Recent, TypeOK, InUse
    <3>2. QED
      BY <3>1, <2>1, <2>3 DEF Since
  <2>4. QED
    BY <2>2, <2>3 DEF ValuesInv, Recent
<1>6. QED
  BY <1>3, <1>4, <1>5 DEF ValuesInv

\* Taking keys out of the order leaves the others in it.
LEMMA ShrunkKeeps ==
    ASSUME PolicyAssumption, ValuesInv, NEW S, lru' = Without(lru, S)
    PROVE  /\ lru' \in Seq(Calls) /\ Distinct(lru') /\ Entries' = Entries \ S
           /\ Len(lru') <= MaxEntries
<1>1. lru' \in Seq(Calls) /\ Distinct(lru') /\ Entries' = Entries \ S
  BY WithoutKeeps DEF ValuesInv, TypeOK, Entries
<1>2. Members(lru') \subseteq Entries
  BY <1>1 DEF Entries
<1>3. Len(lru') <= Len(lru) /\ Len(lru') \in Nat /\ Len(lru) \in Nat
  BY <1>1, <1>2, ListShrinks, LenProperties DEF ValuesInv, TypeOK
<1>4. QED
  BY <1>1, <1>3 DEF ValuesInv, Entered, PolicyAssumption

\* Clearing, closing and invalidating keep the invariant.
LEMMA ResetsKeep ==
    ASSUME PolicyAssumption, CacheBoundsAssumption, ValuesInv,
           Clear \/ CloseStarts \/ CloseEnds \/ \E K \in SUBSET Keys : Invalidate(K)
    PROVE  ValuesInv'
<1>1. shut <= resets /\ shut \in Nat /\ resets \in Nat /\ MaxInvalidations \in Nat
  BY DEF ValuesInv, Entered, TypeOK, CacheBoundsAssumption
<1>2. CASE Clear \/ CloseEnds
  <2>1. /\ lru' \in Seq(Calls) /\ Distinct(lru') /\ Entries' \subseteq Entries
        /\ Len(lru') <= MaxEntries
    BY <1>2, ShrunkKeeps DEF Clear, CloseEnds, ClearCompleted
  <2>2. /\ UNCHANGED <<clock, source, issued, entry, call, task, served, floor, shut>>
        /\ resets' \in 0 .. MaxInvalidations /\ shut <= resets' /\ closing' \in BOOLEAN
    <3>1. closing \in BOOLEAN
      BY DEF ValuesInv, TypeOK
    <3>2. CASE Clear
      <4>1. /\ UNCHANGED <<clock, source, issued, entry, call, task, served, floor, shut>>
            /\ resets' = resets + 1 /\ resets < MaxInvalidations
        BY <3>2 DEF Clear
      <4>2. closing' \in BOOLEAN
        BY <3>1, <3>2 DEF Clear
      <4>3. QED
        BY <4>1, <4>2, <1>1
    <3>3. CASE CloseEnds
      <4>1. UNCHANGED <<clock, source, issued, entry, call, task, served, floor, shut, resets>>
        BY <3>3 DEF CloseEnds
      <4>2. closing' \in BOOLEAN
        BY <3>3 DEF CloseEnds
      <4>3. resets \in 0 .. MaxInvalidations
        BY DEF ValuesInv, TypeOK
      <4>4. QED
        BY <4>1, <4>2, <4>3, <1>1
    <3>4. QED
      BY <3>2, <3>3, <1>2
  <2>3. TypeOK'
    BY <2>1, <2>2 DEF ValuesInv, TypeOK
  <2>4. \A k \in Keys : source[k] <= source'[k] /\ floor'[k] <= source'[k]
    BY <2>2 DEF ValuesInv, TypeOK, Recent, Versions
  <2>5. QED
    BY <2>1, <2>2, <2>3, <2>4, RestKeeps
<1>3. CASE CloseStarts
  <2>1. /\ UNCHANGED <<clock, source, issued, entry, call, task, lru, served, floor>>
        /\ resets' = resets + 1 /\ shut' = shut + 1 /\ resets < MaxInvalidations
        /\ closing' = TRUE /\ Entries' = Entries
    BY <1>3 DEF CloseStarts, Entries
  <2>2. /\ {shut', resets'} \subseteq 0 .. MaxInvalidations /\ shut' <= resets'
    BY <1>1, <2>1
  <2>3. TypeOK'
    BY <2>1, <2>2 DEF ValuesInv, TypeOK
  <2>4. \A k \in Keys : source[k] <= source'[k] /\ floor'[k] <= source'[k]
    BY <2>1 DEF ValuesInv, TypeOK, Recent, Versions
  <2>5. Len(lru') <= MaxEntries
    BY <2>1 DEF ValuesInv, Entered
  <2>6. QED
    BY <2>1, <2>2, <2>3, <2>4, <2>5, RestKeeps
<1>4. ASSUME NEW K \in SUBSET Keys, Invalidate(K) PROVE ValuesInv'
  <2> DEFINE out == {e \in Calls : entry[e].key \in K}
  <2>1. /\ UNCHANGED <<clock, source, issued, entry, call, task, served, closing, shut>>
        /\ lru' = Without(lru, out) /\ resets' = resets + 1 /\ resets < MaxInvalidations
        /\ floor' = [k \in Keys |-> IF k \in K THEN source[k] ELSE floor[k]]
    BY <1>4 DEF Invalidate
  <2>2. \A e \in Entries : e \in Calls /\ InUse(e)
    BY EntriesInUse DEF ValuesInv
  <2>3. \A e \in Entries \ out : entry[e].key \in Keys \ K
    BY <2>2 DEF InUse
  <2> HIDE DEF out
  <2>4. /\ lru' \in Seq(Calls) /\ Distinct(lru') /\ Entries' = Entries \ out
        /\ Len(lru') <= MaxEntries
    BY <2>1, ShrunkKeeps
  <2>5. source \in [Keys -> Nat] /\ \A k \in Keys : floor[k] <= source[k]
    BY DEF ValuesInv, TypeOK, Recent, Versions
  <2>6. \A k \in Keys : source[k] <= source'[k] /\ floor'[k] <= source'[k]
    BY <2>1, <2>5
  <2>7. resets' \in 0 .. MaxInvalidations /\ shut' <= resets'
    BY <1>1, <2>1
  <2>8. TypeOK'
    BY <2>1, <2>4, <2>7 DEF ValuesInv, TypeOK
  <2>9. \A e \in Entries' : floor'[entry[e].key] = floor[entry[e].key]
    BY <2>1, <2>3, <2>4
  <2>10. QED
    BY <2>1, <2>4, <2>6, <2>7, <2>8, <2>9, RestKeeps
<1>5. QED
  BY <1>2, <1>3, <1>4

\* So do the clock and a change at the source.
LEMMA WorldKeeps ==
    ASSUME PolicyAssumption, CacheBoundsAssumption, ValuesInv, Tick \/ \E k \in Keys : Change(k)
    PROVE  ValuesInv'
<1>1. /\ UNCHANGED <<issued, call, entry, lru, task, closing, shut, resets, floor, served>>
      /\ Entries' = Entries /\ clock' \in Times
  BY DEF Tick, Change, Entries, ValuesInv, TypeOK, Times, CacheBoundsAssumption
<1>2. source' \in [Keys -> Versions] /\ \A k \in Keys : source[k] <= source'[k]
  <2>1. source \in [Keys -> Versions] /\ MaxChanges \in Nat
    BY DEF ValuesInv, TypeOK, CacheBoundsAssumption
  <2>2. CASE Tick
    BY <2>1, <2>2 DEF Tick, Versions
  <2>3. ASSUME NEW k \in Keys, Change(k)
        PROVE  source' \in [Keys -> Versions] /\ \A j \in Keys : source[j] <= source'[j]
    <3>1. source' = [source EXCEPT ![k] = source[k] + 1] /\ source[k] < MaxChanges
      BY <2>3 DEF Change
    <3>2. source[k] + 1 \in Versions
      BY <2>1, <3>1 DEF Versions
    <3>3. QED
      BY <2>1, <3>1, <3>2 DEF Versions
  <2>4. QED
    BY <2>2, <2>3
<1>3. TypeOK'
  BY <1>1, <1>2 DEF ValuesInv, TypeOK
<1>4. \A k \in Keys : floor'[k] <= source'[k]
  <2> SUFFICES ASSUME NEW k \in Keys PROVE floor[k] <= source'[k]
    BY <1>1
  <2>1. floor[k] \in Nat /\ source[k] \in Nat /\ source'[k] \in Nat /\ floor[k] <= source[k]
    BY <1>2 DEF ValuesInv, TypeOK, Recent, Versions
  <2>2. QED
    BY <2>1, <1>2
<1>5. shut' <= resets' /\ Len(lru') <= MaxEntries
  BY <1>1 DEF ValuesInv, Entered
<1>6. QED
  BY <1>1, <1>2, <1>3, <1>4, <1>5, RestKeeps

\* What the end of a load does to the entry it was for, however it ends.
Lands(e) ==
    /\ e \in Calls /\ InUse(e)
    /\ UNCHANGED <<clock, source, issued, closing, shut, resets, floor>>
    /\ lru' \in Seq(Calls) /\ Distinct(lru') /\ Len(lru') <= MaxEntries
    /\ Entries' \subseteq Entries
    /\ entry' \in [Calls -> EntryType] /\ entry'[e].key = entry[e].key
    /\ ~entry'[e].refreshing
    /\ \A d \in Calls \ {e} : entry'[d] = entry[d]
    /\ \/ entry'[e].value = entry[e].value
       \/ \E d \in Calls : call[d].pc = "loaded" /\ call[d].on = e /\ entry'[e].value = call[d].read
       \/ \E d \in Calls : task[d].pc = "loaded" /\ task[d].on = e /\ entry'[e].value = task[d].read
    /\ call' \in [Calls -> CallType] /\ task' \in [Calls -> TaskType]
    /\ \A d \in Calls :
        \/ call'[d].pc = "done"
        \/ /\ call'[d].on = call[d].on /\ call'[d].floor = call[d].floor
           /\ call'[d].read = call[d].read
           /\ \/ call'[d].pc = call[d].pc
              \/ call[d].pc = "waiting" /\ call'[d].pc = "woken"
    /\ \A d \in Calls : task'[d].pc = "done" \/ task'[d] = task[d]
    /\ \A d \in Calls : Flying(d)' <=> Flying(d) /\ call[d].on # e
    /\ \A d \in Calls : Running(d)' <=> Running(d) /\ task[d].on # e
    /\ served' \in SnapshotType /\ served'.floor <= served'.value

\* So does the end of a flight, its callers notified.
LEMMA LandingKeeps ==
    ASSUME PolicyAssumption, CacheBoundsAssumption, ValuesInv, NEW e, Lands(e)
    PROVE  ValuesInv'
<1>1. /\ e \in Calls /\ InUse(e)
      /\ UNCHANGED <<clock, source, issued, closing, shut, resets, floor>>
      /\ lru' \in Seq(Calls) /\ Distinct(lru') /\ Len(lru') <= MaxEntries
      /\ Entries' \subseteq Entries
      /\ entry' \in [Calls -> EntryType] /\ ~entry'[e].refreshing
      /\ \A d \in Calls \ {e} : entry'[d] = entry[d]
      /\ \A d \in Calls : entry'[d].key = entry[d].key
      /\ call' \in [Calls -> CallType] /\ task' \in [Calls -> TaskType]
      /\ served' \in SnapshotType /\ served'.floor <= served'.value
  BY DEF Lands
<1>2. TypeOK'
  BY <1>1 DEF ValuesInv, TypeOK
<1>3. \A d \in Calls : Active(d)' => Active(d) /\ call'[d].on = call[d].on
                                     /\ call'[d].floor = call[d].floor
  BY DEF Lands, Active
<1>4. \A d \in Calls : Running(d)' => Running(d) /\ task'[d] = task[d] /\ task[d].on # e
  BY DEF Lands, Running
<1>5. \A d \in Calls : Flying(d)' => Flying(d) /\ call[d].on # e /\ call'[d].on = call[d].on
  BY DEF Lands, Flying
<1>6. \A d \in Calls : /\ call'[d].pc = "loaded" =>
                            call[d].pc = "loaded" /\ call'[d].on = call[d].on /\ call'[d].read = call[d].read
                       /\ task'[d].pc = "loaded" => task'[d] = task[d]
  BY DEF Lands
<1>7. \A d \in Calls : InUse(d)' <=> InUse(d)
  BY <1>1 DEF InUse
<1>8. \A d \in Entries : d \in Calls /\ InUse(d)
  BY EntriesInUse DEF ValuesInv
<1>9. Entered'
  <2>1. \A d \in Entries' : InUse(d)'
    BY <1>1, <1>7, <1>8
  <2>2. ASSUME NEW d \in Calls, d > issued
        PROVE  entry'[d] = NoEntry /\ ~Active(d)' /\ ~Running(d)'
    <3>1. d # e
      BY <2>2, <1>1 DEF InUse, ValuesInv, TypeOK, Calls
    <3>2. QED
      BY <2>2, <3>1, <1>1, <1>3, <1>4 DEF ValuesInv, Entered
  <2>3. ASSUME NEW d \in Calls
        PROVE  /\ Active(d)' => call'[d].on \in Calls /\ InUse(call[d].on)'
               /\ Running(d)' => task'[d].on \in Calls /\ InUse(task[d].on)'
    <3>1. /\ Active(d) => call[d].on \in Calls /\ InUse(call[d].on)
          /\ Running(d) => task[d].on \in Calls /\ InUse(task[d].on)
      BY DEF ValuesInv, Entered
    <3>2. QED
      BY <3>1, <1>1, <1>3, <1>4, <1>7 DEF InUse
  <2>4. \A d \in Calls : /\ call'[d].pc = "loaded" => call'[d].read \in Versions
                         /\ task'[d].pc = "loaded" => task'[d].read \in Versions
    BY <1>6 DEF ValuesInv, Entered
  <2>5. shut' <= resets'
    BY <1>1 DEF ValuesInv, Entered
  <2>6. QED
    BY <1>1, <2>1, <2>2, <2>3, <2>4, <2>5 DEF Entered
<1>10. Flown'
  <2>1. ASSUME NEW f \in Calls, entry'[f].refreshing
        PROVE  \/ \E c \in Calls : Flying(c)' /\ call'[c].on = f
               \/ \E c \in Calls : Running(c)' /\ task'[c].on = f
    <3>1. f # e /\ entry[f].refreshing
      BY <2>1, <1>1
    <3>2. \/ \E c \in Calls : Flying(c) /\ call[c].on = f
          \/ \E c \in Calls : Running(c) /\ task[c].on = f
      BY <3>1 DEF ValuesInv, Flown
    <3>3. CASE \E c \in Calls : Flying(c) /\ call[c].on = f
      <4>1. PICK c \in Calls : Flying(c) /\ call[c].on = f
        BY <3>3
      <4>2. Flying(c)'
        BY <3>1, <4>1 DEF Lands
      <4>3. QED
        BY <4>1, <4>2, <1>5
    <3>4. CASE \E c \in Calls : Running(c) /\ task[c].on = f
      <4>1. PICK c \in Calls : Running(c) /\ task[c].on = f
        BY <3>4
      <4>2. Running(c)'
        BY <3>1, <4>1 DEF Lands
      <4>3. QED
        BY <4>1, <4>2, <1>4
    <3>5. QED
      BY <3>2, <3>3, <3>4
  <2>2. ASSUME NEW c \in Calls
        PROVE  /\ Flying(c)' => entry'[call'[c].on].refreshing
               /\ Running(c)' => entry'[task'[c].on].refreshing
    <3>1. /\ Flying(c) => entry[call[c].on].refreshing /\ call[c].on \in Calls
          /\ Running(c) => entry[task[c].on].refreshing /\ task[c].on \in Calls
      BY DEF ValuesInv, Flown, Entered, Flying, Active
    <3>2. QED
      BY <3>1, <1>1, <1>4, <1>5
  <2>3. /\ \A c, d \in Calls : Flying(c)' /\ Flying(d)' /\ call'[c].on = call'[d].on => c = d
        /\ \A c, d \in Calls : Running(c)' /\ Running(d)' /\ task'[c].on = task'[d].on => c = d
        /\ \A c, d \in Calls : Flying(c)' /\ Running(d)' => call'[c].on # task'[d].on
    BY <1>4, <1>5 DEF ValuesInv, Flown
  <2>4. QED
    BY <2>1, <2>2, <2>3 DEF Flown
<1>11. Recent'
  <2>1. ASSUME NEW d \in Calls, NEW low, Since(d, low) PROVE Since(d, low)'
    <3>1. entry'[d].value # Missing => low <= entry'[d].value
      <4>1. CASE d # e
        BY <4>1, <2>1, <1>1 DEF Since
      <4>2. CASE d = e
        BY <4>2, <2>1 DEF Since, Lands
      <4>3. QED
        BY <4>1, <4>2
    <3>2. /\ \A b \in Calls : call'[b].pc = "loaded" /\ call'[b].on = d => low <= call'[b].read
          /\ \A b \in Calls : task'[b].pc = "loaded" /\ task'[b].on = d => low <= task'[b].read
      BY <2>1, <1>6 DEF Since
    <3>3. QED
      BY <2>1, <3>1, <3>2, <1>1 DEF Since
  <2>2. ASSUME NEW d \in Calls, Active(d)' PROVE Since(call[d].on, call[d].floor)'
    <3>1. /\ call[d].on \in Calls /\ Since(call[d].on, call[d].floor)
          /\ call'[d].on = call[d].on /\ call'[d].floor = call[d].floor
      BY <2>2, <1>3 DEF ValuesInv, Entered, Recent
    <3>2. QED
      BY <3>1, <2>1 DEF Since
  <2>3. ASSUME NEW d \in Entries' PROVE Since(d, floor[entry[d].key])'
    <3>1. d \in Calls /\ Since(d, floor[entry[d].key])
      BY <2>3, <1>1, <1>8 DEF ValuesInv, Recent
    <3>2. QED
      BY <3>1, <2>1, <1>1 DEF Since
  <2>4. QED
    BY <2>2, <2>3, <1>1 DEF ValuesInv, Recent
<1>12. QED
  BY <1>2, <1>9, <1>10, <1>11 DEF ValuesInv

\* Notifying wakes those who wait and changes nothing else of a call.
LEMMA Notices ==
    ASSUME NEW cl \in [Calls -> CallType], NEW e
    PROVE  /\ Notified(e, cl) \in [Calls -> CallType]
           /\ \A d \in Calls :
                /\ Notified(e, cl)[d].on = cl[d].on /\ Notified(e, cl)[d].floor = cl[d].floor
                /\ Notified(e, cl)[d].read = cl[d].read
                /\ \/ Notified(e, cl)[d].pc = cl[d].pc
                   \/ cl[d].pc = "waiting" /\ Notified(e, cl)[d].pc = "woken"
<1> DEFINE woken(d) == [cl[d] EXCEPT !.pc = "woken"]
<1>1. ASSUME NEW d \in Calls
      PROVE  /\ woken(d) \in CallType /\ woken(d).pc = "woken" /\ woken(d).on = cl[d].on
             /\ woken(d).floor = cl[d].floor /\ woken(d).read = cl[d].read
  <2>1. cl[d] \in CallType
    OBVIOUS
  <2>2. QED
    BY <2>1 DEF CallType, CallStates
<1>2. \A d \in Calls : \/ Notified(e, cl)[d] = cl[d]
                       \/ cl[d].pc = "waiting" /\ Notified(e, cl)[d] = woken(d)
  BY DEF Notified
<1>3. DOMAIN Notified(e, cl) = Calls /\ Notified(e, cl) = [d \in Calls |-> Notified(e, cl)[d]]
  BY DEF Notified
<1> HIDE DEF woken
<1>4. QED
  BY <1>1, <1>2, <1>3

\* _record_success and _record_failure keep the cache within its size.
LEMMA RecordKeeps ==
    ASSUME PolicyAssumption, CacheBoundsAssumption, ValuesInv, NEW e \in Calls,
           NEW v \in Versions, RecordSuccess(e, v) \/ RecordFailure(e)
    PROVE  /\ lru' \in Seq(Calls) /\ Distinct(lru') /\ Len(lru') <= MaxEntries
           /\ Entries' \subseteq Entries
           /\ entry' \in [Calls -> EntryType] /\ entry'[e].key = entry[e].key
           /\ entry'[e].refreshing = FALSE
           /\ \A d \in Calls \ {e} : entry'[d] = entry[d]
           /\ RecordSuccess(e, v) => entry'[e].value = v
           /\ RecordFailure(e) => entry'[e].value = entry[e].value
<1>1. /\ entry \in [Calls -> EntryType] /\ entry[e] \in EntryType
      /\ lru \in Seq(Calls) /\ Distinct(lru) /\ Len(lru) \in Nat /\ clock \in Times
      /\ MaxEntries \in Nat /\ Len(lru) <= MaxEntries
  BY LenProperties DEF ValuesInv, TypeOK, Entered, PolicyAssumption
<1>2. clock + RetrySeconds \in 0 .. MaxTime + RetrySeconds /\ 0 \in 0 .. MaxTime + RetrySeconds
  BY <1>1 DEF Times, PolicyAssumption, CacheBoundsAssumption
<1>3. CASE RecordSuccess(e, v)
  <2> DEFINE new == [entry[e] EXCEPT !.value = v, !.loadedAt = clock, !.refreshing = FALSE, !.retryAt = 0]
             h == [entry EXCEPT ![e] = new]
             s == IF e \in Entries THEN MoveToEnd(lru, e) ELSE lru
  <2>1. /\ new \in EntryType /\ new.key = entry[e].key /\ new.value = v /\ new.refreshing = FALSE
    BY <1>1, <1>2 DEF EntryType, Values
  <2>2. [entry EXCEPT ![e].value = v, ![e].loadedAt = clock,
                      ![e].refreshing = FALSE, ![e].retryAt = 0] = h
    BY <1>1
  <2>3. entry' = h /\ lru' = EvictCompleted(s, h)
    BY <1>3, <2>2 DEF RecordSuccess
  <2> HIDE DEF new
  <2>4. /\ entry' \in [Calls -> EntryType] /\ entry'[e] = new
        /\ \A d \in Calls \ {e} : entry'[d] = entry[d]
    BY <1>1, <2>1, <2>3
  <2>5. s \in Seq(Calls) /\ Distinct(s) /\ Members(s) \subseteq Entries
    <3>1. /\ MoveToEnd(lru, e) \in Seq(Calls) /\ Distinct(MoveToEnd(lru, e))
          /\ Members(MoveToEnd(lru, e)) = Members(lru) \union {e}
      BY <1>1, MoveToEndKeeps
    <3>2. QED
      BY <1>1, <3>1 DEF Entries
  <2> HIDE DEF s, h
  <2>6. lru' \in Seq(Calls) /\ Distinct(lru') /\ Members(lru') \subseteq Entries
    BY <2>3, <2>5, EvictKeeps
  <2>7. Len(lru') <= MaxEntries
    <3>1. Len(lru') <= Len(lru) /\ Len(lru') \in Nat
      BY <2>6, ListShrinks, LenProperties DEF ValuesInv
    <3>2. QED
      BY <3>1, <1>1
  <2>8. RecordFailure(e) => entry'[e].value = entry[e].value
    <3>1. RecordFailure(e) => entry'[e] = [entry[e] EXCEPT !.refreshing = FALSE, !.retryAt = clock + RetrySeconds]
      BY <1>1 DEF RecordFailure
    <3>2. QED
      BY <3>1, <1>1 DEF EntryType
  <2>9. QED
    BY <2>1, <2>4, <2>6, <2>7, <2>8, <1>3 DEF Entries
<1>4. CASE RecordFailure(e) /\ ~RecordSuccess(e, v)
  <2> DEFINE new == [entry[e] EXCEPT !.refreshing = FALSE, !.retryAt = clock + RetrySeconds]
  <2>1. /\ new \in EntryType /\ new.key = entry[e].key /\ new.value = entry[e].value
        /\ new.refreshing = FALSE
    BY <1>1, <1>2 DEF EntryType
  <2>2. entry' = [entry EXCEPT ![e] = new] /\ lru' = lru
    BY <1>1, <1>4 DEF RecordFailure
  <2> HIDE DEF new
  <2>3. QED
    BY <1>1, <1>4, <2>1, <2>2 DEF Entries
<1>5. QED
  BY <1>3, <1>4

\* A load that a call made itself lands on its entry.
LEMMA LoadLands ==
    ASSUME PolicyAssumption, CacheBoundsAssumption, ValuesInv, NEW c \in Calls,
           LoadSucceeds(c) \/ LoadFails(c)
    PROVE  Lands(call[c].on)
<1> DEFINE e == call[c].on
           back == [NoCall EXCEPT !.pc = "done"]  cl == [call EXCEPT ![c] = back]
<1>1. /\ Flying(c) /\ call[c].pc \in {"loading", "loaded"} /\ call \in [Calls -> CallType]
      /\ UNCHANGED <<clock, source, issued, task, closing, shut, resets, floor>>
      /\ call' = Notified(e, cl)
  BY DEF LoadSucceeds, LoadFails, Flying, Returned, ValuesInv, TypeOK
<1>2. /\ e \in Calls /\ InUse(e) /\ Active(c)
      /\ call[c].pc = "loaded" => call[c].read \in Versions
      /\ call[c].floor \in Versions /\ 0 \in Versions
  BY <1>1 DEF ValuesInv, Entered, Flying, Active, CallType, Versions, CacheBoundsAssumption
<1>3. back \in CallType /\ back.pc = "done"
  BY <1>2 DEF NoCall, CallType, CallStates, Values
<1> HIDE DEF back
<1>4. cl \in [Calls -> CallType] /\ cl[c].pc = "done" /\ \A d \in Calls \ {c} : cl[d] = call[d]
  BY <1>1, <1>3
<1> HIDE DEF cl
<1>5. /\ call' \in [Calls -> CallType] /\ call'[c].pc = "done"
      /\ \A d \in Calls \ {c} :
            /\ call'[d].on = call[d].on /\ call'[d].floor = call[d].floor
            /\ call'[d].read = call[d].read
            /\ \/ call'[d].pc = call[d].pc
               \/ call[d].pc = "waiting" /\ call'[d].pc = "woken"
  <2> DEFINE n == Notified(e, cl)
  <2>1. /\ n \in [Calls -> CallType]
        /\ \A d \in Calls : /\ n[d].on = cl[d].on /\ n[d].floor = cl[d].floor /\ n[d].read = cl[d].read
                            /\ \/ n[d].pc = cl[d].pc
                               \/ cl[d].pc = "waiting" /\ n[d].pc = "woken"
    BY <1>4, Notices
  <2>2. call' = n
    BY <1>1
  <2> HIDE DEF n, e
  <2>3. QED
    BY <1>4, <2>1, <2>2
<1>6. \E v \in Versions :
        /\ RecordSuccess(e, v) \/ RecordFailure(e)
        /\ RecordSuccess(e, v) /\ ~RecordFailure(e) => call[c].pc = "loaded" /\ v = call[c].read
  <2>1. CASE LoadSucceeds(c)
    BY <2>1, <1>2 DEF LoadSucceeds
  <2>2. CASE LoadFails(c)
    BY <2>2, <1>2 DEF LoadFails
  <2>3. QED
    BY <2>1, <2>2
<1>7. /\ lru' \in Seq(Calls) /\ Distinct(lru') /\ Len(lru') <= MaxEntries
      /\ Entries' \subseteq Entries
      /\ entry' \in [Calls -> EntryType] /\ entry'[e].key = entry[e].key
      /\ entry'[e].refreshing = FALSE
      /\ \A d \in Calls \ {e} : entry'[d] = entry[d]
      /\ \/ entry'[e].value = entry[e].value
         \/ call[c].pc = "loaded" /\ entry'[e].value = call[c].read
  BY <1>2, <1>6, RecordKeeps
<1>8. /\ Flown
      /\ \A d \in Calls : Flying(d) => call[d].on \in Calls
  BY DEF ValuesInv, Entered, Flying, Active
<1>9. \A d \in Calls : Flying(d)' <=> Flying(d) /\ call[d].on # e
  <2>1. \A d \in Calls : Flying(d) /\ call[d].on = e => d = c
    BY <1>1, <1>8 DEF Flown
  <2>2. ~Flying(c)' /\ \A d \in Calls \ {c} : Flying(d)' <=> Flying(d)
    BY <1>5 DEF Flying
  <2>3. QED
    BY <2>1, <2>2
<1>10. \A d \in Calls : Running(d)' <=> Running(d) /\ task[d].on # e
  BY <1>1, <1>8 DEF Flown, Running
<1>11. served' \in SnapshotType /\ served'.floor <= served'.value
  <2>1. CASE LoadSucceeds(c)
    <3>1. /\ call[c].pc = "loaded" /\ RecordSuccess(e, call[c].read)
          /\ served' = [value |-> entry'[e].value, floor |-> call[c].floor]
      BY <2>1 DEF LoadSucceeds, Snapshot
    <3>2. entry'[e].value = call[c].read /\ call[c].read \in Versions
      BY <3>1, <1>2, RecordKeeps
    <3>3. call[c].floor <= call[c].read
      BY <3>1, <1>1, <1>2 DEF ValuesInv, Recent, Since
    <3>4. QED
      BY <3>1, <3>2, <3>3, <1>2 DEF SnapshotType
  <2>2. CASE LoadFails(c)
    BY <2>2 DEF LoadFails, ValuesInv, TypeOK, Recent
  <2>3. QED
    BY <2>1, <2>2
<1>12. task' = task /\ task' \in [Calls -> TaskType]
  BY <1>1 DEF ValuesInv, TypeOK
<1> HIDE DEF e
<1>13. \/ entry'[e].value = entry[e].value
       \/ \E d \in Calls : call[d].pc = "loaded" /\ call[d].on = e /\ entry'[e].value = call[d].read
  BY <1>7 DEF e
<1>14. Lands(e)
  BY <1>1, <1>2, <1>5, <1>7, <1>9, <1>10, <1>11, <1>12, <1>13 DEF Lands
<1>15. QED
  BY <1>14 DEF e

\* A refresh in the background lands on its entry.
LEMMA RefreshLands ==
    ASSUME PolicyAssumption, CacheBoundsAssumption, ValuesInv, NEW c \in Calls,
           RefreshSucceeds(c) \/ RefreshFails(c)
    PROVE  Lands(task[c].on)
<1> DEFINE e == task[c].on
           back == [NoTask EXCEPT !.pc = "done"]
<1>1. /\ Running(c) /\ call \in [Calls -> CallType] /\ task \in [Calls -> TaskType]
      /\ UNCHANGED <<clock, source, issued, closing, shut, resets, floor, served>>
      /\ call' = Notified(e, call) /\ task' = [task EXCEPT ![c] = back]
  BY DEF RefreshSucceeds, RefreshFails, Running, TaskEnds, ValuesInv, TypeOK
<1>2. /\ e \in Calls /\ InUse(e)
      /\ task[c].pc = "loaded" => task[c].read \in Versions
      /\ 0 \in Versions
  BY <1>1 DEF ValuesInv, Entered, Versions, CacheBoundsAssumption
<1>3. back \in TaskType /\ back.pc = "done"
  BY DEF NoTask, TaskType, TaskStates, Values, CacheBoundsAssumption
<1> HIDE DEF back
<1>4. /\ task' \in [Calls -> TaskType] /\ task'[c].pc = "done"
      /\ \A d \in Calls \ {c} : task'[d] = task[d]
  BY <1>1, <1>3
<1>5. /\ call' \in [Calls -> CallType]
      /\ \A d \in Calls :
            /\ call'[d].on = call[d].on /\ call'[d].floor = call[d].floor
            /\ call'[d].read = call[d].read
            /\ \/ call'[d].pc = call[d].pc
               \/ call[d].pc = "waiting" /\ call'[d].pc = "woken"
  <2> DEFINE n == Notified(e, call)
  <2>1. /\ n \in [Calls -> CallType]
        /\ \A d \in Calls : /\ n[d].on = call[d].on /\ n[d].floor = call[d].floor
                            /\ n[d].read = call[d].read
                            /\ \/ n[d].pc = call[d].pc
                               \/ call[d].pc = "waiting" /\ n[d].pc = "woken"
    BY <1>1, Notices
  <2>2. call' = n
    BY <1>1
  <2> HIDE DEF n, e
  <2>3. QED
    BY <2>1, <2>2
<1>6. \E v \in Versions :
        /\ RecordSuccess(e, v) \/ RecordFailure(e)
        /\ RecordSuccess(e, v) /\ ~RecordFailure(e) => task[c].pc = "loaded" /\ v = task[c].read
  <2>1. CASE RefreshSucceeds(c)
    BY <2>1, <1>2 DEF RefreshSucceeds
  <2>2. CASE RefreshFails(c)
    BY <2>2, <1>2 DEF RefreshFails
  <2>3. QED
    BY <2>1, <2>2
<1>7. /\ lru' \in Seq(Calls) /\ Distinct(lru') /\ Len(lru') <= MaxEntries
      /\ Entries' \subseteq Entries
      /\ entry' \in [Calls -> EntryType] /\ entry'[e].key = entry[e].key
      /\ entry'[e].refreshing = FALSE
      /\ \A d \in Calls \ {e} : entry'[d] = entry[d]
      /\ \/ entry'[e].value = entry[e].value
         \/ task[c].pc = "loaded" /\ entry'[e].value = task[c].read
  BY <1>2, <1>6, RecordKeeps
<1>8. Flown
  BY DEF ValuesInv
<1>9. \A d \in Calls : Running(d)' <=> Running(d) /\ task[d].on # e
  <2>1. \A d \in Calls : Running(d) /\ task[d].on = e => d = c
    BY <1>1, <1>8 DEF Flown
  <2>2. ~Running(c)' /\ \A d \in Calls \ {c} : Running(d)' <=> Running(d)
    BY <1>4 DEF Running
  <2>3. QED
    BY <2>1, <2>2
<1>10. \A d \in Calls : Flying(d)' <=> Flying(d) /\ call[d].on # e
  <2>1. \A d \in Calls : Flying(d) => call[d].on # e
    BY <1>1, <1>8 DEF Flown
  <2>2. \A d \in Calls : Flying(d)' <=> Flying(d)
    BY <1>5 DEF Flying
  <2>3. QED
    BY <2>1, <2>2
<1>11. served' \in SnapshotType /\ served'.floor <= served'.value
  BY <1>1 DEF ValuesInv, TypeOK, Recent
<1> HIDE DEF e
<1>12. \/ entry'[e].value = entry[e].value
       \/ \E d \in Calls : task[d].pc = "loaded" /\ task[d].on = e /\ entry'[e].value = task[d].read
  BY <1>7 DEF e
<1>13. Lands(e)
  BY <1>1, <1>2, <1>4, <1>5, <1>7, <1>9, <1>10, <1>11, <1>12 DEF Lands
<1>14. QED
  BY <1>13 DEF e

\* The invariant holds of an empty cache.
LEMMA ValuesStart ==
    ASSUME PolicyAssumption, CacheBoundsAssumption, Init
    PROVE  ValuesInv
<1>1. << >> \in Seq(Calls) /\ DOMAIN << >> = {} /\ Len(<< >>) = 0
  BY EmptySeq, LenProperties
<1>2. lru \in Seq(Calls) /\ Distinct(lru) /\ Entries = {} /\ Len(lru) = 0
  BY <1>1 DEF Init, Distinct, Members, Entries
<1>3. NoCall \in CallType /\ NoTask \in TaskType /\ NoEntry \in EntryType
  BY DEF NoCall, CallType, CallStates, NoTask, TaskType, TaskStates, NoEntry, EntryType,
         Values, Versions, Times, PolicyAssumption, CacheBoundsAssumption
<1>4. TypeOK
  <2>1. /\ 0 \in Versions /\ 0 \in Times /\ 0 \in 0 .. MaxCalls /\ 0 \in 0 .. MaxInvalidations
    BY DEF Versions, Times, CacheBoundsAssumption
  <2>2. closing \in BOOLEAN
    BY DEF Init
  <2>3. served \in SnapshotType
    BY <2>1 DEF Init, SnapshotType
  <2>4. QED
    BY <1>2, <1>3, <2>1, <2>2, <2>3 DEF Init, TypeOK
<1>5. \A c \in Calls : call[c].pc = "unborn" /\ task[c].pc = "none" /\ entry[c] = NoEntry
  BY DEF Init, NoCall, NoTask
<1>6. \A c \in Calls : /\ ~Active(c) /\ ~Flying(c) /\ ~Running(c) /\ entry[c].refreshing = FALSE
                       /\ call[c].pc # "loaded" /\ task[c].pc # "loaded"
  BY <1>5 DEF Active, Flying, Running, NoEntry
<1>7. Entered
  BY <1>2, <1>5, <1>6 DEF Init, Entered, PolicyAssumption
<1>8. Flown
  BY <1>6 DEF Flown
<1>9. Recent
  BY <1>2, <1>6 DEF Init, Recent
<1>10. QED
  BY <1>4, <1>7, <1>8, <1>9 DEF ValuesInv

\* Every step keeps it.
LEMMA ValuesStep ==
    ASSUME PolicyAssumption, CacheBoundsAssumption, ValuesInv, [Next]_vars
    PROVE  ValuesInv'
<1>1. ASSUME NEW c \in Calls, NEW k \in Keys, NEW force \in BOOLEAN, Get(c, k, force)
      PROVE  ValuesInv'
  BY <1>1, GetArrives, ArrivalKeeps
<1>2. ASSUME NEW c \in Calls, CallStep(c) PROVE ValuesInv'
  BY <1>2, WakeKeeps, LoaderKeeps, LoadLands, LandingKeeps DEF CallStep
<1>3. ASSUME NEW c \in Calls, TaskStep(c) PROVE ValuesInv'
  BY <1>3, LoaderKeeps, RefreshLands, LandingKeeps DEF TaskStep
<1>4. CASE UNCHANGED vars
  BY <1>4 DEF vars, ValuesInv, TypeOK, Entered, Flown, Recent, Since, Entries, InUse,
              Active, Flying, Running
<1>5. QED
  BY <1>1, <1>2, <1>3, <1>4, ResetsKeep, WorldKeeps DEF Next

\* What the invariant is for.
LEMMA ValuesHold ==
    ASSUME CacheBoundsAssumption, ValuesInv
    PROVE  TypeOK /\ OneFlightPerEntry /\ InvalidationHolds /\ CapacityHolds
<1>1. TypeOK /\ CapacityHolds
  BY DEF ValuesInv, Entered, CapacityHolds
<1>2. InvalidationHolds
  <2>1. served \in SnapshotType /\ served.floor <= served.value
    BY DEF ValuesInv, TypeOK, Recent
  <2>2. served.floor \in Nat /\ served.value \in Nat
    BY <2>1 DEF SnapshotType, Versions
  <2>3. QED
    BY <2>1, <2>2 DEF InvalidationHolds
<1>3. ASSUME NEW e \in Calls
      PROVE  Cardinality(Flights(e)) + Cardinality(Refreshes(e))
                 = (IF entry[e].refreshing THEN 1 ELSE 0)
  <2>1. /\ Flights(e) = {c \in Calls : Flying(c) /\ call[c].on = e}
        /\ Refreshes(e) = {c \in Calls : Running(c) /\ task[c].on = e}
    <3>1. \A c \in Calls : task[c].pc \notin {"none", "done"} <=> Running(c)
      BY DEF Running, ValuesInv, TypeOK, TaskType, TaskStates
    <3>2. QED
      BY <3>1 DEF Flights, Refreshes, Flying
  <2>2. Flown
    BY DEF ValuesInv
  <2>3. CASE ~entry[e].refreshing
    <3>1. Flights(e) = {} /\ Refreshes(e) = {}
      BY <2>1, <2>2, <2>3 DEF Flown
    <3>2. QED
      BY <2>3, <3>1, FS_EmptySet
  <2>4. CASE entry[e].refreshing /\ \E c \in Calls : Flying(c) /\ call[c].on = e
    <3>1. PICK c \in Calls : Flying(c) /\ call[c].on = e
      BY <2>4
    <3>2. Flights(e) = {c}
      BY <2>1, <2>2, <3>1 DEF Flown
    <3>4. Refreshes(e) = {}
      BY <2>1, <2>2, <3>1 DEF Flown
    <3>3. QED
      <4>1. Cardinality(Flights(e)) = 1 /\ Cardinality(Refreshes(e)) = 0
        BY <3>2, <3>4, FS_EmptySet, FS_Singleton
      <4>2. QED
        BY <2>4, <4>1
  <2>5. CASE entry[e].refreshing /\ \E c \in Calls : Running(c) /\ task[c].on = e
    <3>1. PICK c \in Calls : Running(c) /\ task[c].on = e
      BY <2>5
    <3>2. Flights(e) = {}
      BY <2>1, <2>2, <3>1 DEF Flown
    <3>4. Refreshes(e) = {c}
      BY <2>1, <2>2, <3>1 DEF Flown
    <3>3. QED
      <4>1. Cardinality(Flights(e)) = 0 /\ Cardinality(Refreshes(e)) = 1
        BY <3>2, <3>4, FS_EmptySet, FS_Singleton
      <4>2. QED
        BY <2>5, <4>1
  <2>6. QED
    BY <2>2, <2>3, <2>4, <2>5 DEF Flown
<1>4. QED
  BY <1>1, <1>2, <1>3 DEF OneFlightPerEntry

\* For any keys, policy, capacity and number of calls, an entry has one load
\* under way exactly while it is marked, nobody is served what was invalidated
\* before the call began, and the cache never exceeds its size.
THEOREM ValuesAreCurrent ==
    ASSUME PolicyAssumption, CacheBoundsAssumption
    PROVE  Spec => [](TypeOK /\ OneFlightPerEntry /\ InvalidationHolds /\ CapacityHolds)
<1>1. Init => ValuesInv
  BY ValuesStart
<1>2. ValuesInv /\ [Next]_vars => ValuesInv'
  BY ValuesStep
<1>3. ValuesInv => TypeOK /\ OneFlightPerEntry /\ InvalidationHolds /\ CapacityHolds
  BY ValuesHold
<1>4. QED
  BY <1>1, <1>2, <1>3, PTL DEF Spec
================================================================================
