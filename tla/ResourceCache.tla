----------------------------- MODULE ResourceCache -----------------------------
(***************************************************************************)
(* The bounded cache of provider clients in app/cache/resources.py: one    *)
(* client per connection configuration, built outside the lock by the      *)
(* first caller, awaited by the others through a Future, and closed when   *)
(* the cache lets go of it.                                                *)
(*                                                                         *)
(* One step is one critical section of the cache's lock or one operation   *)
(* on a Future.  Calls of get_or_create() are numbered, and the Future a   *)
(* call inserts carries its number.  A Future counts how often its         *)
(* resource was closed.                                                    *)
(***************************************************************************)
EXTENDS ListOrder

CONSTANTS
    Keys,
    NoKey,
    MaxEntries,   \* max_entries of the constructor
    MaxCalls,     \* bound on the calls of get_or_create()
    MaxDrops      \* bound on the calls of invalidate() and close_all()

ResourceBoundsAssumption ==
    /\ MaxEntries \in Nat \ {0}
    /\ {MaxCalls, MaxDrops} \subseteq Nat
    /\ NoKey \notin Keys

Calls == 1 .. MaxCalls

VARIABLES
    issued,    \* calls of get_or_create() made so far
    pc,        \* where a call is
    key,       \* the key a call asked for
    awaits,    \* the Future a call found or inserted
    future,    \* state of the Future a call inserted
    closed,    \* how often close() of its resource ran
    lru,       \* self._entries: Futures from least to most recently used
    detached,  \* Futures a call of get_or_create() took out and must close
    dropped,   \* Futures invalidate() or close_all() took out and must close
    onDone,    \* Futures with _close_completed as a done callback
    drops      \* calls of invalidate() and close_all() made so far

vars == <<issued, pc, key, awaits, future, closed, lru, detached, dropped,
          onDone, drops>>

CallStates   == {"unborn", "awaiting", "building", "publishing", "discarding",
                 "closing", "done"}
FutureStates == {"none", "pending", "result", "exception"}

Entries == Members(lru)

TypeOK ==
    /\ issued \in 0 .. MaxCalls
    /\ pc \in [Calls -> CallStates]
    /\ key \in [Calls -> Keys \union {NoKey}]
    /\ awaits \in [Calls -> 0 .. MaxCalls]
    /\ future \in [Calls -> FutureStates]
    /\ closed \in [Calls -> Nat]
    /\ lru \in Seq(Calls)
    /\ Distinct(lru)
    /\ \A f, g \in Entries : key[f] = key[g] => f = g
    /\ detached \in [Calls -> SUBSET Calls]
    /\ dropped \in SUBSET Calls
    /\ onDone \in SUBSET Calls
    /\ drops \in 0 .. MaxDrops

Init ==
    /\ issued = 0
    /\ pc = [c \in Calls |-> "unborn"]
    /\ key = [c \in Calls |-> NoKey]
    /\ awaits = [c \in Calls |-> 0]
    /\ future = [f \in Calls |-> "none"]
    /\ closed = [f \in Calls |-> 0]
    /\ lru = << >>
    /\ detached = [c \in Calls |-> {}]
    /\ dropped = {}
    /\ onDone = {}
    /\ drops = 0
--------------------------------------------------------------------------------
Cached(k) == {f \in Entries : key[f] = k}
Done(f) == future[f] \in {"result", "exception"}

\* _detach_excess_locked: the least recently used completed Futures that do
\* not fit.
Detached(s) == Excess(s, {f \in Calls : Done(f)}, MaxEntries)

\* _close_completed of every Future in S: a Future with an exception has
\* nothing to close.
Closed(S, fut) == [f \in Calls |-> IF f \in S /\ fut[f] = "result"
                                     THEN closed[f] + 1 ELSE closed[f]]

\* get_or_create(), first critical section: find the key's Future ...
Hit(c, k) ==
    /\ issued < MaxCalls /\ c = issued + 1
    /\ Cached(k) # {}
    /\ issued' = c
    /\ key' = [key EXCEPT ![c] = k]
    /\ LET f == CHOOSE g \in Cached(k) : TRUE IN
       /\ awaits' = [awaits EXCEPT ![c] = f]
       /\ lru' = MoveToEnd(lru, f)
    /\ pc' = [pc EXCEPT ![c] = "awaiting"]
    /\ UNCHANGED <<future, closed, detached, dropped, onDone, drops>>

\* ... or insert one and become its creator.
Miss(c, k) ==
    /\ issued < MaxCalls /\ c = issued + 1
    /\ Cached(k) = {}
    /\ issued' = c
    /\ key' = [key EXCEPT ![c] = k]
    /\ awaits' = [awaits EXCEPT ![c] = c]
    /\ future' = [future EXCEPT ![c] = "pending"]
    /\ lru' = Append(lru, c)
    /\ pc' = [pc EXCEPT ![c] = "building"]
    /\ UNCHANGED <<closed, detached, dropped, onDone, drops>>

\* future.result() of a caller that is not the creator.
Await(c) ==
    /\ pc[c] = "awaiting"
    /\ Done(awaits[c])
    /\ pc' = [pc EXCEPT ![c] = "done"]
    /\ UNCHANGED <<issued, key, awaits, future, closed, lru, detached, dropped,
                   onDone, drops>>

\* The factory returns: set_result, which runs the done callbacks.
FactoryReturns(c) ==
    /\ pc[c] = "building"
    /\ future' = [future EXCEPT ![c] = "result"]
    /\ closed' = Closed(onDone \intersect {c}, future')
    /\ onDone' = onDone \ {c}
    /\ pc' = [pc EXCEPT ![c] = "publishing"]
    /\ UNCHANGED <<issued, key, awaits, lru, detached, dropped, drops>>

\* The factory raises: set_exception, which runs the done callbacks too.
FactoryRaises(c) ==
    /\ pc[c] = "building"
    /\ future' = [future EXCEPT ![c] = "exception"]
    /\ onDone' = onDone \ {c}
    /\ pc' = [pc EXCEPT ![c] = "discarding"]
    /\ UNCHANGED <<issued, key, awaits, closed, lru, detached, dropped, drops>>

Discard(c) ==
    /\ pc[c] = "discarding"
    /\ lru' = Without(lru, {c})
    /\ pc' = [pc EXCEPT ![c] = "done"]
    /\ UNCHANGED <<issued, key, awaits, future, closed, detached, dropped,
                   onDone, drops>>

\* Mutant: the entry is put back without looking whether it is still there.
PublishAnyway(c) ==
    LET moved == MoveToEnd(lru, c) IN
    /\ pc[c] = "publishing"
    /\ detached' = [detached EXCEPT ![c] = Detached(moved)]
    /\ lru' = Without(moved, Detached(moved))
    /\ pc' = [pc EXCEPT ![c] = "closing"]
    /\ UNCHANGED <<issued, key, awaits, future, closed, dropped, onDone, drops>>

\* Second critical section of the creator: touch the entry if it is still
\* there, and detach what does not fit.
Publish(c) ==
    LET moved == IF c \in Entries THEN MoveToEnd(lru, c) ELSE lru IN
    /\ pc[c] = "publishing"
    /\ detached' = [detached EXCEPT ![c] = Detached(moved)]
    /\ lru' = Without(moved, Detached(moved))
    /\ pc' = [pc EXCEPT ![c] = "closing"]
    /\ UNCHANGED <<issued, key, awaits, future, closed, dropped, onDone, drops>>

\* _close_futures of what was detached; then the creator returns.
CloseDetached(c) ==
    /\ pc[c] = "closing"
    /\ closed' = Closed(detached[c], future)
    /\ detached' = [detached EXCEPT ![c] = {}]
    /\ pc' = [pc EXCEPT ![c] = "done"]
    /\ UNCHANGED <<issued, key, awaits, future, lru, dropped, onDone, drops>>
--------------------------------------------------------------------------------
\* invalidate(key): pop the Future under the lock.
Invalidate(k) ==
    /\ drops < MaxDrops
    /\ drops' = drops + 1
    /\ lru' = Without(lru, Cached(k))
    /\ dropped' = dropped \union Cached(k)
    /\ UNCHANGED <<issued, pc, key, awaits, future, closed, detached, onDone>>

\* close_all(): pop every Future under the lock.
CloseAll ==
    /\ drops < MaxDrops
    /\ drops' = drops + 1
    /\ lru' = << >>
    /\ dropped' = dropped \union Entries
    /\ UNCHANGED <<issued, pc, key, awaits, future, closed, detached, onDone>>

\* _close_futures outside the lock: close a completed Future, and leave a
\* callback with one that is not.
CloseDropped(f) ==
    /\ f \in dropped
    /\ dropped' = dropped \ {f}
    /\ IF Done(f) THEN closed' = Closed({f}, future) /\ UNCHANGED onDone
                  ELSE onDone' = onDone \union {f} /\ UNCHANGED closed
    /\ UNCHANGED <<issued, pc, key, awaits, future, lru, detached, drops>>
--------------------------------------------------------------------------------
CallStep(c) ==
    \/ Await(c)
    \/ FactoryReturns(c) \/ FactoryRaises(c)
    \/ Discard(c) \/ Publish(c) \/ CloseDetached(c)

Next ==
    \/ \E c \in Calls, k \in Keys : Hit(c, k) \/ Miss(c, k)
    \/ \E c \in Calls : CallStep(c)
    \/ \E k \in Keys : Invalidate(k)
    \/ CloseAll
    \/ \E f \in Calls : CloseDropped(f)

Spec == Init /\ [][Next]_vars

\* Threads are scheduled and a factory, which builds an HTTP client, returns
\* or raises.
Fairness ==
    /\ \A c \in Calls : WF_vars(CallStep(c))
    /\ \A f \in Calls : WF_vars(CloseDropped(f))

FairSpec == Spec /\ Fairness
--------------------------------------------------------------------------------
\* Whoever will close a resource that is not in the cache.
ToBeClosed(f) == f \in dropped \/ \E c \in Calls : f \in detached[c]

\* No client is lost: one that was built is in the cache, closed, or about to
\* be closed by the thread that took it out ("leaks nothing beyond the cache's
\* max size"), also when its key was invalidated while it was being built.
NoLeak ==
    \A f \in Calls :
        future[f] = "result" =>
            \/ f \in Entries
            \/ closed[f] = 1
            \/ ToBeClosed(f)

\* A client is closed at most once, and never while the cache hands it out.
ClosedOnce ==
    \A f \in Calls : closed[f] <= 1 /\ (closed[f] = 1 => f \notin Entries)

\* Factories of one key are single-flight, as long as nobody invalidates the
\* key: an entry that is being built is never evicted.
SingleFlight ==
    \A k \in Keys :
        Cardinality({f \in Calls : key[f] = k /\ future[f] = "pending"
                                   /\ f \notin dropped \union onDone}) <= 1

\* max_entries is exceeded only by entries whose creator has yet to come back
\* to the lock: when it has, the cache fits again.
CapacityRestored ==
    Len(lru) <= MaxEntries
        + Cardinality({c \in Calls : pc[c] \in {"building", "publishing", "discarding"}})

\* Every get_or_create() returns or raises, the ones that wait for another
\* thread's factory included.
CallsEnd == \A c \in Calls : (pc[c] # "unborn") ~> (pc[c] = "done")

--------------------------------------------------------------------------------
\* What the properties rest on.  A Future is in one place at a time.
Nowhere(f) ==
    f \notin Entries /\ f \notin dropped /\ f \notin onDone /\ \A c \in Calls : f \notin detached[c]

Busy == {c \in Calls : pc[c] \in {"building", "publishing", "discarding"}}

FuturesFollow ==
    \A c \in Calls :
        /\ c > issued => pc[c] = "unborn"
        /\ pc[c] = "unborn" => future[c] = "none"
        /\ future[c] = "none" => Nowhere(c) /\ closed[c] = 0
        /\ future[c] = "pending" <=> pc[c] = "building"
        /\ pc[c] = "publishing" => future[c] = "result"
        /\ pc[c] = "discarding" => future[c] = "exception"

OnePlace ==
    \A f \in Calls :
        /\ f \in Entries => /\ f \notin dropped /\ f \notin onDone /\ closed[f] = 0
                           /\ \A c \in Calls : f \notin detached[c]
        /\ f \in dropped => /\ f \notin onDone /\ closed[f] = 0
                           /\ \A c \in Calls : f \notin detached[c]
        /\ f \in onDone => future[f] = "pending" /\ closed[f] = 0
        /\ \A c \in Calls : f \in detached[c] =>
               /\ pc[c] = "closing" /\ closed[f] = 0 /\ f \notin onDone
               /\ \A d \in Calls : f \in detached[d] => c = d

Accounted ==
    \A f \in Calls :
        /\ closed[f] \in {0, 1}
        /\ future[f] = "pending" => f \in Entries \/ f \in dropped \/ f \in onDone
        /\ future[f] = "result" => f \in Entries \/ closed[f] = 1 \/ ToBeClosed(f)

\* What is not under construction fits.
Fits == Cardinality(Entries \ Busy) <= MaxEntries

CacheInv == TypeOK /\ FuturesFollow /\ OnePlace /\ Accounted /\ Fits

\* The entries are what the order lists.
LEMMA EntriesAre ==
    ASSUME TypeOK
    PROVE  /\ IsFiniteSet(Entries) /\ Entries \subseteq Calls /\ Cardinality(Entries) = Len(lru)
           /\ \A k : Cached(k) \subseteq Entries
BY DistinctLen DEF TypeOK, Entries, Cached

\* A step that takes entries away, or adds one that is being built.
LEMMA FitsStill ==
    ASSUME ResourceBoundsAssumption, TypeOK, Fits, NEW S, S \subseteq Entries \ Busy
    PROVE  Cardinality(S) <= MaxEntries
<1>1. IsFiniteSet(Entries \ Busy)
  BY EntriesAre, FS_Subset
<1>2. IsFiniteSet(S) /\ Cardinality(S) <= Cardinality(Entries \ Busy)
  BY <1>1, FS_Subset
<1>3. Cardinality(S) \in Nat /\ Cardinality(Entries \ Busy) \in Nat
  BY <1>1, <1>2, FS_CardinalityType
<1>4. QED
  BY <1>2, <1>3 DEF Fits, ResourceBoundsAssumption

\* A call that finds a usable entry keeps the invariant.
LEMMA HitKeeps ==
    ASSUME ResourceBoundsAssumption, CacheInv, NEW c \in Calls, NEW k \in Keys, Hit(c, k)
    PROVE  CacheInv'
<1> DEFINE f == CHOOSE g \in Cached(k) : TRUE
<1>1. f \in Entries /\ f \in Calls
  BY EntriesAre DEF Hit, CacheInv
<1>2. /\ lru' = MoveToEnd(lru, f) /\ awaits' = [awaits EXCEPT ![c] = f]
      /\ issued' = c /\ c = issued + 1 /\ key' = [key EXCEPT ![c] = k]
      /\ pc' = [pc EXCEPT ![c] = "awaiting"]
      /\ UNCHANGED <<future, closed, detached, dropped, onDone, drops>>
  BY DEF Hit
<1> HIDE DEF f
<1>3. lru' \in Seq(Calls) /\ Distinct(lru') /\ Entries' = Entries
  <2>1. lru \in Seq(Calls) /\ Distinct(lru)
    BY DEF CacheInv, TypeOK
  <2>2. lru' \in Seq(Calls) /\ Distinct(lru') /\ Members(lru') = Members(lru) \union {f}
    BY <1>1, <1>2, <2>1, MoveToEndKeeps, SMTT(60)
  <2>3. QED
    BY <1>1, <2>2 DEF Entries
<1>4. pc[c] = "unborn" /\ c \notin Entries
  BY <1>2 DEF CacheInv, FuturesFollow, Nowhere, Calls, TypeOK
<1>5. TypeOK'
  <2>1. issued' \in 0 .. MaxCalls /\ awaits' \in [Calls -> 0 .. MaxCalls]
    BY <1>1, <1>2 DEF CacheInv, TypeOK, Calls
  <2>2. key' \in [Calls -> Keys \union {NoKey}] /\ \A e \in Entries : key'[e] = key[e]
    BY <1>2, <1>4 DEF CacheInv, TypeOK
  <2>3. pc' \in [Calls -> CallStates]
    BY <1>2 DEF CacheInv, TypeOK, CallStates
  <2>4. \A e, g \in Entries' : key'[e] = key'[g] => e = g
    BY <1>3, <2>2 DEF CacheInv, TypeOK
  <2>5. QED
    BY <1>2, <1>3, <2>1, <2>2, <2>3, <2>4 DEF CacheInv, TypeOK
<1>6. pc'[c] = "awaiting" /\ \A d \in Calls \ {c} : pc'[d] = pc[d]
  BY <1>2 DEF CacheInv, TypeOK
<1>7. FuturesFollow'
  BY <1>2, <1>3, <1>4, <1>6 DEF CacheInv, FuturesFollow, Nowhere, Calls, TypeOK
<1>8. OnePlace' /\ Accounted'
  BY <1>2, <1>3, <1>4, <1>6 DEF CacheInv, OnePlace, Accounted, ToBeClosed
<1>9. Busy' = Busy
  BY <1>4, <1>6 DEF Busy
<1>10. QED
  BY <1>3, <1>5, <1>7, <1>8, <1>9 DEF CacheInv, Fits

\* So does one that puts its own future there.
LEMMA MissKeeps ==
    ASSUME ResourceBoundsAssumption, CacheInv, NEW c \in Calls, NEW k \in Keys, Miss(c, k)
    PROVE  CacheInv'
<1>1. /\ lru' = Append(lru, c) /\ awaits' = [awaits EXCEPT ![c] = c]
      /\ issued' = c /\ c = issued + 1 /\ key' = [key EXCEPT ![c] = k]
      /\ future' = [future EXCEPT ![c] = "pending"]
      /\ pc' = [pc EXCEPT ![c] = "building"]
      /\ UNCHANGED <<closed, detached, dropped, onDone, drops>>
  BY DEF Miss
<1>2. pc[c] = "unborn" /\ future[c] = "none" /\ Nowhere(c) /\ closed[c] = 0
  BY <1>1 DEF CacheInv, FuturesFollow, Calls, TypeOK
<1>3. lru' \in Seq(Calls) /\ Distinct(lru') /\ Entries' = Entries \union {c}
  BY <1>1, <1>2, AppendKeeps DEF CacheInv, TypeOK, Entries, Nowhere
<1>4. /\ pc'[c] = "building" /\ \A d \in Calls \ {c} : pc'[d] = pc[d]
      /\ future'[c] = "pending" /\ \A d \in Calls \ {c} : future'[d] = future[d]
      /\ key'[c] = k /\ \A d \in Calls \ {c} : key'[d] = key[d]
  BY <1>1 DEF CacheInv, TypeOK
<1>5. TypeOK'
  <2>1. issued' \in 0 .. MaxCalls /\ awaits' \in [Calls -> 0 .. MaxCalls]
    BY <1>1 DEF CacheInv, TypeOK, Calls
  <2>2. key' \in [Calls -> Keys \union {NoKey}]
    BY <1>1 DEF CacheInv, TypeOK
  <2>3. pc' \in [Calls -> CallStates] /\ future' \in [Calls -> FutureStates]
    BY <1>1 DEF CacheInv, TypeOK, CallStates, FutureStates
  <2>4. \A e \in Entries : key[e] # k
    BY DEF Miss, Cached
  <2>5. \A e, g \in Entries' : key'[e] = key'[g] => e = g
    BY <1>2, <1>3, <1>4, <2>4, EntriesAre DEF CacheInv, TypeOK, Nowhere, Entries
  <2>6. QED
    BY <1>1, <1>3, <2>1, <2>2, <2>3, <2>5 DEF CacheInv, TypeOK
<1>6. FuturesFollow'
  BY <1>1, <1>2, <1>3, <1>4 DEF CacheInv, FuturesFollow, Nowhere, Calls, TypeOK
<1>7. OnePlace'
  BY <1>1, <1>2, <1>3, <1>4 DEF CacheInv, OnePlace, Nowhere
<1>8. Accounted'
  BY <1>1, <1>2, <1>3, <1>4 DEF CacheInv, Accounted, ToBeClosed
<1>9. Fits'
  <2>1. Entries' \ Busy' \subseteq Entries \ Busy
    BY <1>2, <1>3, <1>4, EntriesAre DEF Busy, CacheInv
  <2>2. QED
    BY <2>1, FitsStill DEF CacheInv, Fits
<1>10. QED
  BY <1>5, <1>6, <1>7, <1>8, <1>9 DEF CacheInv

\* The steps of a creator up to its second critical section, and a waiter's return.
LEMMA FactoryKeeps ==
    ASSUME ResourceBoundsAssumption, CacheInv, NEW c \in Calls,
           Await(c) \/ FactoryReturns(c) \/ FactoryRaises(c)
    PROVE  CacheInv'
<1>1. UNCHANGED <<issued, key, awaits, lru, detached, dropped, drops>> /\ Entries' = Entries
  BY DEF Await, FactoryReturns, FactoryRaises, Entries
<1>2. CASE Await(c)
  <2>1. pc[c] = "awaiting" /\ pc' = [pc EXCEPT ![c] = "done"] /\ UNCHANGED <<future, closed, onDone>>
    BY <1>2 DEF Await
  <2>2. pc' \in [Calls -> CallStates] /\ pc'[c] = "done" /\ \A d \in Calls \ {c} : pc'[d] = pc[d]
    BY <2>1 DEF CacheInv, TypeOK, CallStates
  <2>3. Busy' = Busy
    BY <2>1, <2>2 DEF Busy
  <2>4. TypeOK' /\ FuturesFollow'
    BY <1>1, <2>1, <2>2 DEF CacheInv, TypeOK, FuturesFollow, Nowhere
  <2>5. OnePlace' /\ Accounted' /\ Fits'
    BY <1>1, <2>1, <2>2, <2>3 DEF CacheInv, OnePlace, Accounted, ToBeClosed, Fits
  <2>6. QED
    BY <2>4, <2>5 DEF CacheInv
<1>3. CASE FactoryReturns(c)
  <2>1. /\ pc[c] = "building" /\ future[c] = "pending"
        /\ pc' = [pc EXCEPT ![c] = "publishing"] /\ future' = [future EXCEPT ![c] = "result"]
        /\ onDone' = onDone \ {c}
    BY <1>3 DEF FactoryReturns, CacheInv, FuturesFollow
  <2>2. /\ pc' \in [Calls -> CallStates] /\ pc'[c] = "publishing" /\ \A d \in Calls \ {c} : pc'[d] = pc[d]
        /\ future' \in [Calls -> FutureStates] /\ future'[c] = "result"
        /\ \A d \in Calls \ {c} : future'[d] = future[d]
    BY <2>1 DEF CacheInv, TypeOK, CallStates, FutureStates
  <2>3. /\ closed' \in [Calls -> Nat] /\ \A d \in Calls \ {c} : closed'[d] = closed[d]
        /\ closed'[c] = IF c \in onDone THEN closed[c] + 1 ELSE closed[c]
    BY <1>3, <2>2 DEF FactoryReturns, Closed, CacheInv, TypeOK
  <2>4. Busy' = Busy
    BY <2>1, <2>2 DEF Busy
  <2>5. TypeOK'
    BY <1>1, <2>1, <2>2, <2>3 DEF CacheInv, TypeOK
  <2>6. FuturesFollow'
    BY <1>1, <2>1, <2>2, <2>3 DEF CacheInv, FuturesFollow, Nowhere
  <2>7. OnePlace'
    BY <1>1, <2>1, <2>2, <2>3 DEF CacheInv, OnePlace
  <2>8. closed[c] = 0 \/ closed[c] = 1
    BY DEF CacheInv, Accounted
  <2>9. c \in onDone => closed[c] = 0
    BY DEF CacheInv, OnePlace
  <2>10. Accounted'
    BY <1>1, <2>1, <2>2, <2>3, <2>8, <2>9 DEF CacheInv, Accounted, ToBeClosed
  <2>11. QED
    BY <1>1, <2>4, <2>5, <2>6, <2>7, <2>10 DEF CacheInv, Fits
<1>4. CASE FactoryRaises(c)
  <2>1. /\ pc[c] = "building" /\ future[c] = "pending"
        /\ pc' = [pc EXCEPT ![c] = "discarding"] /\ future' = [future EXCEPT ![c] = "exception"]
        /\ onDone' = onDone \ {c} /\ UNCHANGED closed
    BY <1>4 DEF FactoryRaises, CacheInv, FuturesFollow
  <2>2. /\ pc' \in [Calls -> CallStates] /\ pc'[c] = "discarding" /\ \A d \in Calls \ {c} : pc'[d] = pc[d]
        /\ future' \in [Calls -> FutureStates] /\ future'[c] = "exception"
        /\ \A d \in Calls \ {c} : future'[d] = future[d]
    BY <2>1 DEF CacheInv, TypeOK, CallStates, FutureStates
  <2>3. Busy' = Busy
    BY <2>1, <2>2 DEF Busy
  <2>4. TypeOK' /\ FuturesFollow'
    BY <1>1, <2>1, <2>2 DEF CacheInv, TypeOK, FuturesFollow, Nowhere
  <2>5. OnePlace'
    BY <1>1, <2>1, <2>2 DEF CacheInv, OnePlace
  <2>6. Accounted'
    BY <1>1, <2>1, <2>2 DEF CacheInv, Accounted, ToBeClosed
  <2>7. QED
    BY <1>1, <2>3, <2>4, <2>5, <2>6 DEF CacheInv, Fits
<1>5. QED
  BY <1>2, <1>3, <1>4

\* So does taking out a future that failed.
LEMMA DiscardKeeps ==
    ASSUME ResourceBoundsAssumption, CacheInv, NEW c \in Calls, Discard(c)
    PROVE  CacheInv'
<1>1. /\ pc[c] = "discarding" /\ future[c] = "exception" /\ lru' = Without(lru, {c})
      /\ pc' = [pc EXCEPT ![c] = "done"]
      /\ UNCHANGED <<issued, key, awaits, future, closed, detached, dropped, onDone, drops>>
  BY DEF Discard, CacheInv, FuturesFollow
<1>2. lru' \in Seq(Calls) /\ Distinct(lru') /\ Entries' = Entries \ {c}
  BY <1>1, WithoutKeeps DEF CacheInv, TypeOK, Entries
<1>3. pc' \in [Calls -> CallStates] /\ pc'[c] = "done" /\ \A d \in Calls \ {c} : pc'[d] = pc[d]
  BY <1>1 DEF CacheInv, TypeOK, CallStates
<1>4. TypeOK' /\ FuturesFollow'
  BY <1>1, <1>2, <1>3 DEF CacheInv, TypeOK, FuturesFollow, Nowhere
<1>5. OnePlace'
  BY <1>1, <1>2, <1>3 DEF CacheInv, OnePlace
<1>6. Accounted'
  BY <1>1, <1>2, <1>3 DEF CacheInv, Accounted, ToBeClosed
<1>7. Entries' \ Busy' \subseteq Entries \ Busy
  BY <1>2, <1>3, EntriesAre DEF Busy, CacheInv
<1>8. QED
  BY <1>4, <1>5, <1>6, <1>7, FitsStill DEF CacheInv, Fits

\* So does the creator's second critical section, whatever it detaches.
LEMMA PublishKeeps ==
    ASSUME ResourceBoundsAssumption, CacheInv, NEW c \in Calls, Publish(c)
    PROVE  CacheInv'
<1> DEFINE moved == IF c \in Entries THEN MoveToEnd(lru, c) ELSE lru
           done == {f \in Calls : Done(f)}
           out == Excess(moved, done, MaxEntries)
<1>1. /\ pc[c] = "publishing" /\ future[c] = "result"
      /\ lru' = Without(moved, out) /\ detached' = [detached EXCEPT ![c] = out]
      /\ pc' = [pc EXCEPT ![c] = "closing"]
      /\ UNCHANGED <<issued, key, awaits, future, closed, dropped, onDone, drops>>
  BY DEF Publish, Detached, CacheInv, FuturesFollow
<1>2. moved \in Seq(Calls) /\ Distinct(moved) /\ Members(moved) = Entries
  <2>1. lru \in Seq(Calls) /\ Distinct(lru)
    BY DEF CacheInv, TypeOK
  <2>2. /\ MoveToEnd(lru, c) \in Seq(Calls) /\ Distinct(MoveToEnd(lru, c))
        /\ Members(MoveToEnd(lru, c)) = Members(lru) \union {c}
    BY <2>1, MoveToEndKeeps
  <2>3. QED
    BY <2>1, <2>2 DEF Entries
<1> HIDE DEF moved, done
<1>3. MaxEntries \in Nat
  BY DEF ResourceBoundsAssumption
<1>4. /\ out \subseteq Entries \intersect done
      /\ Len(lru') <= MaxEntries \/ Entries \intersect done = out
  BY <1>1, <1>2, <1>3, ExcessFits
<1> HIDE DEF out
<1>5. lru' \in Seq(Calls) /\ Distinct(lru') /\ Entries' = Entries \ out
  BY <1>1, <1>2, WithoutKeeps DEF Entries
<1>6. \A f \in out : f \in Entries /\ f \in Calls /\ future[f] \in {"result", "exception"}
  BY <1>4, EntriesAre DEF done, Done, CacheInv
<1>7. /\ pc' \in [Calls -> CallStates] /\ pc'[c] = "closing" /\ \A d \in Calls \ {c} : pc'[d] = pc[d]
      /\ detached' \in [Calls -> SUBSET Calls] /\ detached'[c] = out
      /\ \A d \in Calls \ {c} : detached'[d] = detached[d]
  BY <1>1, <1>6 DEF CacheInv, TypeOK, CallStates
<1>8. TypeOK'
  BY <1>1, <1>5, <1>7 DEF CacheInv, TypeOK
<1>9. FuturesFollow'
  BY <1>1, <1>5, <1>6, <1>7 DEF CacheInv, FuturesFollow, Nowhere
<1>10. \A f \in Calls : f \notin detached[c]
  BY <1>1 DEF CacheInv, OnePlace
<1>11. OnePlace'
  BY <1>1, <1>5, <1>6, <1>7, <1>10 DEF CacheInv, OnePlace
<1>12. Accounted'
  <2> SUFFICES ASSUME NEW f \in Calls
               PROVE  /\ closed[f] \in {0, 1}
                      /\ future[f] = "pending" => f \in Entries' \/ f \in dropped \/ f \in onDone
                      /\ future[f] = "result" => f \in Entries' \/ closed[f] = 1 \/ ToBeClosed(f)'
    BY <1>1 DEF Accounted
  <2>1. closed[f] \in {0, 1}
    BY DEF CacheInv, Accounted
  <2>2. future[f] = "pending" => f \in Entries' \/ f \in dropped \/ f \in onDone
    BY <1>5, <1>6 DEF CacheInv, Accounted
  <2>3. ASSUME future[f] = "result" PROVE f \in Entries' \/ closed[f] = 1 \/ ToBeClosed(f)'
    <3>1. CASE f \in out
      BY <3>1, <1>7 DEF ToBeClosed
    <3>2. CASE f \notin out
      BY <2>3, <3>2, <1>1, <1>5, <1>7, <1>10 DEF CacheInv, Accounted, ToBeClosed
    <3>3. QED
      BY <3>1, <3>2
  <2>4. QED
    BY <2>1, <2>2, <2>3
<1>13. Fits'
  <2>1. Cardinality(Entries') = Len(lru') /\ IsFiniteSet(Entries')
    BY <1>5, DistinctLen DEF Entries
  <2>2. CASE Len(lru') <= MaxEntries
    <3>1. Entries' \ Busy' \in SUBSET Entries'
      OBVIOUS
    <3>2. /\ Cardinality(Entries' \ Busy') <= Cardinality(Entries')
          /\ Cardinality(Entries' \ Busy') \in Nat /\ Cardinality(Entries') \in Nat
      BY <2>1, <3>1, FS_Subset, FS_CardinalityType
    <3>3. QED
      BY <2>1, <2>2, <3>2, <1>3 DEF Fits
  <2>3. CASE Entries \intersect done = out
    <3>1. \A f \in Entries' : f \in Calls /\ f # c /\ future[f] = "pending"
      BY <2>3, <1>1, <1>5, EntriesAre DEF done, Done, CacheInv, TypeOK, FutureStates, FuturesFollow, Nowhere
    <3>2. Entries' \ Busy' = {}
      BY <3>1, <1>7 DEF Busy, CacheInv, FuturesFollow
    <3>3. QED
      BY <3>2, <1>3, FS_EmptySet DEF Fits
  <2>4. QED
    BY <1>4, <2>2, <2>3
<1>14. QED
  BY <1>8, <1>9, <1>11, <1>12, <1>13 DEF CacheInv

\* So does closing what was detached.
LEMMA CloseDetachedKeeps ==
    ASSUME ResourceBoundsAssumption, CacheInv, NEW c \in Calls, CloseDetached(c)
    PROVE  CacheInv'
<1>1. /\ pc[c] = "closing" /\ closed' = Closed(detached[c], future)
      /\ detached' = [detached EXCEPT ![c] = {}] /\ pc' = [pc EXCEPT ![c] = "done"]
      /\ UNCHANGED <<issued, key, awaits, future, lru, dropped, onDone, drops>>
      /\ Entries' = Entries
  BY DEF CloseDetached, Entries
<1>2. /\ pc' \in [Calls -> CallStates] /\ pc'[c] = "done" /\ \A d \in Calls \ {c} : pc'[d] = pc[d]
      /\ detached' \in [Calls -> SUBSET Calls] /\ detached'[c] = {}
      /\ \A d \in Calls \ {c} : detached'[d] = detached[d]
  BY <1>1 DEF CacheInv, TypeOK, CallStates
<1>3. /\ closed' \in [Calls -> Nat]
      /\ \A f \in Calls : closed'[f] = IF f \in detached[c] /\ future[f] = "result"
                                         THEN closed[f] + 1 ELSE closed[f]
  BY <1>1 DEF Closed, CacheInv, TypeOK
<1>4. \A f \in Calls : f \in detached[c] =>
          /\ closed[f] = 0 /\ f \notin Entries /\ f \notin dropped /\ f \notin onDone
          /\ future[f] # "none"
          /\ \A d \in Calls : f \in detached[d] => c = d
  BY DEF CacheInv, OnePlace, FuturesFollow, Nowhere
<1>5. TypeOK'
  BY <1>1, <1>2, <1>3 DEF CacheInv, TypeOK
<1>6. FuturesFollow'
  BY <1>1, <1>2, <1>3, <1>4 DEF CacheInv, FuturesFollow, Nowhere
<1>7. OnePlace'
  BY <1>1, <1>2, <1>3, <1>4 DEF CacheInv, OnePlace
<1>8. Accounted'
  <2> SUFFICES ASSUME NEW f \in Calls
               PROVE  /\ closed'[f] \in {0, 1}
                      /\ future[f] = "pending" => f \in Entries \/ f \in dropped \/ f \in onDone
                      /\ future[f] = "result" => f \in Entries \/ closed'[f] = 1 \/ ToBeClosed(f)'
    BY <1>1 DEF Accounted
  <2>1. CASE f \in detached[c]
    BY <2>1, <1>3, <1>4 DEF CacheInv, Accounted
  <2>2. CASE f \notin detached[c]
    BY <2>2, <1>1, <1>2, <1>3 DEF CacheInv, Accounted, ToBeClosed
  <2>3. QED
    BY <2>1, <2>2
<1>9. Busy' = Busy
  BY <1>1, <1>2 DEF Busy
<1>10. QED
  BY <1>1, <1>5, <1>6, <1>7, <1>8, <1>9 DEF CacheInv, Fits

\* So does dropping one key or all of them.
LEMMA DropKeeps ==
    ASSUME ResourceBoundsAssumption, CacheInv, CloseAll \/ \E k \in Keys : Invalidate(k)
    PROVE  CacheInv'
<1>1. PICK out \in SUBSET Entries :
        /\ lru' \in Seq(Calls) /\ Distinct(lru') /\ Entries' = Entries \ out
        /\ dropped' = dropped \union out
  <2>1. CASE CloseAll
    <3>1. << >> \in Seq(Calls) /\ DOMAIN << >> = {}
      BY EmptySeq, LenProperties
    <3>2. Distinct(<< >>) /\ Members(<< >>) = {}
      BY <3>1 DEF Distinct, Members
    <3>3. QED
      BY <2>1, <3>1, <3>2 DEF CloseAll, Entries
  <2>2. ASSUME NEW k \in Keys, Invalidate(k)
        PROVE  /\ lru' \in Seq(Calls) /\ Distinct(lru') /\ Entries' = Entries \ Cached(k)
               /\ dropped' = dropped \union Cached(k) /\ Cached(k) \in SUBSET Entries
    BY <2>2, WithoutKeeps, EntriesAre DEF Invalidate, CacheInv, TypeOK, Entries
  <2>3. QED
    BY <2>1, <2>2
<1>2. /\ drops' \in 0 .. MaxDrops
      /\ UNCHANGED <<issued, pc, key, awaits, future, closed, detached, onDone>>
  BY DEF CloseAll, Invalidate, CacheInv, TypeOK, ResourceBoundsAssumption
<1>3. \A f \in out : f \in Entries /\ f \in Calls
  BY <1>1, EntriesAre DEF CacheInv
<1>4. TypeOK'
  BY <1>1, <1>2, <1>3 DEF CacheInv, TypeOK
<1>5. FuturesFollow'
  BY <1>1, <1>2, <1>3 DEF CacheInv, FuturesFollow, Nowhere
<1>6. OnePlace'
  BY <1>1, <1>2, <1>3 DEF CacheInv, OnePlace
<1>7. Accounted'
  BY <1>1, <1>2, <1>3 DEF CacheInv, Accounted, ToBeClosed
<1>8. Entries' \ Busy' \subseteq Entries \ Busy
  BY <1>1, <1>2 DEF Busy
<1>9. QED
  BY <1>4, <1>5, <1>6, <1>7, <1>8, FitsStill DEF CacheInv, Fits

\* So does closing a dropped client when its future is done.
LEMMA CloseDroppedKeeps ==
    ASSUME ResourceBoundsAssumption, CacheInv, NEW f \in Calls, CloseDropped(f)
    PROVE  CacheInv'
<1>1. /\ f \in dropped /\ dropped' = dropped \ {f} /\ Entries' = Entries
      /\ UNCHANGED <<issued, pc, key, awaits, future, lru, detached, drops>>
  BY DEF CloseDropped, Entries
<1>2. /\ f \notin Entries /\ f \notin onDone /\ closed[f] = 0 /\ future[f] # "none"
      /\ \A c \in Calls : f \notin detached[c]
  BY <1>1 DEF CacheInv, OnePlace, FuturesFollow, Nowhere
<1>3. /\ closed' \in [Calls -> Nat] /\ \A g \in Calls \ {f} : closed'[g] = closed[g]
      /\ \/ future[f] = "pending" /\ closed'[f] = 0 /\ onDone' = onDone \union {f}
         \/ future[f] = "result" /\ closed'[f] = 1 /\ UNCHANGED onDone
         \/ future[f] = "exception" /\ closed'[f] = 0 /\ UNCHANGED onDone
  <2>1. /\ closed \in [Calls -> Nat] /\ future[f] \in {"pending", "result", "exception"}
        /\ closed[f] = 0
    BY <1>2 DEF CacheInv, TypeOK, FutureStates
  <2>2. CASE future[f] = "pending"
    <3>1. UNCHANGED closed /\ onDone' = onDone \union {f}
      BY <2>2 DEF CloseDropped, Done
    <3>2. QED
      BY <2>1, <2>2, <3>1
  <2>3. CASE future[f] # "pending"
    <3>1. closed' = Closed({f}, future) /\ UNCHANGED onDone
      BY <2>1, <2>3 DEF CloseDropped, Done
    <3>2. /\ closed' \in [Calls -> Nat] /\ \A g \in Calls \ {f} : closed'[g] = closed[g]
          /\ closed'[f] = IF future[f] = "result" THEN closed[f] + 1 ELSE closed[f]
      BY <2>1, <3>1 DEF Closed
    <3>3. QED
      BY <2>1, <2>3, <3>1, <3>2
  <2>4. QED
    BY <2>2, <2>3
<1>4. TypeOK'
  BY <1>1, <1>3 DEF CacheInv, TypeOK
<1>5. FuturesFollow'
  BY <1>1, <1>2, <1>3 DEF CacheInv, FuturesFollow, Nowhere
<1>6. OnePlace'
  BY <1>1, <1>2, <1>3 DEF CacheInv, OnePlace
<1>7. Accounted'
  BY <1>1, <1>2, <1>3 DEF CacheInv, Accounted, ToBeClosed
<1>8. Busy' = Busy
  BY <1>1 DEF Busy
<1>9. QED
  BY <1>1, <1>4, <1>5, <1>6, <1>7, <1>8 DEF CacheInv, Fits

\* The invariant holds of an empty cache.
LEMMA CacheStart ==
    ASSUME ResourceBoundsAssumption, Init
    PROVE  CacheInv
<1>1. << >> \in Seq(Calls) /\ DOMAIN << >> = {}
  BY EmptySeq, LenProperties
<1>2. lru \in Seq(Calls) /\ Distinct(lru) /\ Entries = {}
  BY <1>1 DEF Init, Distinct, Members, Entries
<1>3. TypeOK
  BY <1>2 DEF Init, TypeOK, ResourceBoundsAssumption, CallStates, FutureStates
<1>4. FuturesFollow /\ OnePlace /\ Accounted
  BY <1>2 DEF Init, FuturesFollow, Nowhere, OnePlace, Accounted
<1>5. Fits
  <2>1. Entries \ Busy = {}
    BY <1>2
  <2>2. QED
    BY <2>1, FS_EmptySet DEF Fits, ResourceBoundsAssumption
<1>6. QED
  BY <1>3, <1>4, <1>5 DEF CacheInv

\* Every step keeps it.
LEMMA CacheStep ==
    ASSUME ResourceBoundsAssumption, CacheInv, [Next]_vars
    PROVE  CacheInv'
<1>1. ASSUME NEW c \in Calls, CallStep(c) PROVE CacheInv'
  BY <1>1, FactoryKeeps, DiscardKeeps, PublishKeeps, CloseDetachedKeeps DEF CallStep
<1>2. CASE UNCHANGED vars
  BY <1>2 DEF vars, CacheInv, TypeOK, FuturesFollow, OnePlace, Accounted, Fits, Nowhere, Entries, Busy,
              ToBeClosed
<1>3. QED
  BY <1>1, <1>2, HitKeeps, MissKeeps, DropKeeps, CloseDroppedKeeps DEF Next

\* What the invariant is for.
LEMMA CacheHolds ==
    ASSUME ResourceBoundsAssumption, CacheInv
    PROVE  TypeOK /\ NoLeak /\ ClosedOnce /\ SingleFlight /\ CapacityRestored
<1>1. TypeOK /\ NoLeak /\ ClosedOnce
  BY DEF CacheInv, Accounted, OnePlace, NoLeak, ClosedOnce, TypeOK
<1>2. ASSUME NEW k \in Keys
      PROVE  Cardinality({f \in Calls : key[f] = k /\ future[f] = "pending"
                                        /\ f \notin dropped \union onDone}) <= 1
  <2> DEFINE Flights == {f \in Calls : key[f] = k /\ future[f] = "pending"
                                       /\ f \notin dropped \union onDone}
  <2>1. \A f \in Flights : f \in Entries /\ key[f] = k
    BY DEF CacheInv, Accounted
  <2>2. \A f, g \in Flights : f = g
    BY <2>1 DEF CacheInv, TypeOK
  <2>3. Flights = {} \/ \E f : Flights = {f}
    BY <2>2
  <2> HIDE DEF Flights
  <2>4. Cardinality(Flights) <= 1
    BY <2>3, FS_EmptySet, FS_Singleton
  <2>5. QED
    BY <2>4 DEF Flights
<1>3. CapacityRestored
  <2>1. IsFiniteSet(Calls) /\ Busy \in SUBSET Calls
    BY FS_Interval DEF Calls, Busy, ResourceBoundsAssumption
  <2>2. IsFiniteSet(Busy) /\ IsFiniteSet(Entries) /\ Len(lru) = Cardinality(Entries)
    BY <2>1, FS_Subset, EntriesAre DEF CacheInv
  <2>3. /\ Cardinality(Entries \ Busy) = Cardinality(Entries) - Cardinality(Entries \intersect Busy)
        /\ Cardinality(Entries \intersect Busy) <= Cardinality(Busy)
    BY <2>2, FS_Difference, FS_Subset
  <2>4. /\ Cardinality(Entries) \in Nat /\ Cardinality(Busy) \in Nat
        /\ Cardinality(Entries \intersect Busy) \in Nat
    BY <2>2, FS_Subset, FS_CardinalityType
  <2>5. QED
    BY <2>2, <2>3, <2>4 DEF CacheInv, Fits, CapacityRestored, Busy, ResourceBoundsAssumption
<1>4. QED
  BY <1>1, <1>2, <1>3 DEF SingleFlight

\* For any keys, capacity and number of calls, clients are neither lost nor
\* closed twice nor closed while they are handed out, a key that nobody
\* invalidates is built once at a time, and the cache comes back to its size.
THEOREM ClientsAreKept ==
    ASSUME ResourceBoundsAssumption
    PROVE  Spec => [](TypeOK /\ NoLeak /\ ClosedOnce /\ SingleFlight /\ CapacityRestored)
<1>1. Init => CacheInv
  BY CacheStart
<1>2. CacheInv /\ [Next]_vars => CacheInv'
  BY CacheStep
<1>3. CacheInv => TypeOK /\ NoLeak /\ ClosedOnce /\ SingleFlight /\ CapacityRestored
  BY CacheHolds
<1>4. QED
  BY <1>1, <1>2, <1>3, PTL DEF Spec
================================================================================
