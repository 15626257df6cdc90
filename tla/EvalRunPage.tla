------------------------------ MODULE EvalRunPage ------------------------------
(***************************************************************************)
(* The page of one evaluation run (RunDetail, useRunDetail): it polls the  *)
(* run's summary while the run is active, its per-query items more rarely, *)
(* reads the items once more when the run stops being active, and can ask  *)
(* for a cancellation.  The run itself is a background task of the server. *)
(***************************************************************************)
EXTENDS ApiQueries, Naturals

CONSTANTS Queries      \* how many queries the run evaluates

VARIABLES
    status,            \* server: the run's status
    written,           \* server: per-query items stored
    run, items,        \* the two queries of the page
    wasActive,         \* the ref of the same name
    seen,              \* the page has shown the run while it was active
    cancels,           \* cancellation requests in flight
    actionError

vars == <<status, written, run, items, wasActive, seen, cancels, actionError>>

Statuses == {"active", "completed", "failed", "cancelled"}

Init ==
    /\ status = "active" /\ written = 0
    /\ run = Ask(NewQuery) /\ items = Ask(NewQuery)
    /\ wasActive = FALSE /\ seen = FALSE /\ cancels = 0 /\ actionError = FALSE

page == <<run, items, wasActive, seen, cancels, actionError>>
server == <<status, written>>

\* The run's task: an item per query, whose writing a cancellation does not
\* stop at once, then the outcome.
WriteItem ==
    /\ status \in {"active", "cancelled"} /\ written < Queries /\ written' = written + 1
    /\ UNCHANGED <<status, page>>

Finish ==
    /\ status = "active"
    /\ \/ written = Queries /\ status' = "completed"
       \/ status' = "failed"
    /\ UNCHANGED <<written, page>>

isRunActive(s) == s = "active"

\* What the page takes the run for.
active == isRunActive(run.data)

\* Mutant: the run is polled only until it is first seen active
TickBeforeFirst ==
    /\ active /\ ~wasActive /\ run' = Ask(run)
    /\ UNCHANGED <<server, items, wasActive, seen, cancels, actionError>>

RunTick ==
    /\ active /\ run' = Ask(run)
    /\ UNCHANGED <<server, items, wasActive, seen, cancels, actionError>>

ItemsTick ==
    /\ active /\ items' = Ask(items)
    /\ UNCHANGED <<server, run, wasActive, seen, cancels, actionError>>

ServeRun ==
    /\ Unserved(run) /\ run' = Serve(run, status)
    /\ UNCHANGED <<server, items, wasActive, seen, cancels, actionError>>

ServeItems ==
    /\ Unserved(items) /\ items' = Serve(items, written)
    /\ UNCHANGED <<server, run, wasActive, seen, cancels, actionError>>

\* Mutant: the items are not read again when the run ends
LeaveSilently(now) ==
    items' = items /\ wasActive' = now

\* The effect on `active`: when it falls, the items are read once more.
LeaveActive(now) ==
    /\ items' = IF wasActive /\ ~now THEN Ask(items) ELSE items
    /\ wasActive' = now

LandRun ==
    /\ run.served /\ run' = Land(run)
    /\ LeaveActive(isRunActive(run.answer))
    /\ seen' = (seen \/ isRunActive(run.answer))
    /\ UNCHANGED <<server, cancels, actionError>>

LandItems ==
    /\ items.served /\ items' = Land(items)
    /\ UNCHANGED <<server, run, wasActive, seen, cancels, actionError>>

LoseRun ==
    /\ run.loading /\ run' = Fault(run)
    /\ UNCHANGED <<server, items, wasActive, seen, cancels, actionError>>

LoseItems ==
    /\ items.loading /\ items' = Fault(items)
    /\ UNCHANGED <<server, run, wasActive, seen, cancels, actionError>>

\* The page shows an error instead of the run while the last read failed.
CanCancel == active /\ ~run.error /\ cancels < 2

Cancel ==
    /\ CanCancel /\ cancels' = cancels + 1 /\ actionError' = FALSE
    /\ UNCHANGED <<server, run, items, wasActive, seen>>

\* The server refuses to cancel a run that is over; the page reads the run
\* again only when it agreed.
CancelAnswers ==
    /\ cancels > 0 /\ cancels' = cancels - 1
    /\ IF isRunActive(status)
       THEN status' = "cancelled" /\ run' = Ask(run) /\ UNCHANGED actionError
       ELSE actionError' = TRUE /\ UNCHANGED <<status, run>>
    /\ UNCHANGED <<written, items, wasActive, seen>>

Next ==
    \/ WriteItem \/ Finish
    \/ RunTick \/ ItemsTick \/ ServeRun \/ ServeItems \/ LandRun \/ LandItems
    \/ LoseRun \/ LoseItems
    \/ Cancel \/ CancelAnswers

\* Timers fire and requests are answered.  Reading the run starts over at each
\* tick: it succeeds only if the server is, again and again, faster than that.
Fairness ==
    /\ WF_vars(WriteItem) /\ SF_vars(Finish)
    /\ WF_vars(RunTick) /\ SF_vars(ServeRun) /\ SF_vars(LandRun)

Spec == Init /\ [][Next]_vars /\ Fairness

--------------------------------------------------------------------------------
\* The values the variables take; the page has no more items than are stored.
TypeOK ==
    /\ status \in Statuses /\ written \in 0..Queries
    /\ run.data \in Statuses \cup {None} /\ items.data \in 0..Queries \cup {None}
    /\ items.data # None => items.data <= written
    /\ wasActive = active

\* A page that has followed the run while it was active ends with every item:
\* the items it settles on after the run completed are all of them, whatever
\* the order in which the polls of the two queries were answered.
FinalItems == seen /\ run.data = "completed" /\ Settled(items) => items.data = Queries

\* Why: a run that is over stays as it is, and the items are asked for again
\* when the page sees it over; those that are asked for after that are all.
Over == Statuses \ {"active"}
RunInv ==
    /\ TypeOK /\ IsQuery(run) /\ IsQuery(items)
    /\ run.served => run.answer \in Statuses /\ (run.answer \in Over => status = run.answer)
    /\ run.data \in Over => status = run.data
    /\ status = "completed" => written = Queries
    /\ seen => run.data # None
    /\ items.served => items.answer \in 0..written
    /\ seen /\ run.data = "completed" =>
          /\ items.served => items.answer = Queries
          /\ Settled(items) => items.data = Queries

\* The page notices the end of a run it has seen active.
EndIsNoticed == active ~> run.data \in Statuses \ {"active"}
===============================================================================
