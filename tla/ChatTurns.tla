------------------------------- MODULE ChatTurns -------------------------------
(***************************************************************************)
(* The write side of the chat studio and the sessions it writes to: send,  *)
(* stop, edit, retry, branch, new chat, delete (hooks/messaging), the      *)
(* history load and the progress poll (hooks/session).  The route that     *)
(* names the selected session is ChatRoute.                                *)
(*                                                                         *)
(* A message list is abstracted to the session it belongs to and how it    *)
(* got on screen.  A turn is one call of performChatMutation together with *)
(* what its caller does before and after it; several can overlap, because  *)
(* a send in a new chat waits for an animation frame and an edit waits for *)
(* the branch request before the `sending` flag is set.                    *)
(***************************************************************************)
EXTENDS Naturals, FiniteSets

CONSTANTS
    Saved,       \* sessions stored when the page opens
    Fresh,       \* ids for sessions created by the page or by a branch
    None,        \* no session: the new-chat screen
    MaxTurns     \* bound: turns started

Sessions == Saved \cup Fresh

VARIABLES
    rows,        \* server: sessions that exist
    listed,      \* sessions state: the history panel
    selected,    \* activeSessionId
    shown,       \* messages: the session they belong to, or None
    history,     \* session of the history load that is not cancelled, or None
    pollOf,      \* activePollingSession, or None
    polls,       \* sessions with a poll in flight
    pending,     \* pendingSessionIdsRef
    skip,        \* skipHistoryFetchSessionRef, or None
    optimistic,  \* turns whose placeholder message is on screen
    turns,       \* turns that have not ended
    started,     \* turns started so far, the source of their identity
    controller,  \* abortControllerRef: the turn it aborts, or 0
    sending, stopping

loads == <<shown, history, pollOf, polls>>
vars == <<rows, listed, selected, loads, pending, skip, optimistic, turns, started,
          controller, sending, stopping>>

Init ==
    /\ rows = Saved /\ listed = Saved
    /\ selected = None
    /\ shown = None /\ history = None /\ pollOf = None /\ polls = {}
    /\ pending = {} /\ skip = None /\ optimistic = {} /\ turns = {} /\ started = 0
    /\ controller = 0 /\ sending = FALSE /\ stopping = FALSE

(***************************************************************************)
(* Selecting a session.  The effects that depend on the selection run when *)
(* React commits it: the history effect of use-session-messages (cancel    *)
(* the previous load, clear or load), the filter on optimistic messages,   *)
(* and the poll's own effect.                                              *)
(***************************************************************************)
\* Mutant: the history effect returns early without cancelling the previous load.
LoadForWithoutCancel(s, P, M, sk) ==
    /\ history' = IF s = None \/ s \in P \/ sk = s THEN history ELSE s
    /\ shown' = IF s = None \/ s \in P THEN None ELSE M

\* The history effect: P is the pending set and M the messages at the commit.
LoadFor(s, P, M, sk) ==
    /\ history' = IF s = None \/ s \in P \/ sk = s THEN None ELSE s
    /\ shown' = IF s = None \/ s \in P THEN None ELSE M

PollFor(s) == pollOf' = IF pollOf = s THEN pollOf ELSE None

KeepOptimistic(s, O) == {t \in O : t.session = s}

Moved(s, P, M, sk, O) ==
    IF s = selected
    THEN /\ UNCHANGED <<history, pollOf>> /\ shown' = M /\ optimistic' = O
    ELSE /\ LoadFor(s, P, M, sk) /\ PollFor(s) /\ optimistic' = KeepOptimistic(s, O)

\* A session is picked in the history panel or in a branch banner, or the
\* browser goes back to a session or to the new-chat screen.
SelectSession(s) ==
    /\ s \in listed \cup {None} /\ s # selected
    /\ selected' = s /\ Moved(s, pending, shown, skip, optimistic)
    /\ UNCHANGED <<rows, listed, polls, pending, skip, turns, started, controller,
                   sending, stopping>>

\* loadHistory answers; a cancelled load is no longer in `history`.
HistoryLands ==
    /\ history # None
    /\ history' = None
    /\ (history \in rows /\ shown' = history) \/ UNCHANGED shown
    /\ UNCHANGED <<rows, listed, selected, pollOf, polls, pending, skip, optimistic, turns,
                   started, controller, sending, stopping>>

\* listChatSessions answers after the route changed: the panel is the stored
\* sessions, without the placeholder of a session still being created.
ListLands ==
    /\ listed # rows
    /\ listed' = rows
    /\ UNCHANGED <<rows, selected, loads, pending, skip, optimistic, turns, started, controller,
                   sending, stopping>>

(***************************************************************************)
(* Turns.                                                                  *)
(***************************************************************************)
Turn(kind, stage, s, new, stream) ==
    [id |-> started + 1, kind |-> kind, stage |-> stage, session |-> s, new |-> new,
     stream |-> stream, aborted |-> FALSE, served |-> FALSE]

Aborted(T) == {IF t.id = controller THEN [t EXCEPT !.aborted = TRUE] ELSE t : t \in T}

\* performChatMutation up to its await: the previous controller is aborted,
\* the flags are set and a turn that does not stream polls its history.
Perform(T, t) ==
    /\ turns' = Aborted(T) \cup {[t EXCEPT !.stage = "running"]}
    /\ controller' = t.id
    /\ sending' = TRUE /\ stopping' = FALSE

StartPolling(t) ==
    /\ pollOf' = IF t.stream THEN pollOf ELSE t.session
    /\ polls' = IF t.stream \/ t.session \in pending THEN polls ELSE polls \cup {t.session}

\* The composer's button sends unless a turn is running (then it stops it).
CanSend == ~sending /\ started < MaxTurns

\* Retry, edit and branch are disabled while a turn is running; the buttons
\* belong to the messages on screen.
CanRerun == ~sending /\ started < MaxTurns /\ selected # None /\ shown = selected

\* handleSend in an existing session.
Send(stream) ==
    LET t == Turn("send", "running", selected, FALSE, stream) IN
    /\ CanSend /\ selected # None
    /\ started' = started + 1
    /\ optimistic' = optimistic \cup {t}
    /\ Perform(turns, t) /\ StartPolling(t)
    /\ UNCHANGED <<rows, listed, selected, shown, history, pending, skip>>

\* handleSend on the new-chat screen: a session id is made up, listed, marked
\* pending and navigated to; the rest waits for an animation frame.
SendNew(s, stream) ==
    /\ CanSend /\ selected = None
    /\ s \in Fresh \ (rows \cup listed \cup {t.session : t \in turns})
    /\ started' = started + 1
    /\ turns' = turns \cup {Turn("send", "frame", s, TRUE, stream)}
    /\ listed' = listed \cup {s} /\ pending' = pending \cup {s}
    /\ selected' = s /\ Moved(s, pending', None, skip, {})
    /\ UNCHANGED <<rows, polls, skip, controller, sending, stopping>>

Frame(t) ==
    /\ t.kind = "send" /\ t.stage = "frame"
    /\ optimistic' = optimistic \cup {t}
    /\ Perform(turns \ {t}, t) /\ StartPolling(t)
    /\ UNCHANGED <<rows, listed, selected, shown, history, pending, skip, started>>

\* handleEditSubmit and handleBranchMessage: the branch is requested first.
RequestBranch(kind, stream) ==
    /\ CanRerun
    /\ started' = started + 1
    /\ turns' = turns \cup {Turn(kind, "branching", selected, FALSE, stream)}
    /\ UNCHANGED <<rows, listed, selected, loads, pending, skip, optimistic, controller,
                   sending, stopping>>

\* branchSessionForEdit's response: the branch is listed, shown and navigated
\* to; an edit then runs its turn in the branch and keeps its history from
\* being fetched meanwhile.
BranchLands(t, b) ==
    LET run == [t EXCEPT !.session = b] IN
    /\ t.stage = "branching" /\ b \in Fresh \ (rows \cup listed)
    /\ rows' = rows \cup {b} /\ listed' = listed \cup {b}
    /\ skip' = IF t.kind = "edit" THEN b ELSE skip
    /\ selected' = b
    /\ history' = IF skip' = b THEN None ELSE b
    /\ shown' = b /\ optimistic' = {}
    /\ IF t.kind = "edit"
       THEN /\ Perform(turns \ {t}, run)
            /\ pollOf' = IF t.stream THEN None ELSE b
            /\ polls' = IF t.stream THEN polls ELSE polls \cup {b}
       ELSE /\ turns' = turns \ {t}
            /\ pollOf' = None /\ UNCHANGED <<polls, controller, sending, stopping>>
    /\ UNCHANGED <<pending, started>>

BranchFails(t) ==
    /\ t.stage = "branching" /\ turns' = turns \ {t}
    /\ UNCHANGED <<rows, listed, selected, loads, pending, skip, optimistic, started, controller,
                   sending, stopping>>

\* handleRetryAssistant: the tail is pruned on screen and the turn runs again.
Retry(stream) ==
    LET t == Turn("retry", "running", selected, FALSE, stream) IN
    /\ CanRerun
    /\ started' = started + 1
    /\ Perform(turns, t) /\ StartPolling(t)
    /\ UNCHANGED <<rows, listed, selected, shown, history, pending, skip, optimistic>>

\* The server stores the turn; a session that did not exist now does.
Serve(t) ==
    /\ t.stage = "running" /\ ~t.served
    /\ turns' = (turns \ {t}) \cup {[t EXCEPT !.served = TRUE]}
    /\ rows' = rows \cup {t.session}
    /\ UNCHANGED <<listed, selected, loads, pending, skip, optimistic, started, controller,
                   sending, stopping>>

\* performChatMutation's finally, and the callers' own.
Ended(t) ==
    /\ turns' = turns \ {t}
    /\ pollOf' = None
    /\ sending' = FALSE /\ stopping' = FALSE /\ controller' = 0
    /\ skip' = IF t.kind # "send" /\ skip = t.session THEN None ELSE skip

\* applyChatResponse: a session that was pending is navigated to (again), and
\* the response's messages are put on screen.
Answer(t) ==
    LET wasPending == t.session \in pending
        rest == {o \in optimistic : o.id # t.id}
    IN
    /\ t.stage = "running" /\ t.served /\ ~t.aborted
    /\ Ended(t)
    /\ pending' = pending \ {t.session}
    /\ listed' = listed \cup {t.session}
    /\ IF wasPending /\ t.session # selected
       THEN /\ selected' = t.session
            /\ history' = IF skip' = t.session THEN None ELSE t.session
            /\ shown' = t.session
            /\ optimistic' = KeepOptimistic(t.session, rest)
       ELSE /\ UNCHANGED <<selected, history>> /\ shown' = t.session /\ optimistic' = rest
    /\ UNCHANGED <<rows, polls, started>>

\* The request fails: a send gives its text back, and a session that was to be
\* created is dropped from the panel and from the route.
Fail(t) ==
    LET rest == {o \in optimistic : o.id # t.id} IN
    /\ t.stage = "running" /\ ~t.aborted
    /\ Ended(t)
    /\ UNCHANGED <<rows, polls, started>>
    /\ IF t.kind = "send"
       THEN /\ pending' = pending \ {t.session}
            /\ IF t.new
               THEN /\ listed' = listed \ {t.session} /\ selected' = None
                    /\ IF selected = None THEN UNCHANGED <<history, shown>> /\ optimistic' = rest
                       ELSE history' = None /\ shown' = None /\ optimistic' = {}
               ELSE UNCHANGED <<listed, selected, history, shown>> /\ optimistic' = rest
       ELSE UNCHANGED <<pending, listed, selected, history, shown>> /\ optimistic' = rest

\* An aborted request rejects: nothing is given back.
Abort(t) ==
    /\ t.stage = "running" /\ t.aborted
    /\ Ended(t)
    /\ pending' = IF t.kind = "send" THEN pending \ {t.session} ELSE pending
    /\ optimistic' = {o \in optimistic : o.id # t.id}
    /\ UNCHANGED <<rows, listed, selected, shown, history, polls, started>>

StopGeneration ==
    /\ sending /\ ~stopping
    /\ stopping' = TRUE /\ turns' = Aborted(turns) /\ pollOf' = None
    /\ UNCHANGED <<rows, listed, selected, shown, history, polls, pending, skip,
                   optimistic, started, controller, sending>>

\* A poll tick of the interval, and its answer: dropped when the polled
\* session is no longer the one asked for.
PollTick ==
    /\ pollOf # None /\ pollOf \notin polls
    /\ polls' = polls \cup {pollOf}
    /\ UNCHANGED <<rows, listed, selected, shown, history, pollOf, pending, skip,
                   optimistic, turns, started, controller, sending, stopping>>

PollLands(s) ==
    /\ s \in polls /\ polls' = polls \ {s}
    /\ shown' = IF pollOf = s /\ s \in rows THEN s ELSE shown
    /\ UNCHANGED <<rows, listed, selected, history, pollOf, pending, skip, optimistic,
                   turns, started, controller, sending, stopping>>

\* handleStartNewChat; it is also the end of deleting the last session.
ToNewChat ==
    /\ pending' = {}
    /\ selected' = None /\ pollOf' = None
    /\ history' = None /\ shown' = None /\ optimistic' = {}

StartNewChat ==
    /\ selected # None
    /\ ToNewChat
    /\ UNCHANGED <<rows, listed, polls, skip, turns, started, controller, sending, stopping>>

\* handleDeleteSession once the request succeeded.  It goes by the selection it
\* was clicked under (old), which may have changed during the request.
Delete(s, old) ==
    LET left == listed \ {s} IN
    /\ s \in listed /\ old \in listed \cup {None}
    /\ rows' = rows \ {s} /\ listed' = left
    /\ \/ /\ old # s
          /\ UNCHANGED <<selected, shown, history, pollOf, pending, optimistic>>
       \/ old = s /\ left = {} /\ ToNewChat
       \/ /\ old = s /\ \E n \in left : selected' = n /\ Moved(n, pending, shown, skip, optimistic)
          /\ UNCHANGED pending
    /\ UNCHANGED <<polls, skip, turns, started, controller, sending, stopping>>

Next ==
    \/ \E s \in Sessions \cup {None} : SelectSession(s) \/ PollLands(s)
         \/ \E old \in Sessions \cup {None} : Delete(s, old)
    \/ HistoryLands \/ ListLands
    \/ \E b \in BOOLEAN : \/ Send(b) \/ Retry(b)
                          \/ \E s \in Fresh : SendNew(s, b)
                          \/ \E k \in {"edit", "branch"} : RequestBranch(k, b)
    \/ \E t \in turns : \/ Frame(t) \/ BranchFails(t) \/ Serve(t) \/ Answer(t) \/ Fail(t) \/ Abort(t)
                        \/ \E b \in Fresh : BranchLands(t, b)
    \/ StopGeneration \/ PollTick \/ StartNewChat

\* Requests end, one way or the other, and the frame comes.
Fairness ==
    /\ \A i \in 1 .. MaxTurns :
         /\ WF_vars(\E t \in turns : t.id = i /\ (Frame(t) \/ BranchFails(t)))
         /\ WF_vars(\E t \in turns : t.id = i /\ (Answer(t) \/ Fail(t) \/ Abort(t)))

Spec == Init /\ [][Next]_vars /\ Fairness

-------------------------------------------------------------------------------
TypeOK ==
    /\ rows \subseteq Sessions /\ listed \subseteq Sessions /\ pending \subseteq Sessions
    /\ {selected, history, pollOf, skip} \subseteq Sessions \cup {None}
    /\ shown \in Sessions \cup {None}
    /\ \A t \in turns : t.stage \in {"frame", "branching", "running"} /\ t.session \in Sessions
    /\ controller \in 0 .. MaxTurns

\* Whatever changed the selection (a click, the browser, a response that
\* navigates, a failed or a deleted session), the only history load that can
\* still put its messages on screen is the selected session's.
OnlySelectedLoads == history \in {None, selected}

\* A session is marked pending only while the turn that creates it runs: no
\* failure, stop or new chat leaves one behind, whose history would then never
\* be loaded.
PendingHasTurn == \A s \in pending : \E t \in turns : t.session = s

\* A placeholder message on screen belongs to a turn that is still running.
OptimisticHasTurn == \A o \in optimistic : \E t \in turns : t.id = o.id

\* The Stop button is offered only while the turn it stops is running.
StopReachesTurn == sending => \E t \in turns : t.id = controller /\ t.stage = "running"

\* Sending ends.
SendingEnds == sending ~> ~sending

\* Why they hold: a turn that makes a session or has a placeholder is a send
\* that has not ended, and a session leaves the pending set with its send.
Records == [id : 1 .. started, kind : {"send", "retry", "edit", "branch"},
            stage : {"frame", "branching", "running"}, session : Sessions, new : BOOLEAN,
            stream : BOOLEAN, aborted : BOOLEAN, served : BOOLEAN]

TurnsInv ==
    /\ TypeOK /\ OnlySelectedLoads /\ StopReachesTurn
    /\ started \in 0 .. MaxTurns /\ turns \subseteq Records
    /\ \A t \in turns : t.stage = "branching" => t.kind # "send"
    /\ \A s \in pending : \E t \in turns : t.session = s /\ t.kind = "send"
    /\ \A o \in optimistic : \E t \in turns : t.id = o.id /\ t.stage = "running"
===============================================================================
