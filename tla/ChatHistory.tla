------------------------------ MODULE ChatHistory ------------------------------
(***************************************************************************)
(* The messages of one chat session: the rows the backend stores, and what *)
(* the timeline makes of them.  Three sources put messages on screen: a    *)
(* history load, the progress poll and the response of a turn; each        *)
(* replaces the list (syncMessages with hydrate).  A turn also puts a      *)
(* placeholder of its text on screen, which must give way to the stored    *)
(* row, whichever of the three sources brings it first.                    *)
(*                                                                         *)
(* Texts are what a user types; several turns may carry the same text.     *)
(* Roles: "call" is an assistant row that only holds tool calls.           *)
(***************************************************************************)
EXTENDS Integers, ListOrder, SequencesExt, FiniteSetsExt

CONSTANTS
    Texts,          \* what the user may type
    MaxRows,        \* bound: rows ever stored
    MaxTurns,       \* bound: turns sent, edited or retried
    HistoryLimit    \* list_messages: default limit

VARIABLES
    stored,     \* backend rows, oldest first
    rowCount,   \* rows ever stored, the source of their ids
    screen,     \* messages
    ghosts,     \* optimisticMessages
    order,      \* messageOrderRef: id -> rank, with nextMessageOrderRef
    nextOrder,
    reasoned,   \* reasoningCacheRef: ids
    poll,       \* the listing the poll in flight brings, if any
    turn,       \* the turn running, or Idle
    turnCount,
    loaded      \* the session's history has been loaded

vars == <<stored, rowCount, screen, ghosts, order, nextOrder, reasoned, poll, turn, turnCount, loaded>>

Roles == {"user", "call", "tool", "assistant"}
Idle == [kind |-> "idle", stage |-> "idle", text |-> "", target |-> 0, seen |-> FALSE]

\* Ids: a row's is its number, a placeholder's the turn's number negated.
Row(role, text, reasoning) == [id |-> rowCount + 1, role |-> role, text |-> text, reasoning |-> reasoning]
Ghost(text) == [id |-> -(turnCount + 1), role |-> "user", text |-> text, reasoning |-> FALSE]
Ids(ms) == {ms[i].id : i \in 1 .. Len(ms)}

Init ==
    /\ \E n \in 0 .. 1, x \in Texts :
         stored = IF n = 0 THEN <<>>
                  ELSE <<[id |-> 1, role |-> "user", text |-> x, reasoning |-> FALSE],
                         [id |-> 2, role |-> "assistant", text |-> "", reasoning |-> FALSE]>>
    /\ rowCount = Len(stored)
    /\ screen = <<>> /\ ghosts = <<>> /\ order = <<>> /\ nextOrder = 1 /\ reasoned = {}
    /\ poll = {} /\ turn = Idle /\ turnCount = 0 /\ loaded = FALSE

-------------------------------------------------------------------------------
ListMessages == SubSeq(stored, 1, Min({Len(stored), HistoryLimit}))

\* ensureMessageOrder: messages without a rank get the next ones, in order.
NewIds(ms) == SelectSeq([i \in 1 .. Len(ms) |-> ms[i].id], LAMBDA d : d \notin DOMAIN order)
Ranked(ms) ==
    LET new == NewIds(ms) IN
    [d \in DOMAIN order \cup ToSet(new) |->
        IF d \in DOMAIN order THEN order[d]
        ELSE nextOrder + (CHOOSE i \in 1 .. Len(new) : new[i] = d) - 1]

\* Mutant: any row with the same text takes the placeholder's place.
IsOptimisticDuplicateByText(g, m, ord) == m.role = "user" /\ m.text = g.text

\* Every message in the two lists has a rank, so the comparison of timestamps
\* that the code falls back to is never reached.
IsOptimisticDuplicate(g, m, ord) ==
    m.role = "user" /\ m.text = g.text /\ ord[m.id] >= ord[g.id]

\* Mutant: reasoning is not cached when messages arrive.
SyncWithoutCache(ms) ==
    /\ screen' = ms
    /\ order' = Ranked(ms)
    /\ nextOrder' = nextOrder + Len(NewIds(ms))
    /\ reasoned' = reasoned

\* syncMessages with hydrate, and the effect that drops duplicated placeholders.
Sync(ms) ==
    /\ screen' = ms
    /\ order' = Ranked(ms)
    /\ nextOrder' = nextOrder + Len(NewIds(ms))
    /\ reasoned' = reasoned \cup {m.id : m \in {n \in ToSet(ms) : n.reasoning}}

DropDuplicates(gs, ms, ord) ==
    SelectSeq(gs, LAMBDA g : \A m \in ToSet(ms) : ~IsOptimisticDuplicate(g, m, ord))

\* buildChatEntries: messages and remaining placeholders by rank.  A row that
\* only holds tool calls has no bubble; reasoning is shown when the message or
\* the cache has it.
BuildChatEntries ==
    LET ms == screen \o DropDuplicates(ghosts, screen, order)
        ranked == SetToSortSeq(ToSet(ms), LAMBDA a, b : order[a.id] < order[b.id])
        bubbles == SelectSeq(ranked, LAMBDA m : m.role # "call")
    IN [i \in 1 .. Len(bubbles) |->
          [id |-> bubbles[i].id, role |-> bubbles[i].role, text |-> bubbles[i].text]]

ReasoningEntries ==
    {m.id : m \in {n \in ToSet(screen) : n.role # "user" /\ (n.reasoning \/ n.id \in reasoned)}}

\* pruneHistoryForEdit: what stays on screen when message d is edited to x.
Prune(ms, d, x) ==
    LET t == CHOOSE i \in 1 .. Len(ms) : ms[i].id = d
        users == {i \in 1 .. t - 1 : ms[i].role = "user"}
        anchors == {i \in Max(users) + 1 .. Len(ms) : ms[i].role # "user"}
    IN CASE d \notin Ids(ms) -> ms
         [] d \in Ids(ms) /\ ms[t].role = "user" ->
              Append(SubSeq(ms, 1, t - 1), [ms[t] EXCEPT !.text = x])
         [] d \in Ids(ms) /\ ms[t].role # "user" ->
              IF users = {} THEN SubSeq(ms, 1, t - 1)
              ELSE IF anchors = {} THEN SubSeq(ms, 1, Max(users))
              ELSE SubSeq(ms, 1, Min(anchors) - 1)

\* apply_edit: what the backend keeps.  Row numbers stand for created_at.
ApplyEdit(ms, d, x) ==
    LET t == CHOOSE i \in 1 .. Len(ms) : ms[i].id = d
        lastUser == {i \in 1 .. t : ms[i].role = "user"}
        since == IF lastUser = {} THEN t ELSE Max(lastUser)
        anchor == {i \in since .. Len(ms) : ms[i].role # "user"}
        cut == IF anchor = {} THEN t ELSE Min(anchor)
        dropped == {i \in DOMAIN ms : i >= cut \/ (ms[i].role = "tool" /\ i >= since)}
    IN IF ms[t].role = "user"
       THEN Append(SubSeq(ms, 1, t - 1), [ms[t] EXCEPT !.text = x])
       ELSE Without(ms, {ms[i] : i \in dropped})

-------------------------------------------------------------------------------
\* The history effect of the selected session; the reasoning cache is cleared
\* when the session is selected.
Load ==
    /\ ~loaded /\ loaded' = TRUE
    /\ Sync(ListMessages)
    /\ ghosts' = DropDuplicates(ghosts, screen', order')
    /\ UNCHANGED <<stored, rowCount, poll, turn, turnCount>>

\* handleSend: the placeholder is ranked before the request is made.
Send(x) ==
    LET g == Ghost(x) IN
    /\ turn = Idle /\ turnCount < MaxTurns /\ rowCount + 1 < MaxRows
    /\ ghosts' = Append(ghosts, g)
    /\ order' = Ranked(<<g>>) /\ nextOrder' = nextOrder + 1
    /\ turnCount' = turnCount + 1
    /\ turn' = [kind |-> "send", stage |-> "asked", text |-> x, target |-> 0,
                seen |-> loaded /\ Ids(screen) = Ids(ListMessages)]
    /\ UNCHANGED <<stored, rowCount, screen, reasoned, poll, loaded>>

\* runEditMutation: an edited user message or a retried answer; the tail is
\* pruned on screen at once.
Rerun(d, x) ==
    /\ turn = Idle /\ turnCount < MaxTurns /\ rowCount < MaxRows /\ loaded
    /\ d \in Ids(screen)
    /\ Sync(Prune(screen, d, x))
    /\ ghosts' = DropDuplicates(ghosts, screen', order')
    /\ turnCount' = turnCount + 1
    /\ turn' = [kind |-> "rerun", stage |-> "asked", text |-> x, target |-> d,
                seen |-> Ids(screen) = Ids(ListMessages)]
    /\ UNCHANGED <<stored, rowCount, poll, loaded>>

\* _apply_payload_to_session: the user row is recorded, or the edit applied.
Accept ==
    /\ turn.stage = "asked"
    /\ turn' = [turn EXCEPT !.stage = "running"]
    /\ IF turn.kind = "send"
       THEN stored' = Append(stored, Row("user", turn.text, FALSE)) /\ rowCount' = rowCount + 1
       ELSE /\ turn.target \in Ids(stored)
            /\ stored' = ApplyEdit(stored, turn.target, turn.text) /\ UNCHANGED rowCount
    /\ UNCHANGED <<screen, ghosts, order, nextOrder, reasoned, poll, turnCount, loaded>>

\* The run loop stores tool calls, their results and the answer.
Store(role, reasoning) ==
    /\ turn.stage = "running" /\ rowCount < MaxRows
    /\ role = "tool" <=> stored # <<>> /\ Last(stored).role = "call"
    /\ role # "user"
    /\ stored' = Append(stored, Row(role, "", reasoning)) /\ rowCount' = rowCount + 1
    /\ turn' = [turn EXCEPT !.stage = IF role = "assistant" THEN "answered" ELSE "running"]
    /\ UNCHANGED <<screen, ghosts, order, nextOrder, reasoned, poll, turnCount, loaded>>

\* A poll reads the rows; it lands unless polling has stopped meanwhile.
PollReads ==
    /\ turn # Idle /\ poll = {}
    /\ poll' = {ListMessages}
    /\ UNCHANGED <<stored, rowCount, screen, ghosts, order, nextOrder, reasoned, turn, turnCount, loaded>>

PollLands ==
    /\ poll # {} /\ poll' = {}
    /\ \E list \in poll : Sync(list)
    /\ ghosts' = DropDuplicates(ghosts, screen', order')
    /\ UNCHANGED <<stored, rowCount, turn, turnCount, loaded>>

\* applyChatResponse: the reasoning streamed meanwhile is injected into the
\* final assistant message; the placeholder is removed and polling stops.
Respond(streamed) ==
    LET list == ListMessages
        final == {i \in 1 .. Len(list) : list[i].role = "assistant"}
        injected == IF streamed /\ final # {}
                    THEN [list EXCEPT ![Max(final)].reasoning = TRUE] ELSE list
    IN
    /\ turn.stage = "answered"
    /\ Sync(injected)
    /\ ghosts' = <<>> /\ poll' = {} /\ turn' = Idle
    /\ UNCHANGED <<stored, rowCount, turnCount, loaded>>

\* The request fails; the placeholder is removed and polling stops.
Fail ==
    /\ turn # Idle
    /\ ghosts' = <<>> /\ poll' = {} /\ turn' = Idle
    /\ UNCHANGED <<stored, rowCount, screen, order, nextOrder, reasoned, turnCount, loaded>>

Next ==
    \/ Load \/ Accept \/ PollReads \/ PollLands \/ Fail
    \/ \E x \in Texts : Send(x) \/ \E d \in Ids(screen) : Rerun(d, x)
    \/ \E r \in Roles, b \in BOOLEAN : Store(r, b)
    \/ \E b \in BOOLEAN : Respond(b)

Spec == Init /\ [][Next]_vars

-------------------------------------------------------------------------------
TypeOK ==
    /\ rowCount \in 0 .. MaxRows /\ turnCount \in 0 .. MaxTurns
    /\ Ids(screen) \cup Ids(ghosts) \subseteq DOMAIN order
    /\ \A d \in DOMAIN order : order[d] \in 1 .. nextOrder - 1
    /\ turn.stage \in {"idle", "asked", "running", "answered"}

UserBubbles(x) == {i \in 1 .. Len(BuildChatEntries) :
                     BuildChatEntries[i].role = "user" /\ BuildChatEntries[i].text = x}
UserRows(x) == {m \in ToSet(stored) : m.role = "user" /\ m.text = x}

\* What was sent is on screen exactly once, whichever of poll, history load or
\* response brings the stored row first, and however often the same text was
\* sent before: the placeholder and its row never show together and never both
\* vanish.  It needs a screen that was up to date when the turn was sent: a row
\* with the same text that the screen had not shown yet (history not loaded, or
\* the row of a failed turn) would be taken for the placeholder's own.
SentOnce ==
    turn.kind = "send" /\ turn.seen =>
        Cardinality(UserBubbles(turn.text)) =
            Cardinality(UserRows(turn.text)) + (IF turn.stage = "asked" THEN 1 ELSE 0)

\* Bubbles stay in the order of the conversation: stored rows in the order
\* they were stored, and the placeholder last.
InOrder ==
    turn = Idle \/ turn.seen =>
        \A i, j \in 1 .. Len(BuildChatEntries) :
            LET a == BuildChatEntries[i].id  b == BuildChatEntries[j].id IN
            i < j => a > 0 /\ (b > 0 => a < b)

\* An edit or a retry prunes on screen exactly what the backend deletes, for
\* every message it can be asked for.
PruneAgrees ==
    screen = stored => \A d \in Ids(screen), x \in Texts :
        Prune(screen, d, x) = ApplyEdit(stored, d, x)

\* Reasoning that is shown stays while its message is on screen: a later poll
\* or edit whose rows carry none does not take it away.
ReasoningKeptStep == ReasoningEntries \cap Ids(screen') \subseteq ReasoningEntries'
ReasoningKept == [][ReasoningKeptStep]_vars

\* Why it holds: a row keeps its role from the server to the screen, its id is
\* never given again, and reasoning is cached as soon as it is on screen.
Contents == Texts \cup {""}
Messages == [id : 1 .. rowCount, role : Roles, text : Contents, reasoning : BOOLEAN]
Seen == ToSet(stored) \cup ToSet(screen) \cup UNION {ToSet(list) : list \in poll}
Turns == [kind : {"idle", "send", "rerun"}, stage : {"idle", "asked", "running", "answered"},
          text : Contents, target : Int, seen : BOOLEAN]

HistoryInv ==
    /\ rowCount \in Nat /\ turn \in Turns
    /\ {stored, screen} \cup poll \subseteq Seq(Messages)
    /\ \A m, n \in Seen : m.id = n.id => m.role = n.role
    /\ \A m \in ToSet(screen) : m.reasoning => m.id \in reasoned
===============================================================================
